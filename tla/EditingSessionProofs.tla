------------------------- MODULE EditingSessionProofs -------------------------
(***************************************************************************)
(* What the editing session keeps for any models, accessories, frames and   *)
(* stack limits.                                                           *)
(*                                                                         *)
(* That a frame move takes back one transform holds in a session of one     *)
(* model without camera commands and snapshots (PoseSession): README.md has *)
(* what the others do.                                                     *)
(***************************************************************************)
EXTENDS EditingSession, UndoStacksProofs

(* The commands that reach the stacks of the session, and those that reach  *)
(* the stacks of model editing.                                            *)
SessionCommand == {c \in Command : c.kind # "edit"}
EditCommand == {c \in Command : c.kind = "edit"}

Notes == [frame : Frames, offset : 0 .. Limit]

Typed ==
  /\ live \subseteq Models \cup Accessories
  /\ stack \in [Owners -> StackOf(SessionCommand)]
  /\ editingStack \in [Models -> StackOf(EditCommand)]
  /\ active \in Models \cup {NULL}
  /\ editing \in BOOLEAN
  /\ editingState = NULL \/ editingState \in [active : Models, frame : Frames]
  /\ editing => editingState # NULL
  /\ frame \in Frames
  /\ pending = NULL \/ pending \in Notes
  /\ playback \in {"stopped", "suspended", "paused", "playing"}
  /\ wasPlaying \in BOOLEAN /\ isActive \in BOOLEAN
  /\ clock \in {"running", "still"} /\ request \in {"none", "pause", "restart"}
  /\ saved \in Models \cup {NULL, NoState}
  /\ left \in Models \cup {NULL, NoState, Replaced}

SoundTyped ==
  /\ playback \in {"stopped", "suspended", "paused", "playing"}
  /\ wasPlaying \in BOOLEAN
  /\ clock \in {"running", "still"} /\ request \in {"none", "pause", "restart"}

-----------------------------------------------------------------------------
(* The parts the operations are made of.                                    *)

LEMMA ActiveOwner ==
  ASSUME Typed
  PROVE  /\ active # NULL => active \in Models /\ active \in Owners
         /\ PROJECT \in Owners
         /\ \A o \in Owners : stack[o] \in StackOf(SessionCommand)
         /\ \A m \in Models : editingStack[m] \in StackOf(EditCommand)
BY DEF Typed, Owners

LEMMA StackReplaced ==
  ASSUME Typed, NEW o \in Owners, NEW s \in StackOf(SessionCommand)
  PROVE  [stack EXCEPT ![o] = s] \in [Owners -> StackOf(SessionCommand)]
BY DEF Typed

LEMMA EditingStackReplaced ==
  ASSUME Typed, NEW m, NEW s \in StackOf(EditCommand)
  PROVE  [editingStack EXCEPT ![m] = s] \in [Models -> StackOf(EditCommand)]
BY DEF Typed

LEMMA RewindIsTyped ==
  ASSUME Typed, NEW to \in Frames, NEW model \in Models \cup {NULL}, Rewind(to, model)
  PROVE  /\ stack' \in [Owners -> StackOf(SessionCommand)]
         /\ pending' = NULL \/ pending' \in Notes
<1>1. CASE Rewinds(to)
  <2>1. pending' = NULL /\ pending \in Notes
    BY <1>1 DEF Rewind, Rewinds, Typed
  <2>2. CASE model = NULL
    BY <1>1, <2>1, <2>2 DEF Rewind, Typed
  <2>3. CASE model # NULL
    <3>1. model \in Owners /\ stack[model] \in StackOf(SessionCommand)
      BY <2>3, ActiveOwner DEF Owners
    <3>2. pending.offset \in Nat
      BY <2>1, LimitAssumption DEF Notes
    <3>3. Moved(stack[model], pending.offset) \in StackOf(SessionCommand)
      BY <3>1, <3>2, JumpKeepsStack
    <3>4. stack' = [stack EXCEPT ![model] = Moved(stack[model], pending.offset)]
      BY <1>1, <2>3 DEF Rewind
    <3> QED BY <2>1, <3>1, <3>3, <3>4, StackReplaced
  <2> QED BY <2>2, <2>3
<1>2. CASE ~Rewinds(to)
  BY <1>2 DEF Rewind, Typed
<1> QED BY <1>1, <1>2

LEMMA ActivateIsTyped ==
  ASSUME Typed, NEW value \in Models \cup {NULL}, Activate(value)
  PROVE  /\ stack' \in [Owners -> StackOf(SessionCommand)]
         /\ pending' = NULL \/ pending' \in Notes
         /\ active' \in Models \cup {NULL}
<1>1. CASE value # active /\ ~editing
  BY <1>1, RewindIsTyped DEF Activate, Typed
<1>2. CASE ~(value # active /\ ~editing)
  BY <1>2 DEF Activate, Typed
<1> QED BY <1>1, <1>2

(* The audio player, whatever its device asks for.                          *)
LEMMA PlayerIsTyped ==
  ASSUME Typed, NEW now \in {"stopped", "suspended", "paused", "playing"},
         NEW was \in BOOLEAN, NEW ticks \in {"running", "still"}, UpdatePlayer(now, was, ticks)
  PROVE  SoundTyped'
<1>1. CASE request = "none"
  BY <1>1 DEF UpdatePlayer, SoundTyped
<1>2. CASE request # "none" /\ playback' # "playing"
  BY <1>2 DEF UpdatePlayer, SoundTyped
<1>3. CASE request # "none" /\ playback' = "playing"
  BY <1>3 DEF UpdatePlayer, SoundTyped
<1> QED BY <1>1, <1>2, <1>3

LEMMA SoundIsTyped ==
  ASSUME Typed
  PROVE  /\ SoundTyped /\ isPlaying \in BOOLEAN
         /\ UNCHANGED sound => SoundTyped'
         /\ SeekPlayer => SoundTyped'
         /\ \A value \in {"suspended", "playing"} : setState(value) => SoundTyped'
<1>1. SoundTyped /\ isPlaying \in BOOLEAN
  BY DEF Typed, SoundTyped, isPlaying
<1>2. SeekPlayer => SoundTyped'
  BY PlayerIsTyped DEF SeekPlayer, Typed
<1>3. UNCHANGED sound => SoundTyped'
  BY <1>1 DEF sound, SoundTyped
<1>4. ASSUME NEW value \in {"suspended", "playing"}, setState(value) PROVE SoundTyped'
  BY <1>1, <1>4 DEF setState, SoundTyped
<1> QED BY <1>1, <1>2, <1>3, <1>4

LEMMA SeekOfIsTyped ==
  ASSUME Typed, NEW c \in Command, SeekOf(c)
  PROVE  frame' \in Frames /\ SoundTyped'
<1>1. frame \in Frames /\ c.frame \in Frames
  BY DEF Typed, Command
<1> QED BY <1>1, SoundIsTyped DEF SeekOf

LEMMA CommandParts ==
  ASSUME NEW c \in Command
  PROVE  c.kind \in Kinds /\ c.frame \in Frames
BY DEF Command

LEMMA OnUndoIsTyped ==
  ASSUME Typed, NEW c \in Command, OnUndo(c)
  PROVE  /\ pending' = NULL \/ pending' \in Notes
         /\ frame' \in Frames /\ SoundTyped'
BY SeekOfIsTyped DEF OnUndo, Typed

LEMMA OnRedoIsTyped ==
  ASSUME Typed, NEW c \in Command, NEW offset \in 0 .. Limit, OnRedo(c, offset)
  PROVE  /\ pending' = NULL \/ pending' \in Notes
         /\ frame' \in Frames /\ SoundTyped'
<1>1. c.frame \in Frames /\ frame \in Frames /\ (pending = NULL \/ pending \in Notes)
  BY CommandParts DEF Typed
<1>2. frame' \in Frames /\ SoundTyped'
  BY SeekOfIsTyped DEF OnRedo
<1>3. [frame |-> c.frame, offset |-> offset] \in Notes
  BY <1>1 DEF Notes
<1>4. pending' = NULL \/ pending' \in Notes
  BY <1>1, <1>3, Zenon DEF OnRedo
<1> QED BY <1>2, <1>4

LEMMA PushToIsTyped ==
  ASSUME Typed, NEW o \in Owners, NEW kind \in Kinds \ {"edit"},
         NEW target \in Models \cup Accessories \cup {PROJECT}, PushTo(o, kind, target)
  PROVE  Typed'
<1> DEFINE c == [kind |-> kind, frame |-> IF kind \in SeekingKinds THEN frame ELSE 0,
                   target |-> target]
<1>1. c \in SessionCommand
  BY FrameAssumption DEF Typed, SessionCommand, Command, Frames
<1>2. stack[o] \in StackOf(SessionCommand)
  BY ActiveOwner
<1>3. Pushed(stack[o], c) \in StackOf(SessionCommand)
  BY <1>1, <1>2, PushKeepsStack
<1>4. stack' \in [Owners -> StackOf(SessionCommand)]
  <2>1. stack' = [stack EXCEPT ![o] = Pushed(stack[o], c)]
    BY DEF PushTo
  <2> HIDE DEF c
  <2> QED BY <1>3, <2>1, StackReplaced
<1>5. stack[o].current \in 0 .. Limit
  <2>1. /\ stack[o].current \in Nat /\ Len(stack[o].commands) \in Nat
        /\ stack[o].current <= Len(stack[o].commands) /\ Len(stack[o].commands) <= Limit
    BY <1>2, PartsOfStack
  <2> QED BY <2>1, LimitAssumption
<1>6. (pending' = NULL \/ pending' \in Notes) /\ frame' \in Frames /\ SoundTyped'
  <2>1. OnRedo(c, stack[o].current)
    BY DEF PushTo
  <2>2. c \in Command
    BY <1>1 DEF SessionCommand
  <2> HIDE DEF c
  <2> QED BY <1>5, <2>1, <2>2, OnRedoIsTyped
<1> QED BY <1>4, <1>6 DEF PushTo, Typed, SoundTyped, front

-----------------------------------------------------------------------------
(* Every step keeps the types.                                              *)

LEMMA UndoIsTyped == ASSUME Typed, HandleUndoAction PROVE Typed'
<1>1. CASE active # NULL /\ editing
  <2>1. /\ editingStack[active] \in StackOf(EditCommand)
        /\ activeUndoStack = editingStack[active]
        /\ CanUndo(editingStack[active])
    BY <1>1, ActiveOwner DEF activeUndoStack, HandleUndoAction
  <2>2. Undone(editingStack[active]) \in StackOf(EditCommand)
        /\ Below(editingStack[active]) \in EditCommand
    BY <2>1, UndoKeepsStack
  <2>3. editingStack' \in [Models -> StackOf(EditCommand)]
    BY <1>1, <2>1, <2>2, EditingStackReplaced DEF HandleUndoAction, ReplaceActiveUndoStack
  <2>4. (pending' = NULL \/ pending' \in Notes) /\ frame' \in Frames /\ SoundTyped'
    BY <2>1, <2>2, OnUndoIsTyped DEF EditCommand, HandleUndoAction
  <2>5. UNCHANGED <<stack, live, active, editing, editingState, front, saved>>
    BY <1>1 DEF HandleUndoAction, ReplaceActiveUndoStack
  <2> QED BY <2>3, <2>4, <2>5 DEF Typed, SoundTyped, front
<1>2. CASE ~(active # NULL /\ editing)
  <2> DEFINE o == IF active = NULL THEN PROJECT ELSE active
  <2>1. /\ o \in Owners /\ stack[o] \in StackOf(SessionCommand)
        /\ activeUndoStack = stack[o] /\ CanUndo(stack[o])
    BY <1>2, ActiveOwner DEF activeUndoStack, HandleUndoAction
  <2>2. Undone(stack[o]) \in StackOf(SessionCommand) /\ Below(stack[o]) \in SessionCommand
    BY <2>1, UndoKeepsStack
  <2>3. /\ stack' = [stack EXCEPT ![o] = Undone(stack[o])]
        /\ UNCHANGED <<editingStack, live, active, editing, editingState, front, saved>>
    BY <1>2, <2>1 DEF HandleUndoAction, ReplaceActiveUndoStack
  <2>4. (pending' = NULL \/ pending' \in Notes) /\ frame' \in Frames /\ SoundTyped'
    BY <2>1, <2>2, OnUndoIsTyped DEF SessionCommand, HandleUndoAction
  <2> HIDE DEF o
  <2>5. stack' \in [Owners -> StackOf(SessionCommand)]
    BY <2>1, <2>2, <2>3, StackReplaced
  <2> QED BY <2>3, <2>4, <2>5 DEF Typed, SoundTyped, front
<1> QED BY <1>1, <1>2

LEMMA RedoIsTyped == ASSUME Typed, HandleRedoAction PROVE Typed'
<1>1. CASE active # NULL /\ editing
  <2>1. /\ editingStack[active] \in StackOf(EditCommand)
        /\ activeUndoStack = editingStack[active]
        /\ CanRedo(editingStack[active])
    BY <1>1, ActiveOwner DEF activeUndoStack, HandleRedoAction
  <2>2. Redone(editingStack[active]) \in StackOf(EditCommand)
        /\ Above(editingStack[active]) \in EditCommand
    BY <2>1, RedoKeepsStack
  <2>3. editingStack' \in [Models -> StackOf(EditCommand)]
    BY <1>1, <2>1, <2>2, EditingStackReplaced DEF HandleRedoAction, ReplaceActiveUndoStack
  <2>o. editingStack[active].current + 1 \in 0 .. Limit
    <3>1. /\ editingStack[active].current \in Nat /\ Len(editingStack[active].commands) \in Nat
          /\ Len(editingStack[active].commands) <= Limit
          /\ editingStack[active].current < Len(editingStack[active].commands)
      BY <2>1, PartsOfStack DEF CanRedo
    <3> QED BY <3>1, LimitAssumption
  <2>4. (pending' = NULL \/ pending' \in Notes) /\ frame' \in Frames /\ SoundTyped'
    BY <2>1, <2>2, <2>o, OnRedoIsTyped DEF EditCommand, HandleRedoAction
  <2>5. UNCHANGED <<stack, live, active, editing, editingState, front, saved>>
    BY <1>1 DEF HandleRedoAction, ReplaceActiveUndoStack
  <2> QED BY <2>3, <2>4, <2>5 DEF Typed, SoundTyped, front
<1>2. CASE ~(active # NULL /\ editing)
  <2> DEFINE o == IF active = NULL THEN PROJECT ELSE active
  <2>1. /\ o \in Owners /\ stack[o] \in StackOf(SessionCommand)
        /\ activeUndoStack = stack[o] /\ CanRedo(stack[o])
    BY <1>2, ActiveOwner DEF activeUndoStack, HandleRedoAction
  <2>2. Redone(stack[o]) \in StackOf(SessionCommand) /\ Above(stack[o]) \in SessionCommand
    BY <2>1, RedoKeepsStack
  <2>3. /\ stack' = [stack EXCEPT ![o] = Redone(stack[o])]
        /\ OnRedo(Above(stack[o]), stack[o].current + 1)
        /\ UNCHANGED <<editingStack, live, active, editing, editingState, front, saved>>
    BY <1>2, <2>1 DEF HandleRedoAction, ReplaceActiveUndoStack
  <2> HIDE DEF o
  <2>o. stack[o].current + 1 \in 0 .. Limit
    <3>1. /\ stack[o].current \in Nat /\ Len(stack[o].commands) \in Nat
          /\ Len(stack[o].commands) <= Limit /\ stack[o].current < Len(stack[o].commands)
      BY <2>1, PartsOfStack DEF CanRedo
    <3> QED BY <3>1, LimitAssumption
  <2>4. (pending' = NULL \/ pending' \in Notes) /\ frame' \in Frames /\ SoundTyped'
    BY <2>2, <2>3, <2>o, OnRedoIsTyped DEF SessionCommand
  <2>5. stack' \in [Owners -> StackOf(SessionCommand)]
    BY <2>1, <2>2, <2>3, StackReplaced
  <2> QED BY <2>3, <2>4, <2>5 DEF Typed, SoundTyped, front
<1> QED BY <1>1, <1>2

LEMMA EditIsTyped == ASSUME Typed, Edit PROVE Typed'
<1>1. ASSUME NEW kind \in ModelKinds, PushModelCommand(kind) PROVE Typed'
  <2>1. kind \in Kinds \ {"edit"} /\ active \in Models /\ PushTo(active, kind, active)
    BY <1>1 DEF PushModelCommand, PushTo, ModelKinds, Typed
  <2> QED BY <2>1, PushToIsTyped DEF Owners
<1>2. ASSUME NEW kind \in ProjectKinds, PushProjectCommand(kind) PROVE Typed'
  <2>1. kind \in Kinds \ {"edit"} /\ PushTo(PROJECT, kind, PROJECT)
    BY <1>2 DEF PushProjectCommand, PushTo
  <2> QED BY <2>1, PushToIsTyped DEF Owners
<1>3. ASSUME NEW a \in Accessories, PushAccessoryCommand(a) PROVE Typed'
  <2>1. "accessory" \in Kinds \ {"edit"} /\ PushTo(PROJECT, "accessory", a)
    BY <1>3 DEF PushAccessoryCommand, PushTo
  <2> QED BY <2>1, PushToIsTyped DEF Owners
<1>4. ASSUME PushEditingCommand PROVE Typed'
  <2> DEFINE c == [kind |-> "edit", frame |-> 0, target |-> active]
  <2>1. c \in EditCommand /\ active \in Models
    BY <1>4, FrameAssumption DEF PushEditingCommand, Typed, EditCommand, Command, Frames
  <2>2. Pushed(editingStack[active], c) \in StackOf(EditCommand)
    BY <2>1, PushKeepsStack, ActiveOwner
  <2>3. editingStack' = [editingStack EXCEPT ![active] = Pushed(editingStack[active], c)]
    BY <1>4 DEF PushEditingCommand
  <2> HIDE DEF c
  <2>4. editingStack' \in [Models -> StackOf(EditCommand)]
    BY <2>2, <2>3, EditingStackReplaced
  <2> QED BY <1>4, <2>4 DEF PushEditingCommand, Typed, player, sound, front
<1>5. ASSUME HandleUndoAction PROVE Typed'
  BY <1>5, UndoIsTyped
<1>6. ASSUME HandleRedoAction PROVE Typed'
  BY <1>6, RedoIsTyped
<1>7. ASSUME ImportModelMotion PROVE Typed'
  <2>1. stack' \in [Owners -> StackOf(SessionCommand)]
    BY <1>7, StackReplaced, EmptyIsStack, ActiveOwner DEF ImportModelMotion
  <2> QED BY <1>7, <2>1 DEF ImportModelMotion, Typed, player, sound, front
<1>8. ASSUME DeleteModel PROVE Typed'
  <2>1. stack' \in [Owners -> StackOf(SessionCommand)]
    BY <1>8, StackReplaced, EmptyIsStack, ActiveOwner DEF DeleteModel
  <2>2. 0 \in Frames
    BY FrameAssumption DEF Frames
  <2> QED BY <1>8, <2>1, <2>2 DEF DeleteModel, Typed, player, sound, front
<1>9. ASSUME NEW a \in Accessories, DeleteAccessory(a) PROVE Typed'
  BY <1>9 DEF DeleteAccessory, Typed, player, sound, front
<1>10. ASSUME OpenEditingWindow PROVE Typed'
  <2>1. editingStack' \in [Models -> StackOf(EditCommand)]
    BY <1>10, EditingStackReplaced, EmptyIsStack DEF OpenEditingWindow
  <2>2. /\ editingState' \in [active : Models, frame : Frames]
        /\ editingState'.active \in Models
    BY <1>10 DEF OpenEditingWindow, Typed
  <2>3. editingState' # NULL
    BY <2>2, NullAssumption DEF Frames
  <2> QED BY <1>10, <2>1, <2>2, <2>3 DEF OpenEditingWindow, Typed, player, sound, front
<1> QED BY <1>1, <1>2, <1>3, <1>4, <1>5, <1>6, <1>7, <1>8, <1>9, <1>10 DEF Edit

LEMMA PrepareStoppingIsTyped ==
  ASSUME Typed, PrepareStopping
  PROVE  /\ stack' \in [Owners -> StackOf(SessionCommand)]
         /\ pending' = NULL \/ pending' \in Notes
         /\ active' \in Models \cup {NULL}
         /\ editing' \in BOOLEAN /\ (editing' => editing) /\ saved' = NoState
         /\ UNCHANGED <<live, editingStack, editingState>>
<1>1. CASE saved = NoState
  BY <1>1 DEF PrepareStopping, StaysEditing, Typed
<1>2. CASE saved # NoState
  <2>1. saved \in Models \cup {NULL} /\ Activate(saved)
    BY <1>2 DEF PrepareStopping, Typed
  <2> QED BY <2>1, ActivateIsTyped DEF PrepareStopping, StaysEditing, Typed
<1> QED BY <1>1, <1>2

LEMMA StopIsTyped == ASSUME Typed, Stop PROVE Typed'
<1>1. 0 \in Frames
  BY FrameAssumption DEF Frames
<1>2. SoundTyped'
  BY SoundIsTyped, PlayerIsTyped DEF Stop, Typed
<1> QED BY <1>1, <1>2, PrepareStoppingIsTyped DEF Stop, Typed, SoundTyped, front

LEMMA RestoredIsModel ==
  ASSUME Typed
  PROVE  Restored \in Models \cup {NULL} /\ Restored # NoState
BY OwnerAssumption DEF Restored, Typed, NoState

LEMMA PreparePlayingIsTyped ==
  ASSUME Typed, PreparePlaying
  PROVE  /\ stack' \in [Owners -> StackOf(SessionCommand)]
         /\ pending' = NULL \/ pending' \in Notes
         /\ active' \in Models \cup {NULL}
         /\ saved' \in Models \cup {NULL} /\ saved' # NoState
         /\ UNCHANGED <<live, editingStack, editing, editingState, frame>>
BY ActivateIsTyped, OwnerAssumption DEF PreparePlaying, Typed, NoState

LEMMA PausePlayingIsTyped ==
  ASSUME Typed, PausePlaying, isActive' \in BOOLEAN,
         left' \in Models \cup {NULL, NoState, Replaced}
  PROVE  Typed'
<1>1. SoundTyped'
  BY SoundIsTyped, PlayerIsTyped DEF PausePlaying
<1> QED BY <1>1, PrepareStoppingIsTyped DEF PausePlaying, Typed, SoundTyped

LEMMA UpdateIsTyped == ASSUME Typed, Update PROVE Typed'
<1>1. CASE AdvancePlaying
  <2>1. PICK to \in frame .. MaxFrame : internalSeek(to, active)
    BY <1>1 DEF AdvancePlaying
  <2>2. to \in Frames
    BY <2>1, FrameAssumption DEF Frames, Typed
  <2>3. /\ stack' \in [Owners -> StackOf(SessionCommand)]
        /\ pending' = NULL \/ pending' \in Notes
        /\ frame' = to
    BY <2>1, <2>2, RewindIsTyped DEF internalSeek, Typed
  <2>4. SoundTyped'
    BY <1>1, PlayerIsTyped DEF AdvancePlaying, Typed
  <2> QED BY <1>1, <2>2, <2>3, <2>4 DEF AdvancePlaying, Typed, SoundTyped, front
<1>2. CASE FinishPlaying
  BY <1>2, StopIsTyped DEF FinishPlaying
<1>3. CASE RestartPlaying
  <2>1. Restored \in Models \cup {NULL} /\ Restored # NoState
    BY RestoredIsModel
  <2>2. 0 \in Frames /\ frame \in Frames
    BY FrameAssumption DEF Frames, Typed
  <2>3. /\ Rewind(frame, Restored) \/ Rewind(0, Restored)
        /\ saved' = Restored /\ active' = NULL /\ frame' = 0 /\ editing' = FALSE
        /\ SoundTyped'
        /\ UNCHANGED <<live, editingStack, editingState, isActive, left>>
    BY <1>3 DEF RestartPlaying, SoundTyped, front
  <2>4. /\ stack' \in [Owners -> StackOf(SessionCommand)]
        /\ pending' = NULL \/ pending' \in Notes
    BY <2>1, <2>2, <2>3, RewindIsTyped
  <2> QED BY <2>1, <2>2, <2>3, <2>4 DEF Typed, SoundTyped
<1> QED BY <1>1, <1>2, <1>3 DEF Update

LEMMA FrameMoveIsTyped == ASSUME Typed, FrameMove PROVE Typed'
<1>1. ASSUME NEW to \in Frames, Seek(to) PROVE Typed'
  <2>1. /\ stack' \in [Owners -> StackOf(SessionCommand)]
        /\ pending' = NULL \/ pending' \in Notes
        /\ frame' = to
    BY <1>1, RewindIsTyped DEF Seek, internalSeek, Typed
  <2>2. SoundTyped'
    BY <1>1, SoundIsTyped DEF Seek
  <2> QED BY <1>1, <2>1, <2>2 DEF Seek, Typed, SoundTyped, front
<1>2. ASSUME NEW value \in Models \cup {NULL}, SetActiveModel(value) PROVE Typed'
  <2>1. Activate(value)
    BY <1>2 DEF SetActiveModel
  <2> QED BY <1>2, <2>1, ActivateIsTyped DEF SetActiveModel, Typed, player, sound, front
<1>3. ASSUME CloseEditingWindow PROVE Typed'
  <2> DEFINE value == IF editing THEN active ELSE editingState.active
  <2>1. value \in Models \cup {NULL} /\ editingState.frame \in Frames /\ frame \in Frames
    BY <1>3 DEF CloseEditingWindow, Typed
  <2>2. /\ Rewind(frame, value) \/ Rewind(editingState.frame, value)
        /\ active' = value /\ frame' = editingState.frame
    BY <1>3 DEF CloseEditingWindow, ActivateAndSeek
  <2> HIDE DEF value
  <2>3. /\ stack' \in [Owners -> StackOf(SessionCommand)]
        /\ pending' = NULL \/ pending' \in Notes
    BY <2>1, <2>2, RewindIsTyped
  <2>4. editingStack' \in [Models -> StackOf(EditCommand)]
    BY <1>3, EditingStackReplaced, EmptyIsStack DEF CloseEditingWindow
  <2>5. UNCHANGED <<live, saved, isActive, left>> /\ editing' = FALSE /\ editingState' = NULL
    BY <1>3 DEF CloseEditingWindow, player, front
  <2>6. SoundTyped'
    BY <1>3, SoundIsTyped DEF CloseEditingWindow, player
  <2> QED BY <2>1, <2>2, <2>3, <2>4, <2>5, <2>6 DEF Typed, SoundTyped
<1>4. ASSUME Play PROVE Typed'
  BY <1>4, PreparePlayingIsTyped, SoundIsTyped DEF Play, Typed, SoundTyped, front
<1>5. ASSUME Pause PROVE Typed'
  BY <1>5, PausePlayingIsTyped DEF Pause, Typed, front
<1>6. ASSUME Stop PROVE Typed'
  BY <1>6, StopIsTyped
<1>7. ASSUME Update PROVE Typed'
  BY <1>7, UpdateIsTyped
<1>8. ASSUME Deactivate PROVE Typed'
  <2>1. isActive' \in BOOLEAN /\ left' \in Models \cup {NULL, NoState, Replaced}
    BY <1>8, RestoredIsModel DEF Deactivate, Leaving
  <2>2. CASE PausePlaying
    BY <2>1, <2>2, PausePlayingIsTyped
  <2>3. CASE ~PausePlaying
    BY <1>8, <2>1, <2>3, SoundIsTyped DEF Deactivate, Typed, SoundTyped
  <2> QED BY <2>2, <2>3
<1>9. ASSUME Reactivate PROVE Typed'
  <2>1. isActive' \in BOOLEAN /\ left' \in Models \cup {NULL, NoState, Replaced}
    BY <1>9 DEF Reactivate
  <2>2. CASE PreparePlaying /\ setState("playing")
    BY <2>1, <2>2, PreparePlayingIsTyped, SoundIsTyped DEF Typed, SoundTyped
  <2>3. CASE ~(PreparePlaying /\ setState("playing"))
    BY <1>9, <2>1, <2>3 DEF Reactivate, Typed, sound
  <2> QED BY <2>2, <2>3
<1> QED BY <1>1, <1>2, <1>3, <1>4, <1>5, <1>6, <1>7, <1>8, <1>9 DEF FrameMove

LEMMA DeviceChangesIsTyped == ASSUME Typed, DeviceChanges PROVE Typed'
BY DEF DeviceChanges, Typed, front

LEMMA InitIsTyped == Init => Typed
<1> SUFFICES ASSUME Init PROVE Typed
  OBVIOUS
<1>1. 0 \in Frames
  BY FrameAssumption DEF Frames
<1>2. /\ stack \in [Owners -> StackOf(SessionCommand)]
      /\ editingStack \in [Models -> StackOf(EditCommand)]
  BY EmptyIsStack DEF Init
<1> QED BY <1>1, <1>2 DEF Init, Typed

LEMMA TypedHolds == Spec => []Typed
<1>1. Typed /\ [Next]_vars => Typed'
  <2>1. CASE Next
    BY <2>1, EditIsTyped, FrameMoveIsTyped, DeviceChangesIsTyped DEF Next
  <2>2. CASE UNCHANGED vars
    BY <2>2 DEF vars, Typed
  <2> QED BY <2>1, <2>2
<1> QED BY <1>1, InitIsTyped, PTL DEF Spec

(* The variables keep their types, a cursor stays inside its commands and   *)
(* no stack outgrows the limit, whatever models, frames and kinds of        *)
(* commands there are.                                                     *)
THEOREM TypeCorrectness == Spec => []TypeOK
<1>1. ASSUME Typed, NEW S \in SUBSET Command, NEW s \in StackOf(S)
      PROVE  s \in Stack /\ Len(s.commands) <= Limit /\ s.current <= Len(s.commands)
  <2>1. /\ s.commands \in Seq(S) /\ s.current \in Nat /\ Len(s.commands) \in Nat
        /\ s.current <= Len(s.commands) /\ Len(s.commands) <= Limit
        /\ s = [commands |-> s.commands, current |-> s.current]
    BY <1>1, PartsOfStack
  <2>2. s.commands \in Seq(Command)
    BY <2>1, SeqMonotonic
  <2>3. s.current \in 0 .. Limit
    BY <2>1, LimitAssumption
  <2> QED BY <2>1, <2>2, <2>3 DEF Stack
<1>2. SessionCommand \in SUBSET Command /\ EditCommand \in SUBSET Command
  BY DEF SessionCommand, EditCommand
<1>3. Typed => TypeOK
  <2> SUFFICES ASSUME Typed PROVE TypeOK
    OBVIOUS
  <2>1. \A s \in {stack[o] : o \in Owners} \cup {editingStack[m] : m \in Models} :
          s \in Stack /\ Len(s.commands) <= Limit /\ s.current <= Len(s.commands)
    BY <1>1, <1>2, ActiveOwner
  <2> QED BY <2>1 DEF Typed, TypeOK, Notes
<1> QED BY <1>3, TypedHolds, PTL

-----------------------------------------------------------------------------
(* The note and the stack it is about.                                      *)

Fits(s, note) ==
  LET t == Moved(s, note.offset)
  IN t = s \/ (TakenBack(s, t) /\ Below(s).frame = note.frame)

(* What is noted of a transform that is pushed leads back before it, unless *)
(* the stack is full.                                                      *)
LEMMA NoteOfPush ==
  ASSUME NEW S, NEW s \in StackOf(S), NEW c \in S, c.kind = "transform"
  PROVE  Fits(Pushed(s, c), [frame |-> c.frame, offset |-> s.current])
<1> DEFINE t == Pushed(s, c)
<1>1. t \in StackOf(S)
  BY PushKeepsStack
<1>2. s.current \in Nat /\ Limit \in Nat
  BY PartsOfStack, LimitAssumption
<1>3. Below(t) = c /\ t.current = IF s.current = Limit THEN s.current ELSE s.current + 1
  BY PushIsBelow
<1> HIDE DEF t
<1>4. CASE s.current = Limit
  BY <1>2, <1>3, <1>4 DEF Fits, Moved, t
<1>5. CASE s.current # Limit
  <2>1. t.current = s.current + 1 /\ t.current \in Nat
    BY <1>2, <1>3, <1>5
  <2>2. Moved(t, s.current) = [t EXCEPT !.current = s.current]
    BY <1>2, <2>1 DEF Moved
  <2>3. t = [commands |-> t.commands, current |-> t.current]
    BY <1>1, PartsOfStack
  <2>4. Moved(t, s.current).commands = t.commands /\ Moved(t, s.current).current = s.current
    BY <2>2, <2>3
  <2>5. s.current = t.current - 1
    BY <1>2, <2>1
  <2> QED BY <1>3, <2>4, <2>5 DEF Fits, TakenBack, t
<1> QED BY <1>4, <1>5

(* What is noted of one that is redone leads nowhere.                       *)
LEMMA NoteOfRedo ==
  ASSUME NEW S, NEW s \in StackOf(S), CanRedo(s), NEW frameOf
  PROVE  Fits(Redone(s), [frame |-> frameOf, offset |-> s.current + 1])
<1>1. s.current \in Nat /\ s = [commands |-> s.commands, current |-> s.current]
  BY PartsOfStack
<1>2. Redone(s).current = s.current + 1 /\ s.current + 1 \in Nat
  BY <1>1 DEF Redone
<1> QED BY <1>2 DEF Fits, Moved

LEMMA NoteOfEmpty == ASSUME NEW note \in Notes PROVE Fits(EmptyStack, note)
<1>1. note.offset \in Nat
  BY LimitAssumption DEF Notes
<1> QED BY <1>1 DEF Fits, Moved, EmptyStack

LEMMA NotedByFits ==
  PendingIsTheTransform <=> (pending # NULL => \A m \in Models : Fits(stack[m], pending))
BY DEF PendingIsTheTransform, Fits

(* A move of frames applies the note to one stack, or drops it.             *)
LEMMA RewindTakesBack ==
  ASSUME Typed, PendingIsTheTransform,
         NEW to \in Frames, NEW model \in Models \cup {NULL}, Rewind(to, model)
  PROVE  /\ PendingIsTheTransform'
         /\ \A o \in Owners : stack'[o] = stack[o] \/ TakenBack(stack[o], stack'[o])
<1>1. CASE Rewinds(to)
  <2>1. pending # NULL /\ pending' = NULL
    BY <1>1 DEF Rewind, Rewinds
  <2>2. PendingIsTheTransform'
    BY <2>1 DEF PendingIsTheTransform
  <2>3. CASE model = NULL
    BY <1>1, <2>2, <2>3 DEF Rewind
  <2>4. CASE model # NULL
    <3>1. Fits(stack[model], pending)
      BY <2>1, <2>4, NotedByFits
    <3>2. stack' = [stack EXCEPT ![model] = Moved(stack[model], pending.offset)]
      BY <1>1, <2>4 DEF Rewind
    <3>3. stack \in [Owners -> StackOf(SessionCommand)]
      BY DEF Typed
    <3>4. ASSUME NEW o \in Owners
          PROVE  stack'[o] = stack[o] \/ TakenBack(stack[o], stack'[o])
      <4>1. CASE o = model
        BY <3>1, <3>2, <3>3, <4>1 DEF Fits
      <4>2. CASE o # model
        BY <3>2, <3>3, <4>2
      <4> QED BY <4>1, <4>2
    <3> QED BY <2>2, <3>4
  <2> QED BY <2>3, <2>4
<1>2. CASE ~Rewinds(to)
  BY <1>2 DEF Rewind, PendingIsTheTransform
<1> QED BY <1>1, <1>2

LEMMA ActivateTakesBack ==
  ASSUME Typed, PendingIsTheTransform, NEW value \in Models \cup {NULL}, Activate(value)
  PROVE  /\ PendingIsTheTransform'
         /\ \A o \in Owners : stack'[o] = stack[o] \/ TakenBack(stack[o], stack'[o])
<1>1. CASE value # active /\ ~editing
  BY <1>1, RewindTakesBack DEF Activate, Typed
<1>2. CASE ~(value # active /\ ~editing)
  BY <1>2 DEF Activate, PendingIsTheTransform
<1> QED BY <1>1, <1>2

LEMMA UnchangedNote ==
  ASSUME PendingIsTheTransform, UNCHANGED <<pending, stack>>
  PROVE  /\ PendingIsTheTransform'
         /\ \A o \in Owners : stack'[o] = stack[o] \/ TakenBack(stack[o], stack'[o])
BY DEF PendingIsTheTransform

LEMMA FrameMoveTakesBack ==
  ASSUME Typed, PendingIsTheTransform, FrameMove
  PROVE  /\ PendingIsTheTransform'
         /\ \A o \in Owners : stack'[o] = stack[o] \/ TakenBack(stack[o], stack'[o])
<1> DEFINE Goal ==
      /\ PendingIsTheTransform'
      /\ \A o \in Owners : stack'[o] = stack[o] \/ TakenBack(stack[o], stack'[o])
<1>f. 0 \in Frames /\ frame \in Frames /\ active \in Models \cup {NULL}
  BY FrameAssumption DEF Frames, Typed
<1>s. ASSUME PrepareStopping PROVE Goal
  <2>1. CASE saved = NoState
    BY <1>s, <2>1, UnchangedNote DEF PrepareStopping
  <2>2. CASE saved # NoState
    <3>1. saved \in Models \cup {NULL} /\ Activate(saved)
      BY <1>s, <2>2 DEF PrepareStopping, Typed
    <3> QED BY <3>1, ActivateTakesBack
  <2> QED BY <2>1, <2>2
<1>1. ASSUME NEW to \in Frames, Seek(to) PROVE Goal
  BY <1>1, <1>f, RewindTakesBack DEF Seek, internalSeek
<1>2. ASSUME NEW value \in Models \cup {NULL}, SetActiveModel(value) PROVE Goal
  BY <1>2, ActivateTakesBack DEF SetActiveModel
<1>3. ASSUME CloseEditingWindow PROVE Goal
  <2> DEFINE value == IF editing THEN active ELSE editingState.active
  <2>1. value \in Models \cup {NULL} /\ editingState.frame \in Frames
    BY <1>3 DEF CloseEditingWindow, Typed
  <2>2. Rewind(frame, value) \/ Rewind(editingState.frame, value)
    BY <1>3 DEF CloseEditingWindow, ActivateAndSeek
  <2> HIDE DEF value
  <2> QED BY <1>f, <2>1, <2>2, RewindTakesBack
<1>4. ASSUME Play PROVE Goal
  BY <1>4, ActivateTakesBack DEF Play, PreparePlaying
<1>5. ASSUME Pause PROVE Goal
  BY <1>5, <1>s DEF Pause, PausePlaying
<1>6. ASSUME Stop PROVE Goal
  BY <1>6, <1>s DEF Stop
<1>7. ASSUME AdvancePlaying PROVE Goal
  <2>1. PICK to \in frame .. MaxFrame : Rewind(to, active)
    BY <1>7 DEF AdvancePlaying, internalSeek
  <2>2. to \in Frames
    BY <1>f, <2>1, FrameAssumption DEF Frames
  <2> QED BY <1>f, <2>1, <2>2, RewindTakesBack
<1>8. ASSUME FinishPlaying PROVE Goal
  BY <1>8, <1>6 DEF FinishPlaying
<1>9. ASSUME RestartPlaying PROVE Goal
  <2>1. Restored \in Models \cup {NULL}
    BY RestoredIsModel
  <2>2. Rewind(frame, Restored) \/ Rewind(0, Restored)
    BY <1>9 DEF RestartPlaying
  <2> QED BY <1>f, <2>1, <2>2, RewindTakesBack
<1>10. ASSUME Deactivate PROVE Goal
  BY <1>10, <1>s, UnchangedNote DEF Deactivate, PausePlaying
<1>11. ASSUME Reactivate PROVE Goal
  BY <1>11, ActivateTakesBack, UnchangedNote DEF Reactivate, PreparePlaying
<1> QED
  BY <1>1, <1>2, <1>3, <1>4, <1>5, <1>6, <1>7, <1>8, <1>9, <1>10, <1>11 DEF FrameMove, Update

-----------------------------------------------------------------------------
(* In a session of poses every edit leaves a note that fits.                *)

(* One model, commands that pose and register keyframes of it, commands of  *)
(* accessories, and model editing.                                         *)
PoseSession ==
  /\ \A m, n \in Models : m = n
  /\ Kinds \subseteq {"transform", "keyframe", "accessory", "edit"}

(* What each stack holds then.                                              *)
Held(o) ==
  {c \in Command : c.kind \in (IF o = PROJECT THEN {"keyframe", "accessory"}
                                             ELSE {"transform", "keyframe"})}
Posed == \A o \in Owners : stack[o] \in StackOf(Held(o))

PoseInv == Typed /\ PendingIsTheTransform /\ Posed

LEMMA PosedByCommands ==
  ASSUME Typed, Posed, Typed',
         \A o \in Owners : stack'[o].commands = stack[o].commands
  PROVE  Posed'
<1> SUFFICES ASSUME NEW o \in Owners PROVE stack'[o] \in StackOf(Held(o))
  BY DEF Posed
<1>1. stack[o] \in StackOf(Held(o)) /\ stack'[o] \in StackOf(SessionCommand)
  BY DEF Posed, Typed
<1>2. stack'[o].commands = stack[o].commands
  OBVIOUS
<1> QED BY <1>1, <1>2 DEF StackOf

LEMMA PosedByOne ==
  ASSUME Typed, Posed, NEW o \in Owners, NEW s \in StackOf(Held(o)),
         stack' = [stack EXCEPT ![o] = s]
  PROVE  Posed'
BY DEF Posed, Typed

(* A stack that is the project's leaves the note as it is, or drops it.      *)
LEMMA NoteOfProject ==
  ASSUME Typed, PendingIsTheTransform, NEW s, stack' = [stack EXCEPT ![PROJECT] = s],
         pending' = pending \/ pending' = NULL
  PROVE  PendingIsTheTransform'
<1>1. \A m \in Models : stack'[m] = stack[m]
  BY OwnerAssumption DEF Typed, Owners
<1> QED BY <1>1, NotedByFits DEF PendingIsTheTransform

(* Of the one model, its stack and its note decide.                         *)
LEMMA NoteOfModel ==
  ASSUME Typed, PoseSession, NEW m \in Models, NEW s, stack' = [stack EXCEPT ![m] = s],
         pending' = NULL \/ Fits(s, pending')
  PROVE  PendingIsTheTransform'
<1>1. stack'[m] = s /\ \A n \in Models : n = m
  BY DEF Typed, Owners, PoseSession
<1> QED BY <1>1 DEF PendingIsTheTransform, Fits

LEMMA PushKeepsPose ==
  ASSUME PoseInv, PoseSession, NEW o \in Owners, NEW kind \in Kinds,
         NEW target \in Models \cup Accessories \cup {PROJECT}, PushTo(o, kind, target),
         o = PROJECT => kind \in {"keyframe", "accessory"},
         o # PROJECT => kind \in {"transform", "keyframe"}
  PROVE  PendingIsTheTransform' /\ Posed'
<1> DEFINE c == [kind |-> kind, frame |-> IF kind \in SeekingKinds THEN frame ELSE 0,
                   target |-> target]
<1>1. /\ c \in Held(o) /\ c.kind = kind
      /\ stack' = [stack EXCEPT ![o] = Pushed(stack[o], c)]
      /\ OnRedo(c, stack[o].current)
      /\ stack[o] \in StackOf(Held(o))
  BY FrameAssumption DEF PoseInv, Typed, Posed, Held, Command, PushTo, Frames
<1> HIDE DEF c
<1>2. Posed'
  BY <1>1, PushKeepsStack, PosedByOne DEF PoseInv
<1>3. CASE o = PROJECT
  <2>1. pending' = pending \/ pending' = NULL
    BY <1>1, <1>3 DEF OnRedo
  <2> QED BY <1>1, <1>2, <1>3, <2>1, NoteOfProject DEF PoseInv
<1>4. CASE o # PROJECT
  <2>1. o \in Models
    BY <1>4 DEF Owners
  <2>2. CASE kind = "transform"
    <3>1. pending' = [frame |-> c.frame, offset |-> stack[o].current]
      BY <1>1, <2>2 DEF OnRedo
    <3>2. Fits(Pushed(stack[o], c), pending')
      BY <1>1, <2>2, <3>1, NoteOfPush
    <3> QED BY <1>1, <1>2, <2>1, <3>2, NoteOfModel DEF PoseInv
  <2>3. CASE kind = "keyframe"
    <3>1. pending' = NULL
      BY <1>1, <2>3 DEF OnRedo
    <3> QED BY <1>1, <1>2, <2>1, <3>1, NoteOfModel DEF PoseInv
  <2> QED BY <1>4, <2>2, <2>3
<1> QED BY <1>3, <1>4

LEMMA UndoKeepsPose ==
  ASSUME PoseInv, PoseSession, HandleUndoAction
  PROVE  PendingIsTheTransform' /\ Posed'
<1>1. CASE active # NULL /\ editing
  <2>1. /\ editingStack[active] \in StackOf(EditCommand)
        /\ activeUndoStack = editingStack[active] /\ CanUndo(editingStack[active])
    BY <1>1, ActiveOwner DEF activeUndoStack, HandleUndoAction, PoseInv
  <2>2. Below(editingStack[active]).kind = "edit"
    BY <2>1, UndoKeepsStack DEF EditCommand
  <2>3. UNCHANGED <<stack, pending>>
    BY <1>1, <2>1, <2>2 DEF HandleUndoAction, ReplaceActiveUndoStack, OnUndo
  <2> QED BY <2>3 DEF PoseInv, Posed, PendingIsTheTransform
<1>2. CASE ~(active # NULL /\ editing)
  <2> DEFINE o == IF active = NULL THEN PROJECT ELSE active
  <2>1. /\ o \in Owners /\ stack[o] \in StackOf(Held(o))
        /\ activeUndoStack = stack[o] /\ CanUndo(stack[o])
    BY <1>2, ActiveOwner DEF activeUndoStack, HandleUndoAction, PoseInv, Posed
  <2>2. Undone(stack[o]) \in StackOf(Held(o)) /\ Below(stack[o]) \in Held(o)
    BY <2>1, UndoKeepsStack
  <2>3. stack' = [stack EXCEPT ![o] = Undone(stack[o])] /\ OnUndo(Below(stack[o]))
    BY <1>2, <2>1 DEF HandleUndoAction, ReplaceActiveUndoStack
  <2>4. o # PROJECT => o \in Models
    BY DEF PoseInv, Typed
  <2> HIDE DEF o
  <2>5. Posed'
    BY <2>1, <2>2, <2>3, PosedByOne DEF PoseInv
  <2>6. CASE o = PROJECT
    <3>1. pending' = pending \/ pending' = NULL
      BY <2>3 DEF OnUndo
    <3> QED BY <2>3, <2>5, <2>6, <3>1, NoteOfProject DEF PoseInv
  <2>7. CASE o # PROJECT
    <3>1. pending' = NULL
      BY <2>2, <2>3, <2>7 DEF OnUndo, Held
    <3> QED BY <2>3, <2>4, <2>5, <2>7, <3>1, NoteOfModel DEF PoseInv
  <2> QED BY <2>6, <2>7
<1> QED BY <1>1, <1>2

LEMMA RedoKeepsPose ==
  ASSUME PoseInv, PoseSession, HandleRedoAction
  PROVE  PendingIsTheTransform' /\ Posed'
<1>1. CASE active # NULL /\ editing
  <2>1. /\ editingStack[active] \in StackOf(EditCommand)
        /\ activeUndoStack = editingStack[active] /\ CanRedo(editingStack[active])
    BY <1>1, ActiveOwner DEF activeUndoStack, HandleRedoAction, PoseInv
  <2>2. Above(editingStack[active]).kind = "edit"
    BY <2>1, RedoKeepsStack DEF EditCommand
  <2>3. UNCHANGED <<stack, pending>>
    BY <1>1, <2>1, <2>2 DEF HandleRedoAction, ReplaceActiveUndoStack, OnRedo
  <2> QED BY <2>3 DEF PoseInv, Posed, PendingIsTheTransform
<1>2. CASE ~(active # NULL /\ editing)
  <2> DEFINE o == IF active = NULL THEN PROJECT ELSE active
             c == Above(stack[o])
  <2>1. /\ o \in Owners /\ stack[o] \in StackOf(Held(o))
        /\ activeUndoStack = stack[o] /\ CanRedo(stack[o])
    BY <1>2, ActiveOwner DEF activeUndoStack, HandleRedoAction, PoseInv, Posed
  <2>2. Redone(stack[o]) \in StackOf(Held(o)) /\ c \in Held(o)
    BY <2>1, RedoKeepsStack
  <2>3. /\ stack' = [stack EXCEPT ![o] = Redone(stack[o])]
        /\ OnRedo(c, stack[o].current + 1)
    BY <1>2, <2>1 DEF HandleRedoAction, ReplaceActiveUndoStack
  <2>4. o # PROJECT => o \in Models
    BY DEF PoseInv, Typed
  <2> HIDE DEF o, c
  <2>5. Posed'
    BY <2>1, <2>2, <2>3, PosedByOne DEF PoseInv
  <2>6. CASE o = PROJECT
    <3>1. pending' = pending \/ pending' = NULL
      BY <2>2, <2>3, <2>6 DEF OnRedo, Held
    <3> QED BY <2>3, <2>5, <2>6, <3>1, NoteOfProject DEF PoseInv
  <2>7. CASE o # PROJECT
    <3>1. CASE c.kind = "transform"
      <4>1. pending' = [frame |-> c.frame, offset |-> stack[o].current + 1]
        BY <2>3, <3>1 DEF OnRedo
      <4>2. Fits(Redone(stack[o]), pending')
        BY <2>1, <4>1, NoteOfRedo
      <4> QED BY <2>3, <2>4, <2>5, <2>7, <4>2, NoteOfModel DEF PoseInv
    <3>2. CASE c.kind = "keyframe"
      <4>1. pending' = NULL
        BY <2>3, <3>2 DEF OnRedo
      <4> QED BY <2>3, <2>4, <2>5, <2>7, <4>1, NoteOfModel DEF PoseInv
    <3> QED BY <2>2, <2>7, <3>1, <3>2 DEF Held
  <2> QED BY <2>6, <2>7
<1> QED BY <1>1, <1>2

LEMMA EditKeepsPose ==
  ASSUME PoseInv, PoseSession, Edit
  PROVE  PendingIsTheTransform' /\ Posed'
<1> DEFINE Goal == PendingIsTheTransform' /\ Posed'
<1>u. ASSUME UNCHANGED <<stack, pending>> PROVE Goal
  BY <1>u DEF PoseInv, Posed, PendingIsTheTransform
<1>e. ASSUME active \in Models, stack' = [stack EXCEPT ![active] = EmptyStack],
             pending' = NULL \/ pending' = pending
      PROVE  Goal
  <2>1. pending' = NULL \/ Fits(EmptyStack, pending')
    BY <1>e, NoteOfEmpty DEF PoseInv, Typed
  <2>2. active \in Owners /\ EmptyStack \in StackOf(Held(active))
    BY <1>e, EmptyIsStack DEF Owners
  <2> QED BY <1>e, <2>1, <2>2, NoteOfModel, PosedByOne DEF PoseInv
<1>1. ASSUME NEW kind \in ModelKinds, PushModelCommand(kind) PROVE Goal
  <2>1. /\ kind \in Kinds /\ active \in Models /\ active # PROJECT
        /\ PushTo(active, kind, active)
    BY <1>1, OwnerAssumption DEF PushModelCommand, PushTo, PoseInv, Typed
  <2>2. kind \in {"transform", "keyframe"}
    BY <1>1, <2>1 DEF ModelKinds, PoseSession
  <2> QED BY <2>1, <2>2, PushKeepsPose DEF Owners
<1>2. ASSUME NEW kind \in ProjectKinds, PushProjectCommand(kind) PROVE Goal
  <2>1. kind \in Kinds /\ PushTo(PROJECT, kind, PROJECT)
    BY <1>2 DEF PushProjectCommand, PushTo
  <2>2. kind = "keyframe"
    BY <1>2, <2>1 DEF PushProjectCommand, PoseSession
  <2> QED BY <2>1, <2>2, PushKeepsPose DEF Owners
<1>3. ASSUME NEW a \in Accessories, PushAccessoryCommand(a) PROVE Goal
  <2>1. "accessory" \in Kinds /\ PushTo(PROJECT, "accessory", a)
    BY <1>3 DEF PushAccessoryCommand, PushTo
  <2> QED BY <2>1, PushKeepsPose DEF Owners
<1>4. ASSUME PushEditingCommand PROVE Goal
  BY <1>4, <1>u DEF PushEditingCommand
<1>5. ASSUME HandleUndoAction PROVE Goal
  BY <1>5, UndoKeepsPose
<1>6. ASSUME HandleRedoAction PROVE Goal
  BY <1>6, RedoKeepsPose
<1>7. ASSUME ImportModelMotion PROVE Goal
  BY <1>7, <1>e DEF ImportModelMotion, PoseInv, Typed
<1>8. ASSUME DeleteModel PROVE Goal
  BY <1>8, <1>e DEF DeleteModel, PoseInv, Typed
<1>9. ASSUME NEW a \in Accessories, DeleteAccessory(a) PROVE Goal
  BY <1>9, <1>u DEF DeleteAccessory
<1>10. ASSUME OpenEditingWindow PROVE Goal
  BY <1>10, <1>u DEF OpenEditingWindow
<1> QED BY <1>1, <1>2, <1>3, <1>4, <1>5, <1>6, <1>7, <1>8, <1>9, <1>10 DEF Edit

LEMMA NextKeepsPose ==
  ASSUME PoseInv, PoseSession, [Next]_vars
  PROVE  PoseInv'
<1>1. CASE Next /\ Edit
  BY <1>1, EditIsTyped, EditKeepsPose DEF PoseInv
<1>2. CASE Next /\ FrameMove
  <2>1. /\ PendingIsTheTransform' /\ Typed'
        /\ \A o \in Owners : stack'[o] = stack[o] \/ TakenBack(stack[o], stack'[o])
    BY <1>2, FrameMoveIsTyped, FrameMoveTakesBack DEF PoseInv
  <2>2. \A o \in Owners : stack'[o].commands = stack[o].commands
    BY <2>1 DEF TakenBack
  <2> QED BY <2>1, <2>2, PosedByCommands DEF PoseInv
<1>3. CASE (Next /\ DeviceChanges) \/ UNCHANGED vars
  <2>1. Typed'
    BY <1>3, DeviceChangesIsTyped DEF PoseInv, vars, Typed
  <2>2. PendingIsTheTransform' /\ Posed'
    BY <1>3 DEF PoseInv, DeviceChanges, vars, Posed, PendingIsTheTransform
  <2> QED BY <2>1, <2>2 DEF PoseInv
<1> QED BY <1>1, <1>2, <1>3 DEF Next

LEMMA PoseInvHolds == ASSUME PoseSession PROVE Spec => []PoseInv
<1>1. Init => PoseInv
  <2> SUFFICES ASSUME Init PROVE PoseInv
    OBVIOUS
  <2>1. PendingIsTheTransform
    BY DEF Init, PendingIsTheTransform
  <2>2. Posed
    BY EmptyIsStack DEF Init, Posed
  <2> QED BY <2>1, <2>2, InitIsTyped DEF PoseInv
<1>2. PoseInv /\ [Next]_vars => PoseInv'
  BY NextKeepsPose
<1> QED BY <1>1, <1>2, PTL DEF Spec

(* In a session of poses the note is right whenever there is one: moving    *)
(* the stack of the model to the noted offset moves nothing or takes back   *)
(* the transform that was noted, made at the noted frame.                   *)
THEOREM NoteIsTheTransform == ASSUME PoseSession PROVE Spec => []PendingIsTheTransform
BY PoseInvHolds, PTL DEF PoseInv

(* In a session of poses no way to another frame or another model undoes    *)
(* more than the transform made last, redoes anything or touches the        *)
(* history of the project, for a stack of any limit and any frames.         *)
THEOREM FrameMoveTakesBackOne ==
  ASSUME PoseSession PROVE Spec => FrameMoveTakesBackOneTransform
<1>1. ASSUME PoseInv, [Next]_vars
      PROVE  [FrameMove => \A o \in Owners :
                stack'[o] = stack[o] \/ TakenBack(stack[o], stack'[o])]_vars
  BY <1>1, FrameMoveTakesBack DEF PoseInv
<1> QED BY <1>1, PoseInvHolds, PTL DEF Spec, FrameMoveTakesBackOneTransform

(* Model editing keeps to its own history, for any number of models and all *)
(* kinds of commands, as long as the model being edited is not deleted.     *)
THEOREM EditingKeepsApart == ASSUME ~DeleteWhileEditing PROVE Spec => EditingIsIsolated
<1> DEFINE Apart == editing /\ editing' /\ ~isPlaying =>
                      UNCHANGED active /\ \A m \in Models : stack'[m] = stack[m]
<1>1. ASSUME Typed, [Next]_vars PROVE [Apart]_vars
  <2> SUFFICES ASSUME editing, editing', ~isPlaying, Next
               PROVE  UNCHANGED active /\ \A m \in Models : stack'[m] = stack[m]
    BY <1>1
  <2>t. stack \in [Owners -> StackOf(SessionCommand)] /\ PROJECT \notin Models
    BY <1>1, OwnerAssumption DEF Typed
  <2>p. \A s : stack' = [stack EXCEPT ![PROJECT] = s] => \A m \in Models : stack'[m] = stack[m]
    BY <2>t DEF Owners
  <2>1. CASE Edit
    <3>1. ASSUME NEW o, NEW kind, NEW target, PushTo(PROJECT, kind, target)
          PROVE  UNCHANGED active /\ \A m \in Models : stack'[m] = stack[m]
      BY <3>1, <2>p DEF PushTo
    <3>2. CASE HandleUndoAction \/ HandleRedoAction
      BY <3>2, <2>p DEF HandleUndoAction, HandleRedoAction, ReplaceActiveUndoStack
    <3>3. CASE DeleteModel
      BY <1>1, <3>3 DEF DeleteModel, Typed
    <3>4. CASE \/ \E kind \in ModelKinds : PushModelCommand(kind)
               \/ PushEditingCommand \/ ImportModelMotion \/ OpenEditingWindow
               \/ \E a \in Accessories : DeleteAccessory(a)
      BY <3>4 DEF PushModelCommand, PushEditingCommand, ImportModelMotion,
                  OpenEditingWindow, DeleteAccessory
    <3>5. CASE \/ \E kind \in ProjectKinds : PushProjectCommand(kind)
               \/ \E a \in Accessories : PushAccessoryCommand(a)
      BY <3>1, <3>5 DEF PushProjectCommand, PushAccessoryCommand
    <3> QED BY <2>1, <3>2, <3>3, <3>4, <3>5 DEF Edit
  <2>2. CASE FrameMove
    <3>1. CASE Stop
      BY <3>1 DEF Stop, PrepareStopping, StaysEditing
    <3>2. CASE \/ \E to \in Frames : Seek(to)
               \/ \E value \in Models \cup {NULL} : SetActiveModel(value)
               \/ CloseEditingWindow \/ Play
      BY <3>2 DEF Seek, canSeek, SetActiveModel, Activate, CloseEditingWindow, Play, PreparePlaying
    <3>3. CASE Pause \/ Update
      BY <3>3 DEF Pause, PausePlaying, Update, AdvancePlaying, FinishPlaying, RestartPlaying
    <3>4. CASE Deactivate \/ Reactivate
      BY <3>4 DEF Deactivate, PausePlaying, Reactivate
    <3> QED BY <2>2, <3>1, <3>2, <3>3, <3>4 DEF FrameMove
  <2>3. CASE DeviceChanges
    BY <2>3 DEF DeviceChanges
  <2> QED BY <2>1, <2>2, <2>3 DEF Next
<1> QED BY <1>1, TypedHolds, PTL DEF Spec, EditingIsIsolated

-----------------------------------------------------------------------------
(* What is known while another application is in front, unless a replaced   *)
(* device starts playback over: nothing plays, the player tells whether     *)
(* there is a playback to go on with, and the model that playback will      *)
(* select at its end is the active one.                                    *)
Away ==
  ~isActive /\ left # Replaced =>
    /\ ~isPlaying
    /\ left # NoState <=> wasPlaying /\ playback # "suspended"
    /\ left # NoState => active = left /\ ~editing

(* Pausing selects the model that playback was to select; a device that was *)
(* lost pauses the player no second time.                                  *)
LEMMA PausingRestores ==
  ASSUME Typed, PausePlaying, ~StaysEditing, request # "restart"
  PROVE  active' = Restored /\ ~editing' /\ playback' = "paused" /\ wasPlaying'
<1>1. ~editing'
  BY DEF PausePlaying, PrepareStopping
<1>2. playback' = "paused" /\ wasPlaying'
  BY DEF PausePlaying, UpdatePlayer
<1>3. active' = Restored
  <2>1. CASE saved = NoState
    BY <2>1 DEF PausePlaying, PrepareStopping, Restored
  <2>2. CASE saved # NoState
    BY <2>2 DEF PausePlaying, PrepareStopping, Activate, Restored
  <2> QED BY <2>1, <2>2
<1> QED BY <1>1, <1>2, <1>3

(* Only these steps bring an application to the front or away from it.      *)
LEMMA FrontStays ==
  ASSUME Next
  PROVE  UNCHANGED <<isActive, left>> \/ Deactivate \/ Reactivate
<1>1. CASE Update \/ DeviceChanges
  BY <1>1 DEF Update, AdvancePlaying, FinishPlaying, RestartPlaying, Stop, DeviceChanges, front
<1>2. CASE \/ \E to \in Frames : Seek(to)
           \/ \E value \in Models \cup {NULL} : SetActiveModel(value)
           \/ CloseEditingWindow \/ Play \/ Pause \/ Stop
  BY <1>2 DEF Seek, SetActiveModel, CloseEditingWindow, Play, Pause, Stop, player, front
<1>3. CASE \/ \E kind \in ModelKinds : PushModelCommand(kind)
           \/ \E kind \in ProjectKinds : PushProjectCommand(kind)
           \/ \E accessory \in Accessories : PushAccessoryCommand(accessory)
  BY <1>3 DEF PushModelCommand, PushProjectCommand, PushAccessoryCommand, PushTo, front
<1>4. CASE \/ PushEditingCommand \/ HandleUndoAction \/ HandleRedoAction
           \/ ImportModelMotion \/ DeleteModel \/ OpenEditingWindow
           \/ \E accessory \in Accessories : DeleteAccessory(accessory)
  BY <1>4 DEF PushEditingCommand, HandleUndoAction, HandleRedoAction, ImportModelMotion,
              DeleteModel, OpenEditingWindow, DeleteAccessory, player, front
<1> QED BY <1>1, <1>2, <1>3, <1>4 DEF Next, FrameMove, Edit

LEMMA AwayKept == ASSUME Typed, Away, [Next]_vars PROVE Away'
<1>1. CASE Deactivate
  <2>1. left' = Leaving
    BY <1>1 DEF Deactivate
  <2>2. CASE isPlaying /\ (request = "restart" \/ StaysEditing)
    BY <2>1, <2>2 DEF Leaving, Away
  <2>3. CASE isPlaying /\ ~(request = "restart" \/ StaysEditing)
    <3>1. PausePlaying /\ left' = Restored /\ Restored # NoState
      BY <1>1, <2>1, <2>3, RestoredIsModel DEF Deactivate, Leaving
    <3>2. active' = Restored /\ ~editing' /\ playback' = "paused" /\ wasPlaying'
      BY <2>3, <3>1, PausingRestores
    <3> QED BY <3>1, <3>2 DEF Away, isPlaying, NoState
  <2>4. CASE ~isPlaying
    <3>1. left' = NoState /\ playback' = "suspended"
      BY <1>1, <2>1, <2>4 DEF Deactivate, Leaving, PausePlaying, setState
    <3> QED BY <3>1 DEF Away, isPlaying, NoState
  <2> QED BY <2>2, <2>3, <2>4
<1>2. CASE isActive'
  BY <1>2 DEF Away
<1>3. CASE ~isActive' /\ ~Deactivate /\ Next
  <2>o. ~Reactivate
    BY <1>3 DEF Reactivate
  <2>1. ~isActive /\ left' = left
    BY <1>3, <2>o, FrontStays
  <2>2. Update \/ DeviceChanges
    BY <1>3, <2>o, <2>1 DEF Next, FrameMove
  <2>3. CASE left = Replaced
    BY <2>1, <2>3 DEF Away, Replaced
  <2>4. CASE left # Replaced
    <3>1. ~isPlaying
      BY <2>1, <2>4 DEF Away
    <3>2. DeviceChanges
      BY <2>2, <3>1 DEF Update, AdvancePlaying, FinishPlaying, RestartPlaying
    <3> QED BY <2>1, <3>1, <3>2 DEF DeviceChanges, Away, isPlaying, NoState, Replaced
  <2> QED BY <2>3, <2>4
<1>4. CASE UNCHANGED vars
  BY <1>4 DEF vars, Away, isPlaying, NoState, Replaced
<1> QED BY <1>1, <1>2, <1>3, <1>4

(* Another application in front for a while changes nothing, whatever the   *)
(* models, and whatever was done or lost before: what played goes on, also  *)
(* when its device was lost, what did not play does not start, and the end  *)
(* of playback will select the model it would have selected.  Playbacks     *)
(* that a replaced device starts over are not meant (Leaving).              *)
THEOREM LeavingKeeps == Spec => LeavingKeepsPlayback
<1>1. Init => Away
  BY DEF Init, Away
<1>2. Typed /\ Away /\ [Next]_vars => Away'
  BY AwayKept
<1>3. ASSUME Away, [Next]_vars
      PROVE  [~isActive /\ isActive' /\ left # Replaced =>
                IF left = NoState THEN ~isPlaying' /\ saved' = saved
                                  ELSE isPlaying' /\ saved' = left]_vars
  <2> SUFFICES ASSUME ~isActive, isActive', left # Replaced, Next
               PROVE  IF left = NoState THEN ~isPlaying' /\ saved' = saved
                                        ELSE isPlaying' /\ saved' = left
    BY <1>3
  <2>1. /\ ~isPlaying
        /\ left # NoState <=> wasPlaying /\ playback # "suspended"
        /\ left # NoState => active = left /\ ~editing
    BY <1>3 DEF Away
  <2>2. Reactivate
    BY FrontStays DEF Deactivate
  <2>3. CASE left = NoState
    BY <2>1, <2>2, <2>3 DEF Reactivate, isPlaying, sound
  <2>4. CASE left # NoState
    BY <2>1, <2>2, <2>4 DEF Reactivate, PreparePlaying, setState, isPlaying
  <2> QED BY <2>3, <2>4
<1> QED BY <1>1, <1>2, <1>3, TypedHolds, PTL DEF Spec, LeavingKeepsPlayback

-----------------------------------------------------------------------------
(* What a step does to the stacks: each is left as it is or makes one step   *)
(* of a history.                                                           *)
StacksEvolve == \A o \in Owners : Evolves(SessionCommand, stack[o], stack'[o])
EditingStacksEvolve == \A m \in Models : Evolves(EditCommand, editingStack[m], editingStack'[m])

LEMMA StacksStay ==
  /\ stack' = stack => StacksEvolve
  /\ editingStack' = editingStack => EditingStacksEvolve
BY DEF StacksEvolve, EditingStacksEvolve, Evolves

LEMMA OneStackEvolves ==
  ASSUME Typed, NEW o \in Owners, NEW s, Evolves(SessionCommand, stack[o], s),
         stack' = [stack EXCEPT ![o] = s]
  PROVE  StacksEvolve
<1>1. stack \in [Owners -> StackOf(SessionCommand)]
  BY DEF Typed
<1>2. stack'[o] = s /\ \A p \in Owners : p # o => stack'[p] = stack[p]
  BY <1>1
<1>3. \A p \in Owners : p # o => Evolves(SessionCommand, stack[p], stack'[p])
  BY <1>2 DEF Evolves
<1> QED BY <1>2, <1>3 DEF StacksEvolve

LEMMA OneEditingStackEvolves ==
  ASSUME Typed, NEW m \in Models, NEW s, Evolves(EditCommand, editingStack[m], s),
         editingStack' = [editingStack EXCEPT ![m] = s]
  PROVE  EditingStacksEvolve
<1>1. editingStack \in [Models -> StackOf(EditCommand)]
  BY DEF Typed
<1>2. editingStack'[m] = s /\ \A p \in Models : p # m => editingStack'[p] = editingStack[p]
  BY <1>1
<1>3. \A p \in Models : p # m => Evolves(EditCommand, editingStack[p], editingStack'[p])
  BY <1>2 DEF Evolves
<1> QED BY <1>2, <1>3 DEF EditingStacksEvolve

LEMMA EmptiedEvolves ==
  ASSUME NEW S, NEW s
  PROVE  Evolves(S, s, EmptyStack)
BY DEF Evolves

LEMMA RewindEvolves ==
  ASSUME Typed, NEW to, NEW model \in Models \cup {NULL}, Rewind(to, model)
  PROVE  StacksEvolve
<1>1. CASE Rewinds(to) /\ model # NULL
  <2>1. model \in Owners /\ stack[model] \in StackOf(SessionCommand)
    BY <1>1, ActiveOwner DEF Owners
  <2>2. pending.offset \in Nat
    BY <1>1, LimitAssumption DEF Rewinds, Typed, Notes
  <2>3. Evolves(SessionCommand, stack[model], Moved(stack[model], pending.offset))
    BY <2>1, <2>2, JumpEvolves
  <2>4. stack' = [stack EXCEPT ![model] = Moved(stack[model], pending.offset)]
    BY <1>1 DEF Rewind
  <2> QED BY <2>1, <2>3, <2>4, OneStackEvolves
<1>2. CASE ~(Rewinds(to) /\ model # NULL)
  BY <1>2, StacksStay DEF Rewind
<1> QED BY <1>1, <1>2

LEMMA ActivateEvolves ==
  ASSUME Typed, NEW value \in Models \cup {NULL}, Activate(value)
  PROVE  StacksEvolve
BY RewindEvolves, StacksStay DEF Activate

LEMMA PushToEvolves ==
  ASSUME Typed, NEW o \in Owners, NEW kind \in Kinds \ {"edit"},
         NEW target \in Models \cup Accessories \cup {PROJECT}, PushTo(o, kind, target)
  PROVE  StacksEvolve /\ EditingStacksEvolve
<1> DEFINE c == [kind |-> kind, frame |-> IF kind \in SeekingKinds THEN frame ELSE 0,
                   target |-> target]
<1>1. c \in SessionCommand
  BY FrameAssumption DEF Typed, SessionCommand, Command, Frames
<1>2. stack' = [stack EXCEPT ![o] = Pushed(stack[o], c)] /\ editingStack' = editingStack
  BY DEF PushTo
<1> HIDE DEF c
<1>3. Evolves(SessionCommand, stack[o], Pushed(stack[o], c))
  BY <1>1 DEF Evolves
<1> QED BY <1>2, <1>3, OneStackEvolves, StacksStay

LEMMA ReplacedEvolves ==
  ASSUME Typed, NEW s, ReplaceActiveUndoStack(s),
         \A S : activeUndoStack \in StackOf(S) => Evolves(S, activeUndoStack, s)
  PROVE  StacksEvolve /\ EditingStacksEvolve
<1>1. CASE active # NULL /\ editing
  <2>1. active \in Models /\ editingStack[active] \in StackOf(EditCommand)
    BY <1>1, ActiveOwner
  <2>2. /\ activeUndoStack = editingStack[active] /\ stack' = stack
        /\ editingStack' = [editingStack EXCEPT ![active] = s]
    BY <1>1 DEF activeUndoStack, ReplaceActiveUndoStack
  <2>3. Evolves(EditCommand, editingStack[active], s)
    BY <2>1, <2>2
  <2> QED BY <2>1, <2>2, <2>3, OneEditingStackEvolves, StacksStay
<1>2. CASE ~(active # NULL /\ editing)
  <2> DEFINE o == IF active = NULL THEN PROJECT ELSE active
  <2>1. /\ o \in Owners /\ stack[o] \in StackOf(SessionCommand)
        /\ activeUndoStack = stack[o] /\ editingStack' = editingStack
        /\ stack' = [stack EXCEPT ![o] = s]
    BY <1>2, ActiveOwner DEF activeUndoStack, ReplaceActiveUndoStack
  <2> HIDE DEF o
  <2>2. Evolves(SessionCommand, stack[o], s)
    BY <2>1
  <2> QED BY <2>1, <2>2, OneStackEvolves, StacksStay
<1> QED BY <1>1, <1>2

LEMMA EditEvolves == ASSUME Typed, Edit PROVE StacksEvolve /\ EditingStacksEvolve
<1> DEFINE Goal == StacksEvolve /\ EditingStacksEvolve
<1>1. ASSUME NEW kind \in ModelKinds, PushModelCommand(kind) PROVE Goal
  <2>1. kind \in Kinds \ {"edit"} /\ active \in Models /\ PushTo(active, kind, active)
    BY <1>1 DEF PushModelCommand, PushTo, ModelKinds, Typed
  <2> QED BY <2>1, PushToEvolves DEF Owners
<1>2. ASSUME NEW kind \in ProjectKinds, PushProjectCommand(kind) PROVE Goal
  <2>1. kind \in Kinds \ {"edit"} /\ PushTo(PROJECT, kind, PROJECT)
    BY <1>2 DEF PushProjectCommand, PushTo
  <2> QED BY <2>1, PushToEvolves DEF Owners
<1>3. ASSUME NEW a \in Accessories, PushAccessoryCommand(a) PROVE Goal
  <2>1. "accessory" \in Kinds \ {"edit"} /\ PushTo(PROJECT, "accessory", a)
    BY <1>3 DEF PushAccessoryCommand, PushTo
  <2> QED BY <2>1, PushToEvolves DEF Owners
<1>4. ASSUME PushEditingCommand PROVE Goal
  <2> DEFINE c == [kind |-> "edit", frame |-> 0, target |-> active]
  <2>1. c \in EditCommand /\ active \in Models
    BY <1>4, FrameAssumption DEF PushEditingCommand, Typed, EditCommand, Command, Frames
  <2>2. /\ editingStack' = [editingStack EXCEPT ![active] = Pushed(editingStack[active], c)]
        /\ stack' = stack
    BY <1>4 DEF PushEditingCommand
  <2> HIDE DEF c
  <2>3. Evolves(EditCommand, editingStack[active], Pushed(editingStack[active], c))
    BY <2>1 DEF Evolves
  <2> QED BY <2>1, <2>2, <2>3, OneEditingStackEvolves, StacksStay
<1>5. ASSUME HandleUndoAction PROVE Goal
  <2>1. CanUndo(activeUndoStack) /\ ReplaceActiveUndoStack(Undone(activeUndoStack))
    BY <1>5 DEF HandleUndoAction
  <2>2. \A S : activeUndoStack \in StackOf(S) => Evolves(S, activeUndoStack, Undone(activeUndoStack))
    BY <2>1, UndoEvolves
  <2> QED BY <2>1, <2>2, ReplacedEvolves
<1>6. ASSUME HandleRedoAction PROVE Goal
  <2>1. CanRedo(activeUndoStack) /\ ReplaceActiveUndoStack(Redone(activeUndoStack))
    BY <1>6 DEF HandleRedoAction
  <2>2. \A S : activeUndoStack \in StackOf(S) => Evolves(S, activeUndoStack, Redone(activeUndoStack))
    BY <2>1, RedoEvolves
  <2> QED BY <2>1, <2>2, ReplacedEvolves
<1>7. ASSUME ImportModelMotion \/ DeleteModel PROVE Goal
  <2>1. active \in Owners
    BY <1>7, ActiveOwner DEF ImportModelMotion, DeleteModel
  <2>2. stack' = [stack EXCEPT ![active] = EmptyStack] /\ editingStack' = editingStack
    BY <1>7 DEF ImportModelMotion, DeleteModel
  <2> QED BY <2>1, <2>2, EmptiedEvolves, OneStackEvolves, StacksStay
<1>8. ASSUME NEW a \in Accessories, DeleteAccessory(a) PROVE Goal
  BY <1>8, StacksStay DEF DeleteAccessory
<1>9. ASSUME OpenEditingWindow PROVE Goal
  <2>1. active \in Models
    BY <1>9, ActiveOwner DEF OpenEditingWindow
  <2>2. editingStack' = [editingStack EXCEPT ![active] = EmptyStack] /\ stack' = stack
    BY <1>9 DEF OpenEditingWindow
  <2> QED BY <2>1, <2>2, EmptiedEvolves, OneEditingStackEvolves, StacksStay
<1> QED BY <1>1, <1>2, <1>3, <1>4, <1>5, <1>6, <1>7, <1>8, <1>9 DEF Edit

LEMMA PrepareStoppingEvolves == ASSUME Typed, PrepareStopping PROVE StacksEvolve
<1>1. CASE saved = NoState
  BY <1>1, StacksStay DEF PrepareStopping
<1>2. CASE saved # NoState
  BY <1>2, ActivateEvolves DEF PrepareStopping, Typed
<1> QED BY <1>1, <1>2

LEMMA UpdateEvolves == ASSUME Typed, Update PROVE StacksEvolve
<1>1. CASE AdvancePlaying
  BY <1>1, RewindEvolves DEF AdvancePlaying, internalSeek, Typed
<1>2. CASE FinishPlaying
  BY <1>2, PrepareStoppingEvolves DEF FinishPlaying, Stop
<1>3. CASE RestartPlaying
  <2>1. Restored \in Models \cup {NULL}
    BY RestoredIsModel
  <2>2. Rewind(frame, Restored) \/ Rewind(0, Restored)
    BY <1>3 DEF RestartPlaying
  <2> QED BY <2>1, <2>2, RewindEvolves
<1> QED BY <1>1, <1>2, <1>3 DEF Update

LEMMA FrameMoveEvolves == ASSUME Typed, FrameMove PROVE StacksEvolve /\ EditingStacksEvolve
<1> DEFINE Goal == StacksEvolve /\ EditingStacksEvolve
<1>1. ASSUME NEW to \in Frames, Seek(to) PROVE Goal
  BY <1>1, RewindEvolves, StacksStay DEF Seek, internalSeek, Typed
<1>2. ASSUME NEW value \in Models \cup {NULL}, SetActiveModel(value) PROVE Goal
  BY <1>2, ActivateEvolves, StacksStay DEF SetActiveModel
<1>3. ASSUME CloseEditingWindow PROVE Goal
  <2> DEFINE value == IF editing THEN active ELSE editingState.active
  <2>1. value \in Models \cup {NULL} /\ editingState.active \in Models
    BY <1>3 DEF CloseEditingWindow, Typed
  <2>2. /\ Rewind(frame, value) \/ Rewind(editingState.frame, value)
        /\ active' = value
        /\ editingStack' = [editingStack EXCEPT ![value] = EmptyStack]
    BY <1>3 DEF CloseEditingWindow, ActivateAndSeek
  <2> HIDE DEF value
  <2>3. StacksEvolve
    BY <2>1, <2>2, RewindEvolves
  <2>4. CASE value \in Models
    BY <2>2, <2>3, <2>4, EmptiedEvolves, OneEditingStackEvolves
  <2>5. CASE value \notin Models
    <3>1. editingStack' = editingStack
      BY <2>2, <2>5 DEF Typed
    <3> QED BY <2>3, <3>1, StacksStay
  <2> QED BY <2>4, <2>5
<1>4. ASSUME Play PROVE Goal
  BY <1>4, ActivateEvolves, StacksStay DEF Play, PreparePlaying
<1>5. ASSUME Pause \/ Stop PROVE Goal
  <2>1. PrepareStopping /\ editingStack' = editingStack
    BY <1>5 DEF Pause, PausePlaying, Stop, PrepareStopping
  <2> QED BY <2>1, PrepareStoppingEvolves, StacksStay
<1>6. ASSUME Update PROVE Goal
  <2>1. editingStack' = editingStack
    BY <1>6 DEF Update, AdvancePlaying, FinishPlaying, Stop, PrepareStopping, RestartPlaying
  <2> QED BY <1>6, <2>1, UpdateEvolves, StacksStay
<1>7. ASSUME Deactivate PROVE Goal
  <2>1. CASE PausePlaying
    BY <2>1, PrepareStoppingEvolves, StacksStay DEF PausePlaying, PrepareStopping
  <2>2. CASE ~PausePlaying
    BY <1>7, <2>2, StacksStay DEF Deactivate
  <2> QED BY <2>1, <2>2
<1>8. ASSUME Reactivate PROVE Goal
  <2>1. CASE PreparePlaying
    BY <2>1, ActivateEvolves, StacksStay DEF PreparePlaying
  <2>2. CASE ~PreparePlaying
    BY <1>8, <2>2, StacksStay DEF Reactivate
  <2> QED BY <2>1, <2>2
<1> QED BY <1>1, <1>2, <1>3, <1>4, <1>5, <1>6, <1>7, <1>8 DEF FrameMove

LEMMA HistoryStepIsNext ==
  ASSUME NEW o \in Owners, HistoryStep(SessionCommand, stack[o], stack'[o])
  PROVE  History(o)!Next
<1> DEFINE p == Done(stack[o])
           f == Taken(stack[o])
<1>l. Limit' = Limit /\ Limit \in Nat \ {0} /\ Limit' \in Nat \ {0}
  BY LimitAssumption
<1>1. ASSUME NEW n \in 1 .. Len(p),
             Done(stack'[o]) = SubSeq(p, 1, Len(p) - n),
             Taken(stack'[o]) = SubSeq(p, Len(p) - n + 1, Len(p)) \o f
      PROVE  History(o)!Next
  BY <1>1, <1>l DEF History!Next, History!Back
<1>2. ASSUME NEW n \in 1 .. Len(f),
             Done(stack'[o]) = p \o SubSeq(f, 1, n),
             Taken(stack'[o]) = SubSeq(f, n + 1, Len(f))
      PROVE  History(o)!Next
  BY <1>2, <1>l DEF History!Next, History!Forward
<1>3. ASSUME Done(stack'[o]) = <<>>, Taken(stack'[o]) = <<>>
      PROVE  History(o)!Next
  BY <1>3, <1>l DEF History!Next, History!Forget
<1>4. ASSUME NEW c \in SessionCommand,
             Done(stack'[o]) = IF Len(p) = Limit THEN Append(Tail(p), c) ELSE Append(p, c),
             Taken(stack'[o]) = <<>>
      PROVE  History(o)!Next
  BY <1>4, <1>l DEF History!Next, History!Do, SessionCommand
<1> QED BY <1>1, <1>2, <1>3, <1>4 DEF HistoryStep

LEMMA EditingHistoryStepIsNext ==
  ASSUME NEW m \in Models, HistoryStep(EditCommand, editingStack[m], editingStack'[m])
  PROVE  EditingHistory(m)!Next
<1> DEFINE p == Done(editingStack[m])
           f == Taken(editingStack[m])
<1>l. Limit' = Limit /\ Limit \in Nat \ {0} /\ Limit' \in Nat \ {0}
  BY LimitAssumption
<1>1. ASSUME NEW n \in 1 .. Len(p),
             Done(editingStack'[m]) = SubSeq(p, 1, Len(p) - n),
             Taken(editingStack'[m]) = SubSeq(p, Len(p) - n + 1, Len(p)) \o f
      PROVE  EditingHistory(m)!Next
  BY <1>1, <1>l DEF EditingHistory!Next, EditingHistory!Back
<1>2. ASSUME NEW n \in 1 .. Len(f),
             Done(editingStack'[m]) = p \o SubSeq(f, 1, n),
             Taken(editingStack'[m]) = SubSeq(f, n + 1, Len(f))
      PROVE  EditingHistory(m)!Next
  BY <1>2, <1>l DEF EditingHistory!Next, EditingHistory!Forward
<1>3. ASSUME Done(editingStack'[m]) = <<>>, Taken(editingStack'[m]) = <<>>
      PROVE  EditingHistory(m)!Next
  BY <1>3, <1>l DEF EditingHistory!Next, EditingHistory!Forget
<1>4. ASSUME NEW c \in EditCommand,
             Done(editingStack'[m]) = IF Len(p) = Limit THEN Append(Tail(p), c) ELSE Append(p, c),
             Taken(editingStack'[m]) = <<>>
      PROVE  EditingHistory(m)!Next
  BY <1>4, <1>l DEF EditingHistory!Next, EditingHistory!Do, EditCommand
<1> QED BY <1>1, <1>2, <1>3, <1>4 DEF HistoryStep

(* Every undo stack of the session, those of model editing included, keeps  *)
(* the history docs/menu.rst promises whatever is done around it: seeking,  *)
(* playback, changes of the model, deletions and model editing move the     *)
(* cursor of a stack inside its commands, empty it or leave it alone, for   *)
(* any models, frames, kinds of commands and limit.                        *)
THEOREM HistoriesAreKept == Spec => ImplementsHistories
<1> DEFINE Keeps == /\ \A o \in Owners : [History(o)!Next]_<<stack[o]>>
                    /\ \A m \in Models : [EditingHistory(m)!Next]_<<editingStack[m]>>
<1>1. Init => /\ \A o \in Owners : History(o)!Init
              /\ \A m \in Models : EditingHistory(m)!Init
  <2>1. Done(EmptyStack) = <<>> /\ Taken(EmptyStack) = <<>> /\ Limit \in Nat \ {0}
    BY EmptyIsStep, LimitAssumption
  <2> QED BY <2>1 DEF Init, History!Init, EditingHistory!Init
<1>2. Typed /\ [Next]_vars => [Keeps]_vars
  <2> SUFFICES ASSUME Typed, Next PROVE Keeps
    OBVIOUS
  <2>1. StacksEvolve /\ EditingStacksEvolve
    BY EditEvolves, FrameMoveEvolves, StacksStay DEF Next, DeviceChanges
  <2>2. ASSUME NEW o \in Owners PROVE [History(o)!Next]_<<stack[o]>>
    <3>1. stack[o] \in StackOf(SessionCommand) /\ Evolves(SessionCommand, stack[o], stack'[o])
      BY <2>1, ActiveOwner DEF StacksEvolve
    <3>2. stack'[o] = stack[o] \/ HistoryStep(SessionCommand, stack[o], stack'[o])
      BY <3>1, EvolvesIsStep
    <3> QED BY <3>2, HistoryStepIsNext
  <2>3. ASSUME NEW m \in Models PROVE [EditingHistory(m)!Next]_<<editingStack[m]>>
    <3>1. /\ editingStack[m] \in StackOf(EditCommand)
          /\ Evolves(EditCommand, editingStack[m], editingStack'[m])
      BY <2>1, ActiveOwner DEF EditingStacksEvolve
    <3>2. \/ editingStack'[m] = editingStack[m]
          \/ HistoryStep(EditCommand, editingStack[m], editingStack'[m])
      BY <3>1, EvolvesIsStep
    <3> QED BY <3>2, EditingHistoryStepIsNext
  <2> QED BY <2>2, <2>3
<1> QED BY <1>1, <1>2, TypedHolds, PTL DEF Spec, ImplementsHistories
=============================================================================
