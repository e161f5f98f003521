---------------------------- MODULE EditingSession ----------------------------
(***************************************************************************)
(* One Project as its user drives it (emapp/src/Project.cc): the undo       *)
(* stacks of the project and of its models, the active model, the frame,    *)
(* playback, the model editing mode and m_transformPerformedAt, the note    *)
(* by which a frame move takes back a transform that was not registered.   *)
(*                                                                         *)
(* A command is [kind, frame, target], frame being the one it seeks to, or  *)
(* 0 if it does not seek; what its on_undo and on_redo do to poses,          *)
(* keyframes and cameras is left out, what they do to the session (nested   *)
(* seeks, m_transformPerformedAt) is not.  confirmSeekFlags keep their      *)
(* default 0, so canSeek() is ~editing.  Playback is the state of the audio *)
(* player (emapp/src/BaseAudioPlayer.cc), which is initialized, and what    *)
(* its output device asks of it (win32/src/WASAPIAudioPlayer.cc).           *)
(***************************************************************************)
EXTENDS UndoStacks

CONSTANTS
  Models, Accessories,
  PROJECT,             (* the project's own undo stack *)
  NULL,
  MaxFrame,            (* the last frame, and the end of the playing segment *)
  Kinds,               (* the kinds of commands the user issues *)
  CameraShared,        (* isCameraShared() *)
  Loop,                (* isLoopEnabled() *)
  LosesDevice,         (* whether the output device of the sound may be lost or replaced *)
  DeleteWhileEditing   (* whether the user deletes the model being edited, or one *)
                       (* that playback is going to select again                  *)

ASSUME FrameAssumption == MaxFrame \in Nat
ASSUME OwnerAssumption ==
  PROJECT \notin Models \cup {NULL} /\ NULL \notin Models \cup Accessories
ASSUME NullAssumption == NULL \notin [active : Models, frame : 0 .. MaxFrame]

VARIABLES
  live,          (* the models and accessories of the project *)
  stack,         (* undoStack() of the project and of each model *)
  editingStack,  (* editingUndoStack() of each model *)
  active,        (* activeModel() *)
  editing,       (* isModelEditingEnabled() *)
  editingState,  (* the SaveState of the open model editing window, or NULL *)
  frame,         (* currentLocalFrameIndex() *)
  pending,       (* m_transformPerformedAt, NULL for kMaxFrameIndex *)
  playback,      (* the state of the audio player *)
  wasPlaying,    (* whether its state before that was "playing" *)
  clock,         (* m_clock of the audio player: "running" or "still" *)
  request,       (* m_requestState: what a change of the output device asks for *)
  saved,         (* m_lastSaveState: its active model, or NoState *)
  isActive,      (* isActive(): the application is in front *)
  left           (* ghost: the model to be restored by the playback that was left; *)
                 (* NoState if nothing played, or Replaced                         *)

vars == <<live, stack, editingStack, active, editing, editingState,
          frame, pending, playback, wasPlaying, clock, request, saved, isActive, left>>

sound == <<playback, wasPlaying, clock, request>>
front == <<isActive, left>>
player == <<sound, front>>

NoState == PROJECT
Replaced == "replaced"
Frames == 0 .. MaxFrame
Owners == Models \cup {PROJECT}

ModelKinds == {"transform", "keyframe", "snapshot"}
ProjectKinds == {"camera", "keyframe", "accessory"}
SeekingKinds == {"transform", "camera"}
Command == [kind : Kinds, frame : Frames,
            target : Models \cup Accessories \cup {PROJECT}]

-----------------------------------------------------------------------------
isPlaying == playback = "playing"

(* BaseAudioPlayer::setState, and the clock that goes with the state.       *)
setState(value) ==
  /\ playback' = value /\ wasPlaying' = isPlaying
  /\ clock' = IF value = "playing" THEN "running" ELSE "still"
  /\ UNCHANGED request

(* WASAPIAudioPlayer::update of a player in the state now, whose clock is   *)
(* ticks.  When the output device was lost or replaced, pause() stops it if *)
(* it plays; when it was replaced and the new one can be opened, resume()   *)
(* starts it whether it played or not.                                     *)
UpdatePlayer(now, was, ticks) ==
  /\ request' = "none"
  /\ \/ request = "none" /\ playback' = now /\ wasPlaying' = was /\ clock' = ticks
     \/ /\ request # "none"
        /\ playback' = IF now = "playing" THEN "paused" ELSE now
        /\ wasPlaying' = (was \/ now = "playing")
        /\ clock' = "still"
     \/ request = "restart" /\ playback' = "playing" /\ wasPlaying' = FALSE /\ clock' = "running"

(* The player in a seek: its clock stands still, also during playback.      *)
SeekPlayer == UpdatePlayer(playback, wasPlaying, "still")

canSeek == ~editing

Init ==
  /\ live = Models \cup Accessories
  /\ stack = [o \in Owners |-> EmptyStack]
  /\ editingStack = [m \in Models |-> EmptyStack]
  /\ active = NULL
  /\ editing = FALSE /\ editingState = NULL
  /\ frame = 0
  /\ pending = NULL
  /\ playback = "stopped" /\ wasPlaying = FALSE
  /\ clock = "still" /\ request = "none"
  /\ saved = NoState
  /\ isActive = TRUE /\ left = NoState

(* What internalSeek(to) does before it moves: a transform that was made at *)
(* another frame is taken back from the undo stack of the model that is    *)
(* active by then.                                                         *)
Rewinds(to) == pending # NULL /\ to # pending.frame

Rewind(to, model) ==
  IF Rewinds(to)
  THEN /\ pending' = NULL
       /\ stack' = IF model = NULL THEN stack
                   ELSE [stack EXCEPT ![model] = Moved(@, pending.offset)]
  ELSE UNCHANGED <<pending, stack>>

internalSeek(to, model) == frame' = to /\ Rewind(to, model)

(* Mutant of Activate: the active model may change in model editing.        *)
ActivateInEditing(value) ==
  IF value # active
  THEN active' = value /\ Rewind(frame, value)
  ELSE UNCHANGED <<active, pending, stack>>

(* setActiveModel(value), with the seek to the current frame it ends in.   *)
Activate(value) ==
  IF value # active /\ ~editing
  THEN active' = value /\ Rewind(frame, value)
  ELSE UNCHANGED <<active, pending, stack>>

-----------------------------------------------------------------------------
(* Commands.                                                               *)

(* The seek that transforms and the camera begin with.                      *)
SeekOf(c) ==
  IF c.kind \in SeekingKinds /\ canSeek
  THEN frame' = c.frame /\ SeekPlayer
  ELSE UNCHANGED <<frame, sound>>

(* Mutant of OnUndo: m_transformPerformedAt is not reset.                   *)
OnUndoKeepingPending(c) ==
  /\ pending' = pending
  /\ SeekOf(c)

(* What on_undo of a command does to the session.                          *)
OnUndo(c) ==
  /\ pending' = IF c.kind \in {"transform", "camera", "keyframe"} THEN NULL ELSE pending
  /\ SeekOf(c)

(* Mutant of OnRedo: keyframe commands do not reset m_transformPerformedAt.  *)
OnRedoKeepingPending(c, offset) ==
  /\ pending' = IF c.kind \in {"transform", "camera"}
                THEN [frame |-> c.frame, offset |-> offset] ELSE pending
  /\ SeekOf(c)

(* What on_redo does, offset being undoStackGetOffset of the stack it asks. *)
OnRedo(c, offset) ==
  /\ pending' = CASE c.kind \in {"transform", "camera"} -> [frame |-> c.frame, offset |-> offset]
                  [] c.kind = "keyframe" -> NULL
                  [] OTHER -> pending
  /\ SeekOf(c)

(* pushUndo: on_redo runs before undoStackPushCommand moves the cursor.    *)
PushTo(owner, kind, target) ==
  LET c == [kind |-> kind, frame |-> IF kind \in SeekingKinds THEN frame ELSE 0,
            target |-> target]
  IN /\ kind \in Kinds
     /\ ~isPlaying
     /\ OnRedo(c, stack[owner].current)
     /\ stack' = [stack EXCEPT ![owner] = Pushed(@, c)]
     /\ UNCHANGED <<live, editingStack, active, editing, editingState, front, saved>>

(* Drags of bones and morphs; keyframe commands; paste, correct and        *)
(* initialize, which snapshot a whole motion.                              *)
PushModelCommand(kind) ==
  /\ active # NULL /\ ~editing
  /\ kind \in ModelKinds
  /\ PushTo(active, kind, active)

(* Drags of the camera, unless it is the model's own; keyframes of camera,  *)
(* light and accessories.                                                  *)
PushProjectCommand(kind) ==
  /\ IF kind = "camera" THEN active = NULL \/ CameraShared ELSE active = NULL
  /\ kind \in {"camera", "keyframe"}
  /\ PushTo(PROJECT, kind, PROJECT)

PushAccessoryCommand(accessory) ==
  /\ active = NULL
  /\ accessory \in live
  /\ PushTo(PROJECT, "accessory", accessory)

PushEditingCommand ==
  /\ "edit" \in Kinds
  /\ active # NULL /\ editing /\ ~isPlaying
  /\ editingStack' = [editingStack EXCEPT ![active] =
       Pushed(@, [kind |-> "edit", frame |-> 0, target |-> active])]
  /\ UNCHANGED <<live, stack, active, editing, editingState, frame, pending, player, saved>>

(* activeUndoStack().                                                      *)
activeUndoStack ==
  IF active = NULL THEN stack[PROJECT]
  ELSE IF editing THEN editingStack[active] ELSE stack[active]

ReplaceActiveUndoStack(s) ==
  IF active # NULL /\ editing
  THEN editingStack' = [editingStack EXCEPT ![active] = s] /\ UNCHANGED stack
  ELSE /\ stack' = [stack EXCEPT ![IF active = NULL THEN PROJECT ELSE active] = s]
       /\ UNCHANGED editingStack

HandleUndoAction ==
  /\ CanUndo(activeUndoStack) /\ ~isPlaying
  /\ ReplaceActiveUndoStack(Undone(activeUndoStack))
  /\ OnUndo(Below(activeUndoStack))
  /\ UNCHANGED <<live, active, editing, editingState, front, saved>>

HandleRedoAction ==
  /\ CanRedo(activeUndoStack) /\ ~isPlaying
  /\ ReplaceActiveUndoStack(Redone(activeUndoStack))
  /\ OnRedo(Above(activeUndoStack), activeUndoStack.current + 1)
  /\ UNCHANGED <<live, active, editing, editingState, front, saved>>

-----------------------------------------------------------------------------
(* The project.                                                            *)

(* setActiveModel(value) and then internalSeek(to), value being the active  *)
(* model even if it was before.                                            *)
ActivateAndSeek(value, to) ==
  /\ active' = value
  /\ frame' = to
  /\ IF value # active /\ Rewinds(frame) THEN Rewind(frame, value) ELSE Rewind(to, value)

SetActiveModel(value) ==
  /\ value \in (live \cap Models) \cup {NULL}
  /\ Activate(value)
  /\ UNCHANGED <<live, editingStack, editing, editingState, frame, player, saved>>

Seek(to) ==
  /\ canSeek
  /\ SeekPlayer
  /\ internalSeek(to, active)
  /\ UNCHANGED <<live, editingStack, active, editing, editingState, front, saved>>

(* addModelMotion, which clears the stack of the model.                    *)
ImportModelMotion ==
  /\ active # NULL /\ ~editing /\ ~isPlaying
  /\ stack' = [stack EXCEPT ![active] = EmptyStack]
  /\ UNCHANGED <<live, editingStack, active, editing, editingState, frame, pending, player, saved>>

(* The dialog that confirms a deletion: removeModel and destroyModel.  In   *)
(* model editing setActiveModel(nullptr) returns early, and the model stays *)
(* active.                                                                 *)
DeleteModel ==
  /\ active # NULL /\ ~isPlaying
  /\ DeleteWhileEditing \/ (editingState = NULL /\ saved # active)
  /\ live' = live \ {active}
  /\ active' = IF editing THEN active ELSE NULL
  /\ stack' = [stack EXCEPT ![active] = EmptyStack]
  /\ pending' = IF Rewinds(0) \/ (~editing /\ Rewinds(frame)) THEN NULL ELSE pending
  /\ frame' = 0
  /\ UNCHANGED <<editingStack, editing, editingState, player, saved>>

DeleteAccessory(accessory) ==
  /\ accessory \in live \cap Accessories
  /\ ~isPlaying
  /\ live' = live \ {accessory}
  /\ UNCHANGED <<stack, editingStack, active, editing, editingState, frame, pending, player, saved>>

(* The window of model editing opens and closes: saveState with             *)
(* setModelEditingEnabled(true), restoreState with                         *)
(* setModelEditingEnabled(false).                                          *)
OpenEditingWindow ==
  /\ active # NULL /\ editingState = NULL
  /\ editing' = TRUE
  /\ editingState' = [active |-> active, frame |-> frame]
  /\ editingStack' = [editingStack EXCEPT ![active] = EmptyStack]
  /\ UNCHANGED <<live, stack, active, frame, pending, player, saved>>

CloseEditingWindow ==
  /\ editingState # NULL
  /\ ActivateAndSeek(IF editing THEN active ELSE editingState.active, editingState.frame)
  /\ editing' = FALSE
  /\ editingState' = NULL
  /\ editingStack' = [editingStack EXCEPT ![active'] = EmptyStack]
  /\ UNCHANGED <<live, player, saved>>

-----------------------------------------------------------------------------
(* Playback.                                                               *)

(* preparePlaying saves the state and unselects the model.                  *)
PreparePlaying ==
  /\ saved' = active
  /\ Activate(NULL)
  /\ UNCHANGED <<live, editingStack, editing, editingState, frame>>

(* play() and resume(true).                                                *)
Play ==
  /\ ~isPlaying /\ ~editing
  /\ PreparePlaying
  /\ setState("playing")
  /\ UNCHANGED front

(* The model that prepareStopping selects: setActiveModel does nothing in   *)
(* model editing, and without a saved state nothing is restored.            *)
Restored == IF editing \/ saved = NoState THEN active ELSE saved

(* A playback that no play() began is not the end of model editing.         *)
StaysEditing == editing /\ saved = NoState

(* prepareStopping: restoreState also brings back the state flags of the    *)
(* time play() was called, when model editing was off.                     *)
PrepareStopping ==
  /\ IF saved = NoState THEN UNCHANGED <<active, pending, stack>> ELSE Activate(saved)
  /\ editing' = StaysEditing
  /\ saved' = NoState
  /\ UNCHANGED <<live, editingStack, editingState>>

(* The player is updated after it is paused, and after it is stopped.       *)
PausePlaying ==
  /\ isPlaying
  /\ UpdatePlayer("paused", isPlaying, "still")
  /\ PrepareStopping
  /\ UNCHANGED frame

Pause == PausePlaying /\ UNCHANGED front

(* BaseAudioPlayer::stop does nothing to a player that is suspended.        *)
Stop ==
  /\ playback # "stopped"
  /\ IF playback = "suspended" THEN UpdatePlayer(playback, wasPlaying, "still")
                               ELSE UpdatePlayer("stopped", isPlaying, "still")
  /\ PrepareStopping
  /\ frame' = 0
  /\ UNCHANGED front

(* update() while playing: the audio player is some frames further if its   *)
(* clock runs.  The player may pause itself; the project does not stop      *)
(* playing.                                                                *)
AdvancePlaying ==
  /\ isPlaying /\ frame < MaxFrame
  /\ UpdatePlayer(playback, wasPlaying, clock)
  /\ \E to \in frame .. MaxFrame : (clock = "running" \/ to = frame) /\ internalSeek(to, active)
  /\ UNCHANGED <<live, editingStack, active, editing, editingState, saved, front>>

(* continuesPlaying at the end of the segment (isFinished() is never true): *)
(* stop(), and if playback loops internalSeek(0) and play(), which does      *)
(* nothing in model editing.                                               *)
FinishPlaying == isPlaying /\ frame = MaxFrame /\ (~Loop \/ StaysEditing) /\ Stop

(* Mutant of RestartPlaying: playback restarts whether it loops or not.     *)
RestartPlayingAlways ==
  /\ isPlaying /\ frame = MaxFrame /\ ~StaysEditing
  /\ saved' = Restored
  /\ active' = NULL
  /\ frame' = 0
  /\ editing' = FALSE
  /\ IF Restored # active /\ Rewinds(frame) THEN Rewind(frame, Restored) ELSE Rewind(0, Restored)
  /\ playback' = "playing" /\ wasPlaying' = FALSE /\ clock' = "running" /\ request' = "none"
  /\ UNCHANGED <<live, editingStack, editingState, front>>

RestartPlaying ==
  /\ isPlaying /\ Loop /\ frame = MaxFrame /\ ~StaysEditing
  /\ saved' = Restored
  /\ active' = NULL
  /\ frame' = 0
  /\ editing' = FALSE
  /\ IF Restored # active /\ Rewinds(frame) THEN Rewind(frame, Restored) ELSE Rewind(0, Restored)
  /\ playback' = "playing" /\ wasPlaying' = FALSE /\ clock' = "running" /\ request' = "none"
  /\ UNCHANGED <<live, editingStack, editingState, front>>

Update == AdvancePlaying \/ FinishPlaying \/ RestartPlaying

(* The system tells the player, at any time, that its output device is gone *)
(* (OnSessionDisconnected, OnDeviceStateChanged) or that another one is the *)
(* default now (OnDefaultDeviceChanged), which does not outdo the former.   *)
DeviceChanges ==
  /\ LosesDevice
  /\ \/ request' = "pause"
     \/ request = "none" /\ request' = "restart"
  /\ UNCHANGED <<live, stack, editingStack, active, editing, editingState,
                 frame, pending, playback, wasPlaying, clock, saved, front>>

(* What the playback that is left will restore.  A device that was replaced *)
(* and of which the player has not heard yet makes it play behind the       *)
(* project's back, and one that began a playback in model editing did.      *)
Leaving ==
  IF ~isPlaying THEN NoState
  ELSE IF request = "restart" \/ StaysEditing THEN Replaced
  ELSE Restored

(* Mutant of Deactivate: a player that does not play is left as it is.      *)
DeactivateWithoutSuspend ==
  /\ isActive /\ isActive' = FALSE
  /\ left' = Leaving
  /\ \/ PausePlaying
     \/ /\ ~isPlaying
        /\ UNCHANGED <<live, stack, editingStack, active, editing, editingState,
                       frame, pending, sound, saved>>

(* setActive(false), when another application comes to the front: playback  *)
(* is paused.  A player that does not play is suspended, so that it was not *)
(* playing before.                                                         *)
Deactivate ==
  /\ isActive /\ isActive' = FALSE
  /\ left' = Leaving
  /\ \/ PausePlaying
     \/ /\ ~isPlaying
        /\ setState("suspended")
        /\ UNCHANGED <<live, stack, editingStack, active, editing, editingState,
                       frame, pending, saved>>

(* setActive(true) resumes what the deactivation paused.                   *)
Reactivate ==
  /\ ~isActive /\ isActive' = TRUE
  /\ left' = NoState
  /\ IF wasPlaying /\ playback # "suspended" /\ ~editing
     THEN PreparePlaying /\ setState("playing")
     ELSE UNCHANGED <<live, stack, editingStack, active, editing, editingState,
                      frame, pending, sound, saved>>

(* Every way to another frame or another model but undo and redo.          *)
FrameMove ==
  \/ /\ isActive
     /\ \/ \E to \in Frames : Seek(to)
        \/ \E value \in Models \cup {NULL} : SetActiveModel(value)
        \/ CloseEditingWindow
        \/ Play \/ Pause \/ Stop
  \/ Update
  \/ Deactivate \/ Reactivate

Edit ==
  \/ \E kind \in ModelKinds : PushModelCommand(kind)
  \/ \E kind \in ProjectKinds : PushProjectCommand(kind)
  \/ \E accessory \in Accessories : PushAccessoryCommand(accessory)
  \/ PushEditingCommand
  \/ HandleUndoAction
  \/ HandleRedoAction
  \/ ImportModelMotion
  \/ DeleteModel
  \/ \E accessory \in Accessories : DeleteAccessory(accessory)
  \/ OpenEditingWindow

(* The user acts on an application that is in front.  What the code does    *)
(* once its active model is destroyed is undefined.                        *)
Next == active \in live \cup {NULL} /\ (FrameMove \/ DeviceChanges \/ (isActive /\ Edit))

Spec == Init /\ [][Next]_vars

(* The application calls update() for every frame it draws, and an audio     *)
(* clock that runs advances.                                               *)
FairSpec == Spec /\ WF_vars(Update)

-----------------------------------------------------------------------------
Stack == [commands : Seq(Command), current : 0 .. Limit]

(* The variables keep their types, a cursor stays inside its commands and   *)
(* no stack outgrows the limit.                                            *)
TypeOK ==
  /\ live \subseteq Models \cup Accessories
  /\ \A s \in {stack[o] : o \in Owners} \cup {editingStack[m] : m \in Models} :
       s \in Stack /\ Len(s.commands) <= Limit /\ s.current <= Len(s.commands)
  /\ active \in Models \cup {NULL}
  /\ editing \in BOOLEAN
  /\ editingState = NULL \/ editingState \in [active : Models, frame : Frames]
  /\ frame \in Frames
  /\ pending = NULL \/ pending \in [frame : Frames, offset : 0 .. Limit]
  /\ playback \in {"stopped", "suspended", "paused", "playing"}
  /\ wasPlaying \in BOOLEAN /\ isActive \in BOOLEAN
  /\ clock \in {"running", "still"} /\ request \in {"none", "pause", "restart"}
  /\ saved \in Models \cup {NULL, NoState}
  /\ left \in Models \cup {NULL, NoState, Replaced}

(* A frame move takes back at most the transform made last and nothing      *)
(* else: no keyframe command is undone with it, nothing is redone and no    *)
(* stack but that of the model that is active then is touched              *)
(* (docs/change_log_past.rst:399-410).                                     *)
TakenBack(before, after) ==
  /\ after.commands = before.commands
  /\ after.current = before.current - 1
  /\ Below(before).kind = "transform"

FrameMoveTakesBackOneTransform ==
  [][FrameMove => \A o \in Owners :
       stack'[o] = stack[o] \/ TakenBack(stack[o], stack'[o])]_vars

(* Why: as long as a transform is noted, moving the stack of a model to the *)
(* noted offset moves nothing or takes back that very transform.           *)
PendingIsTheTransform ==
  pending # NULL => \A m \in Models :
    LET s == stack[m]
        t == Moved(s, pending.offset)
    IN t = s \/ (TakenBack(s, t) /\ Below(s).frame = pending.frame)

(* What can be undone acts on objects that still exist: undo stacks were    *)
(* split by model because undo after a deletion crashed                    *)
(* (docs/change_log_past.rst:614-617).                                     *)
UndoActsOnLiveObjects ==
  /\ active \in live \cup {NULL}
  /\ active = NULL /\ CanUndo(stack[PROJECT]) =>
       Below(stack[PROJECT]).target \in live \cup {PROJECT}

(* Model editing keeps to its own history: as long as it lasts, neither the *)
(* commands a model can undo outside it nor the active model change.       *)
EditingIsIsolated ==
  [][editing /\ editing' /\ ~isPlaying =>
       UNCHANGED active /\ \A m \in Models : stack'[m] = stack[m]]_vars

(* Another application in front for a while changes nothing: what played    *)
(* goes on, what the user or a lost device had paused does not start, and   *)
(* the same model will be selected when playback is over; also if the device *)
(* is lost just before or meanwhile.  The exceptions are playbacks that a    *)
(* replaced device starts over (Leaving).                                   *)
LeavingKeepsPlayback ==
  [][~isActive /\ isActive' /\ left # Replaced =>
       IF left = NoState THEN ~isPlaying' /\ saved' = saved
                         ELSE isPlaying' /\ saved' = left]_vars

(* Left alone, playback that does not loop ends, whatever became of the     *)
(* device, unless the user sought during it: this stops its clock.          *)
PlaybackEnds == <>[][Update]_vars => <>[](~isPlaying \/ clock = "still")

(* Every undo stack keeps the history docs/menu.rst promises, whatever the  *)
(* session does around it.                                                 *)
History(o) == INSTANCE UndoHistory WITH
  Commands <- Command, limit <- Limit, past <- Done(stack[o]), future <- Taken(stack[o])
EditingHistory(m) == INSTANCE UndoHistory WITH
  Commands <- Command, limit <- Limit, past <- Done(editingStack[m]), future <- Taken(editingStack[m])

ImplementsHistories ==
  /\ \A o \in Owners : History(o)!Init
  /\ \A m \in Models : EditingHistory(m)!Init
  /\ [][ /\ \A o \in Owners : [History(o)!Next]_<<stack[o]>>
         /\ \A m \in Models : [EditingHistory(m)!Next]_<<editingStack[m]>> ]_vars
=============================================================================
