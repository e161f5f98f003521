# nanoem: specification, model checking and proofs

nanoem is an editor of MMD animations: models, accessories, camera and light are
posed frame by frame, played, exported and saved. Rendering and the file formats
are most of its code; the parts that are hard to get right are smaller: an undo
history split over many stacks, a notion of "transforms that are not registered
yet" threaded through frame moves, modes that exclude one another, and a redo log
that must bring a session back after a crash. This directory specifies those in
TLA+, checks them with TLC and proves what it can with TLAPS. All paths below are
relative to the repository (`src/`).

## 1. Inventory

| Component | State it keeps | Operations | Interacts with |
|---|---|---|---|
| Undo stack library, `dependencies/undo/undo.c` | slots, `num_commands`, `current_index`, `saved_index`, limits | push, undo, redo, set offset, clear, soft limit, dirty flag, destroy | callbacks into the commands |
| Project editing session, `emapp/src/Project.cc` | stacks, active model, frame indices, `m_transformPerformedAt`, `m_actionSequence`, state flags | push, undo, redo, seek, play/pause/stop, set active model, editing mode, add/remove drawables | every other part |
| Undo commands, `emapp/src/command/` | the data before and after | `on_undo`, `on_redo`, `on_persist_*`, read and write | session, motions, redo log |
| Redo log and recovery, `emapp/src/internal/project/Redo.cc` | the log file, the records and their sequence numbers | append, count, filter, replay, copy | service, commands, file manager |
| Application service, `BaseApplicationService.cc`, `ThreadedApplicationService.cc` | current project, sockets, modal dialogs | dispatch of commands, events, recovery | client, project, UI |
| Application client, `BaseApplicationClient.cc`, `ThreadedApplicationClient.cc` | pending callbacks | commands, queries | service |
| File manager, `DefaultFileManager.cc`, `FileUtils.cc` | temporary and transient files, dialogs in between | open, save, load, commit, rollback | project, redo log |
| Progress and cancel publisher, `Progress.cc`, `ThreadedApplicationService.cc` | subscription, cancel token | start, publish, cancel, stop | loading and saving |
| Motion and keyframe commands, `Motion.cc`, `CommandRegistrator.cc`, `command/*Keyframe*Command.cc`, `nanoem/ext/mutable.c` | keyframes, their curves, selections, snapshots | add, remove, shift, move, correct, undo, redo, read and write | session, redo log |
| Model, `Model.cc`, `model/` | bones, morphs, constraints, two undo stacks | transforms, skinning, editing | session, physics |
| Accessory, `Accessory.cc` | transform, effect | load, transform, delete | the project's stack |
| Cursor states, `StateController.cc`, `internal/Dragging*State.cc` | the current state, the values at press | press, move, release | commands |
| Capturing, `internal/CapturingPassState.cc` | the pass and its state, the settings it saved, reads under way, the encoder | request, start, capture, encode, finish, cancel, restore, destroy | client, dialogs, graphics backend, plugins |
| Modal dialogs, `ModalDialogFactory.cc` | a stack of dialogs | accept, discard, cancel | file manager, recovery |
| Audio player, `BaseAudioPlayer.cc`, `win32/src/WASAPIAudioPlayer.cc` | its state and the one before, clock, output device | play, pause, resume, suspend, stop, update | playback, activation of the window |
| Physics, effects, images, plugins, UI, formats, platform layers | | | |

### What is hard here

* **Long sequences of legal calls.** Nothing stops a user from transforming a bone,
  switching the active model, moving a frame and undoing; the code keeps an *offset
  of some stack* and applies it later to the stack that is *active then*.
* **Several histories.** Every model has two undo stacks (one for model editing), the
  project one of its own, used by camera, light and accessories. Which one is meant
  is decided at the time of each call.
* **Objects that go away.** A command holds pointers to what it changes.
* **Crashes.** A log written next to the histories is replayed through other code
  (push instead of redo), on a project that may have been replaced in between.
* **Several threads.** The recovery waits for answers of the thread that waits for it.
  An export is drawn by the thread of the service, its pixels arrive on a thread of the
  graphics backend, and the user cancels it from a dialog in between.
* **Recorded and performed twice.** A keyframe command is written as a message when it
  is pushed and performed again, by other code, from that message.
* **Limits.** A stack holds 64 commands (`Project.cc:1290`,
  `ApplicationPreference.cc:229-233`; the stacks of models, accessories, camera and
  light copy the limit: `Model.cc:890-891`, `Accessory.cc:188`,
  `PerspectiveCamera.cc:66`, `DirectionalLight.cc:33`). A push on a full one evicts.

### What would make each component correct

* Undo stack: indices stay in the limit; each command is owned by exactly one slot
  until it is destroyed; the document that undo or redo shows is the one that was
  there; "clean" means "as saved".
* Session: a frame move takes back the transform that is not registered and nothing
  else; model editing is isolated; modes exclude each other as the manual says;
  undo acts on objects that exist; playback ends.
* Redo log: the recovered project is the one that crashed, its document and its
  histories; a recovery terminates; it can be repeated.
* Files: a save that fails leaves the old file; the temporary file goes (on Windows it
  stays after a failure, section 4).
* Keyframe commands: undo takes back exactly what was done, no bone is ever left
  without its first keyframe, and the motion of a recovery is the one that was lost.
* Capturing: no pass goes away under a read of its pixels, the frames are written in
  order and to the end, the project gets back the settings it had, an export ends.
* Dialogs, cancelling: every operation that was started ends, once.

`PROJECT.json` lists the hazards one by one, each at its line.

## 2. Plan

Items 1 to 9 are done.

1. `UndoStack`, with the abstract `UndoHistory` it implements, and the proofs of both.
2. `UndoStacks`: the library as seen by the modules that use several stacks, and the
   lemmas about its operators (`UndoStacksProofs`).
3. `EditingSession` over `UndoStacks`; it implements one `UndoHistory` per stack.
4. `RedoLog` over `UndoStacks`: journaling, crashes, recovery, again crashes, also in
   the middle of a save and of a recovery.
5. `RecoveryHandshake`: service and worker of the recovery.
6. `ProjectSaving`: temporary file, rename and rollback, the transient hard link and
   the textures read through it, crashes in between.
7. `CapturingPass`: the export of images and videos, with its three parties.
8. `KeyframeCommands` over `UndoStacks`: the commands on the bone keyframes of a
   motion, performed, undone and replayed from the log side by side.
9. Theorems: the safety properties of every module above but 5, which has none to prove,
   and the refinements of 1 and 3.
10. The states of the audio player and the activation of the window: part of 3.
11. Not begun: the cancel publisher and the shutdown of the threads (the mutex held
    during the callback, the cancel token of `stop`); the audio player's clock and the
    sound of an export; the cursor states, whose press,
    move and release push the commands; the stack of modal dialogs; keyframes of
    morphs, camera, light and accessories, which follow the pattern of 8.

## 3. Modules and the code

### UndoStack, UndoHistory

`UndoStack` is `undo.c`: an array `commands` of `HardLimit` slots (`NULL` if empty),
`numCommands`, `currentIndex`, `savedIndex`, `softLimit` and `isDirty`, one action per
public function. Commands are mementos: `before` and `after` are what `on_undo` and
`on_redo` restore, and the application changes the document `doc` only by pushing.
`heap` is the commands that are allocated; `savedDoc` and `evicted` are ghosts.
A push has three cases, as in the code: over undone commands (truncation), on a full
stack (the oldest is destroyed, the rest shifted) and on top. `SetOffset` is the
loop of `undoStackSetOffset`, whose forward branch goes one command further than the
offset it is given. `SetSoftLimit` is called as its precondition allows
(`numCommands <= value - 1`); nobody in `emapp` calls it once a stack is in use. The code
accepts 1 and so a limit of 0, after which `PushCommand` is not enabled: a push would write
before the first slot, which is undefined.
The return value of a persist callback is 1 in every command, so the branch that
ignores a persisted command is never taken. `UndoHistory` is the abstract view: what
is done, and what was undone, with a limit on how far back it goes.

### UndoStacks

The library reduced to a sequence and a cursor: pure operators, no state. It is
what `UndoStack` shows after refinement, and lets the modules below have many stacks.

### EditingSession

One project with models and accessories. Variables follow the members of `Project`
and `Model`: the stacks (`undoStack()` and `editingUndoStack()` per model, and the
project's), `activeModel`, the local frame indices, `m_transformPerformedAt`, the
editing flag and the playing flags. Commands are classes that differ in what they do
to the session: transforms (bone, morph) note an offset; keyframe registrations and
removals reset it; snapshot commands (paste, correction, initialization) do not;
camera commands note the offset of the project's stack. `internalSeek` rewinds the
active stack to the noted offset, and the whole handler (`seek`, `setActiveModel`,
`play`, ...) is one action. What a frame move *should* take back is said of the stack
itself: `PendingIsTheTransform` relates the note to the last command of the active
stack.

Playback is `play`, `resume`, `pause`, `stop` and `update`, over the state of the audio
player: `playback` and `wasPlaying` are `m_state.first` and whether `m_state.second` is
`kPlayState`, and `setState` moves both; `clock` says whether `m_clock` runs. The output
device may be lost or replaced at any moment (`DeviceChanges`): a thread of the system leaves
a `request`, which the next `update()` of the player handles. `UpdatePlayer` is that
`update()` (`WASAPIAudioPlayer.cc:137-180`), and part of every handler that calls it: not
only of `Project::update` (`AdvancePlaying`) but also of `pause`, `stop` and each seek, the
nested ones of commands included (`SeekOf`). It pauses the player, or pauses and resumes it,
and the project is not told. A lost device does not pause a second time: `pause()` acts on a
player that plays only (`BaseAudioPlayer.cc:177-187`), so that `wasPlaying()` stays. The
`frame` of a command is the one it seeks to, and 0 for those that do not seek.

`Deactivate` and `Reactivate` are `setActive`, which the windows call when another application
comes to the front or leaves it: it pauses what plays and resumes it later, if it
`wasPlaying()`; a player that did not play is suspended, without which a playback the user had
paused would start. While another application is in front the user does nothing here. `left`
is a ghost: the model that the playback which was left will select at its end, or `Replaced`
if the player started over behind the project (`Leaving`, and section 4).
`LeavingKeepsPlayback` says that leaving and coming back is no change to playback, but in
that case.

### RedoLog

One project with one model; its document is the set of commands in effect. Every
push, undo, redo, load and save appends a record, as the persist callbacks do. A
record is written whole (the writes of `Redo::save` are not split); its fields are its
type, what it is about and its number, and a magic is one more element of the file.
A crash may happen at any time, also between the commit of a save and its record
(`CrashWhileSaving`) and in the middle of a recovery (`CrashWhileRecovering`). `Recover`
is `loadAllAsync` with what the service makes of each record: `Replayed[i]` is the
project, and the copy of the log, after the first `i` of them. It runs on the whole log
at once, since nothing else changes the project meanwhile (the dialog is modal) and a
crash has the same effect after any number of records.

Which log the next start finds depends on the platform. On Windows the handler of the
crash writes the name of the current project's log into the file it looks for
(`win32/src/Win32ThreadedApplicationService.cc:355-364`); during a recovery that log is a
temporary file which is renamed at the end (`Redo.cc:88-121`), so the next start finds
none. That is `CrashWhileRecovering`. On macOS the name is written once, when
the first project is set up (`macos/classes/CocoaThreadedApplicationService.mm:1738`), and the file is
deleted after a recovery (`ThreadedApplicationService.cc:603`): there a crash in a
recovery changes nothing, and after one the log must be asked for on the command line. The projects a save point leaves behind are abstracted away; after one
was replaced the recovery goes on writing to it (`setWritingRedoMessageDisabled`,
`setRedoDrawable`) although `StateController.cc:2005` may have destroyed it.

### RecoveryHandshake

The thread of the service, the worker and the two nanomsg streams. `run_and_wait`
may run the worker on the thread of the service or on another; in both cases that
thread takes no command until the worker is done.

### ProjectSaving

A project stored as an archive (`.nma`), the disk, and one process that may die. The
content of an archive is abstracted to its drawables with their names and to which
entry (`Model/<name>/` or `Accessory/<name>/`) holds whose texture. A save has the
steps between which a crash or another program can come: open `<path>.tmp`, write
(`setFileURI`, the names made unique, the textures copied from their sources), rename,
and the exchange of the transient file, which the code does after a failure too. A
hard link is modelled as a copy of the content, since published files are replaced
and never changed. `writer` is the file writer of the platform, POSIX or Windows, which differ
in what is left of a save that fails (`Rollback`); `abandoned` is a ghost, the files whose
temporary file nobody is going to remove. Projects stored as `.nmm` or `.pmm` (references only, no textures)
are left out, and with them the refusal to convert an archive into one, which is a
failed save like any other. Drawables are kept models first, as the archive writes them,
and a name given by a save is the drawable's own or one that was made unique
(`Resolved`). Not modelled: motions, sound and effects in the archive.

### CapturingPass

`pass` is `m_capturingPassState` with the members of `CapturingPassState` and its two
subclasses that matter: the state, the range, the saved settings, the blits that warm
up the drawables, the amount of the current motion frame, the time stamp of the last
frame encoded, whether the encoder is there. `view` is what of the project an export
borrows, `ui` the dialog and the listeners of the client, `thread` the thread of the
service, `reads` the asynchronous reads of pixels under way, `sink` the encoder or the
recorder and what is in its file. Requests, the configuration dialog and the save panel
lead to `StartCapture`; every draw of the service is one of the actions of `Draw`, by the
kind of output and the state; `BeginRead`, `RejectRead` (the pixels have not the size of a frame)
and `EncodeRead` are the handler of a read, which holds the mutex from the first to the last; `SetState` is a state the thread of the service sets when
it gets the mutex; `TransitDestruction` is `transitDestruction`, one turn per draw, which
restores the settings and lets go of the pass once no read is left.

A pointer to a pass or an encoder that is gone is a choice of the outcomes: the read
goes on with nothing written, or the application has crashed. Stopping the encoder is
one step; the state `finished` it sets is left out, since its caller sets another one before
any thread reads it (`CapturingPassState.cc:1652`), and so is the branch for a recorder that was
cancelled (1469), since nothing cancels one. The mutex is taken to be recursive, since the handler sets the state while it
holds it. Reads complete in the order they were made. A request is made only while no
export is under way: the menus are disabled by an event, and a draw comes before the
next click. Left out are the error dialogs, another project opened during an export, and
a read whose pass is not found by the backend, whose callback never comes.

### KeyframeCommands

A motion maps bones and frames to keyframes, a keyframe being what it holds and the
shape of its curve (linear, adjusted automatically, split by an insertion). A command
holds what `onUndo` and `onRedo` read: the keyframes with the values to set, the column
of a shift with the keyframes kept for it, the motions before and after a correction.
`AddKeyframes` and `RemoveKeyframes` are `AddBoneKeyframesCommand` and
`RemoveBoneKeyframesCommand` with what `CommandRegistrator` puts into them,
`InsertEmptyTimelineFrame` and `RemoveTimelineFrame` the shifts of the timeline,
`CorrectAllSelectedBoneKeyframes` a snapshot of the motion, `MoveAllSelectedKeyframes`
a move, which goes on the stack of the project where the others go on the model's.
The loops of a command stop at the first keyframe that is missing, in any order, since
they run over a hash map. `recovered` is the project that a recovery makes of the records
written so far: the command is read from its message, where it has lost its curves, and
is redone by a push. It is followed up to the first move of keyframes (`moved`).
`undefined` says that an undo or a redo used the keyframes of a motion that a snapshot
has destroyed (`UseDestroyedMotion`): nothing is said of what happens then.

Left out: the selection of keyframes, dirty bones, transforms and seeks, the keyframes of
morphs, models, camera, light, accessories and self shadow, scaling and pasting, the bytes
of a snapshot, and loading a motion.

## 4. Runs

| Run | Result | What it shows |
|---|---|---|
| `undo_stack` | holds | indices, ownership, mementos, the clean flag and the refinement of `UndoHistory` |
| `session_pose` | holds | with one model, a frame move takes back at most the last transform, and every stack (project, model, model editing) keeps the history of `UndoHistory` |
| `session_editing` | holds | with two models and an accessory, model editing keeps to its own stack and model; another application in front for a while, with the output device lost or replaced at any moment, changes nothing about playback, but where a replaced device starts it over; and playback ends (liveness), unless a seek has stopped its clock |
| `redo_recovers` | holds | a recovery brings back document and histories while nothing was saved, and camera and light work also around saves and interrupted ones |
| `redo_all` | holds | document and histories fit together in every state, everything switched on, crashes in the middle of a recovery too |
| `session_deleted_accessory` | violated | finding: undo on a deleted accessory |
| `redo_twice` | violated | finding: a second crash loses what the first recovery brought back |
| `saving` | holds | project files are complete whatever fails or crashes; no transient file is left behind, and no temporary file but that of a crash or, on Windows, of a failed save, until the next save of the same file; a failed save does not rename the project, every texture is found and saved |
| `saving_twice` | violated | finding: the second save loses the textures of what was imported from a zip file |
| `capture` | holds | every kind of export, cancelled, failing or quitting at any step: no pass goes away under a read, frames are in order and complete, no setting of an export that was started once stays, and the export ends (liveness) |
| `keyframes` | holds | an undo is the inverse of its command, the first keyframe of a bone stays, a recovery has the same motion |
| `recovery_handshake` | violated | finding: the recovery never ends |

Each finding is described in `PROJECT.json` with the line of the code and the
sentence of the documentation it disagrees with. `recovery_handshake` and the `redo_*`
findings are independent: the latter say what a recovery makes of a log once its
worker is answered.

### Deviations seen with other constants

The same models show the following when their constants allow it; no run is kept
for these, and the constants of the passing runs exclude them.

* `Kinds` with `"camera"` and a camera shared with the model: `UpdateCameraCommand::redo`
  (`command/UpdateCameraCommand.cc:74`) notes the offset of the *project's* stack and
  the next frame move applies it to the *model's* (`FrameMoveTakesBackOneTransform`;
  `docs/change_log_past.rst:408-410` lists it as fixed).
* `Kinds` with `"snapshot"` and `"transform"`: `MotionSnapshotCommand::execute`
  (`command/MotionSnapshotCommand.cc:118`) does not reset the note, so that a frame move
  after a transform and a paste takes back both (same property).
* Two models (`Models <- TwoModels` in the configuration of `session_pose`): a transform of one
  model followed by the choice of the other makes the next frame move rewind the
  *other* model's stack, since `internalSeek` (`Project.cc:6709`) applies the note to
  whatever is active (same property). `session_pose` therefore has one model.
* A transform that was redone, or pushed on a full stack, is not taken back by a frame
  move: `undoStackGetOffset` is then the offset *after* it
  (`command/TransformBoneCommand.cc:53`).
* A model deleted while it is edited stays active (`Project.cc:4392`): with
  `DeleteWhileEditing` the states after it are undefined and the model stops there.
* With `LosesDevice` and `DeleteWhileEditing`: a lost output device pauses the player and not the project
  (`WASAPIAudioPlayer.cc:168`), so that `m_lastSaveState` stays. The stop that follows restores
  camera, selection and flags of before the playback over what the user did since, and
  selects a model that may have been deleted (`Project.cc:7195`); a resume saves over it with
  no model selected. `LosesDevice` is on in `session_editing` only, for the size of the other runs.
* A playback that was paused when another application came to the front is suspended after it:
  `isPaused` is false, so that the space key plays from the offset of the player instead of
  asking to resume, and `stop` does not stop the player (`BaseAudioPlayer.cc:206`).
* A default device that is replaced, and of which the player hears in a `pause`, a `stop` or a
  seek, starts the player whether it played or not (`WASAPIAudioPlayer.cc:174`): paused by the
  user or by the deactivation of the window (`Project.cc:2560`), it plays on behind the project,
  whose saved state is gone, also in the background and also in model editing.
  `docs/change_log_past.rst:1240-1246` speaks of a change during playback only. The model does
  this with `LosesDevice`; `LeavingKeepsPlayback` excepts the playbacks of `Leaving`.
* A seek during playback stops the clock of the player but not the playback
  (`WASAPIAudioPlayer.cc:184-193`, `glfw/common/src/SoundIOAudioPlayer.cc:102-110`), which then
  stays where it is until it is paused; `PlaybackEnds` excepts it.
* A device change that arrives while `update()` handles another one is overwritten
  (`WASAPIAudioPlayer.cc:178`). The model handles a request at once; on macOS the handler of
  the system does, and stops a player without sound and not the project
  (`AudioUnitAudioPlayer.mm:272`).
* A model can be chosen during playback and opened for editing (`Project.cc:6181`),
  which `docs/model.rst:8-10` excludes.
* `RedoLog` with `"open"`: an opened project has no `redoFileURI`
  (`BaseApplicationService.cc:2759`), so nothing done in it is recovered.
* `RedoLog` with `"edit"`: an undo in model editing is recorded as an undo of the active
  model (`command/BaseUndoCommand.cc:144`) and replayed on its other stack.
* `RedoLog` with `"save"`: a command pushed before a save and undone after it comes
  back, since the replayed stacks start empty at the save point
  (`BaseApplicationService.cc:4658`).
* `ProjectSaving` with a model and an accessory: an accessory `x` of a loaded project is
  renamed to `x-1` by a save after a model `x` was added, since models are written
  first (`Archive.cc:169`); its texture is still looked up at the entry of `x` by the
  save after that, and lost (`SavesEveryTexture`). `saving` has drawables of one kind.
* A failed save makes the transient file from whatever is at its destination
  (`DefaultFileManager.cc:1338`): after a failed "save as" onto another project the next save
  copies no texture, and after one to a new path the copy of the origin is gone. The
  properties about textures hold while nothing has failed.
* On Windows a save that fails leaves its temporary file: `Win32FileWriter::rollback` adds `.tmp`
  to the name that already ends in it (`FileUtils.cc:272-284`; 197-203 made it) and deletes
  that, and after a failed rename (258-270) the destructor (182-184) deletes nothing.
  `NoLeftovers` excepts these files, until the next save writes and renames them.
* A failed rename leaves the project with the name of the file that was not written
  (`DefaultFileManager.cc:1313`); `FileURIIsTheOrigin` excepts it.
* `RedoLog` with `"save"`, six records and `RecoversNoLess`: once the project was
  saved, the model commands that follow are lost in a recovery. The save point is
  replayed by `loadFromFile`, which puts a new project in place
  (`BaseApplicationService.cc:3375`), while `setRedoDrawable` (3379, 3388) enters the
  handles in the old one (`docs/application.rst:1164-1165` promises the recovery).
* `RedoLog` with `"interrupt"` and `RecoversNoLess`: a crash in the middle of a recovery
  on Windows loses everything, since the name that the next start finds is that of a
  temporary file (section 3).
* `CapturingPass` with `deferredRecorder` in `WholeRangeIsWritten`: a recorder whose frame
  is appended by `flushAllCommandBuffers` (`D3D11VideoRecorder.cc`, `MetalVideoRecorder.mm`)
  is finished before that (`CapturingPassState.cc:1488-1491`), so its last frame is dropped;
  and an asynchronous plugin export is restored, its encoder closed, before the last
  reads are over. `docs/menu.rst:370` says no frame is dropped.
* An image export started twice, by a listener that a refused request has left, saves the
  settings of the export as those of the user; and one cancelled before it was started
  restores settings that were never saved, a frame rate of 0 among them
  (`CapturingPassState.cc`). `ExportLeavesNoTrace` is said of exports that were started
  once, for `docs/menu.rst:441` promises the restoration.
* Cancelling an export closes the encoder without the mutex that the handler of a read
  takes; cancelling a native recording never finishes it; a recorder whose writer fails
  never ends by itself. These are the outcomes `CapturingPass` allows for a read whose
  encoder is gone, or that `ExportEnds` excepts.
* `KeyframeCommands` with `0 \in Columns`: removing the first frame of the timeline removes
  the first keyframes (`CommandRegistrator.cc:545-562` has no guard for it) and its undo
  does nothing, so `FirstKeyframeStays` and `UndoIsTheInverse` fail (`docs/application.rst:184`).
* A frame is inserted or removed on the stack of the model
  (`CommandRegistrator.cc:510`, `560`), where `docs/menu.rst:576` says the project's.
* A column removed, a correction, and both undone: the keyframes kept for the column
  belong to a motion that the undo of the correction has destroyed
  (`BaseShiftAllKeyframesCommand.cc:234`, `Motion.cc:1427-1441`). The model calls what
  follows `undefined` and says nothing of it.
* A first keyframe that is moved with others leaves a copy, and one that is already at its
  new frame is not replaced (`docs/application.rst:104-105` says it is); the whole move then
  changes the motion without a command that could undo it. `MoveAllSelectedKeyframes` does
  this (`Blocked`), and no property forbids it.
* A move of keyframes is on the project's stack when it is pushed and on the model's when it
  is replayed (`BaseApplicationService.cc:4602-4606`); `ReplayAgrees` stops at the first
  one (`moved`).

**Bounds.** Stacks hold one to three commands: that is enough for a push over undone
commands, an eviction, and a jump that passes its target. Sessions have one or two
models, one accessory, two frames: one object more than the number a
property relates. Logs hold up to eight records, which allows each of a load, a push
per command, undo and redo of them and a save, twice where two crashes are allowed
(`redo_all`: about a million states, `redo_recovers`: half a million).
`saving` has two models (they can meet in a name), two files and three saves: a save, a
"save as" and a save after either. `capture` has two motion frames, each exported as two
of the video (60 FPS over 30: `Steps`), two reads under way (one is in the handler while the
next one arrives) and two listeners (one more than a request leaves): 171 thousand states.
`keyframes` has two bones, three frames, two values, up to two keyframes selected and three
pushes on stacks of two, so that a stack evicts; with three frames there is one column before
and one after the one that is moved, and no keyframe leaves the timeline (`HasRoom`):
1.6 million states. `Operations` of `RedoLog` and the command classes of `EditingSession` are switched
per run, so that a run asks one question; the passing runs together fire every
action.

**Fairness.** `session_editing` assumes (`FairSpec`) that the drawing loop calls
`Project::update` again and again, which the platforms' run loops do while the application
is active, and that a clock that runs advances between two calls. `PlaybackEnds` is
said of a user who lets it: if from some time on nothing but updates happens, playback
is over some time later, unless the clock stands still (a seek stopped it). `capture` assumes that the window is drawn while the
application runs (`Draw`, and `TransitDestruction`, which a draw calls), that a read
the graphics backend was given completes (`BeginRead`, `EncodeRead`), and that the
thread of the service runs (`SetState`). It is not assumed that the user does anything:
`ExportEnds` is about an export after its file was chosen. A native recorder that is never
ready for its next frame is excluded. `recovery_handshake` assumes that neither thread stops
while it has something to do; the property fails in spite of it. All other properties are
safety properties and need none.

**Deadlock** is not checked where a model is meant to stop: bounded logs (`redo_*`), saves
(`saving*`) and pushes (`keyframes`) run out, and in `capture` the application may quit.

## 5. Proofs

`UndoStackProofs` proves, for every hard limit, every set of commands and every set of
documents:

* `TypeCorrectness`: `Spec => []TypeOK`;
* `OwnershipHolds`: no command is leaked, owned twice or destroyed while in a slot;
* `MementoChainHolds`: adjacent commands fit together and the cursor is where the
  document is, so that undo, redo and jumps restore what was there;
* `CleanMeansSavedHolds`: a stack that reports itself clean shows the saved document,
  unless its oldest command was evicted since.

The inductive invariant is `IInv == Shape /\ MementoChain /\ Anchored`. `Shape` is the
type invariant with ownership (which slots are filled, that no command is in two, that
the allocated ones are those). `MementoChain` alone is not inductive for evictions and
truncations, which need to know which slots are filled; `Anchored` ties the clean index
to the saved document as long as nothing was evicted. `PushShape` and `StepShape` show
that a step preserves the first part, `StepChain` the second (a jump is a segment of
the chain, hence one lemma on both directions), `StepAnchored` the third.

`UndoRefinementProofs` proves `ImplementsHistoryHolds`: `Spec => ImplementsHistory`,
every operation of the library is a step of `UndoHistory` or changes nothing a user
sees. The refinement maps the slots below the cursor to the past and those above it to
the future; `Views` says that both are sequences of commands, which needs `Shape`, for
a slot could be `NULL` otherwise. Then undo, redo and jumps are one lemma
(`CursorMoves`: moving the cursor down is `Back`, up is `Forward`), a push is `Do` in
each of its three ways (`PushIsDo`), clear, create and destroy are `Forget`, and a new
limit is `ChangeLimit`. Sequences are compared element by element
(`AppendByElements`, `SlideByElements`, `BackByCursor`, `ForwardByCursor`).

`UndoStacksProofs` has what the modules below need of the operators on stacks: each keeps a
stack a stack (`PushKeepsStack`, `UndoKeepsStack`, `RedoKeepsStack`, `JumpKeepsStack`), and
after a push the command is the one below the cursor, also when the oldest was evicted
(`PushIsBelow`). It also has what a user sees of them: each operation is a step of
`UndoHistory` on the commands done and undone (`EvolvesIsStep`), and two stacks with the
same commands done stay so when one is redone and the other is pushed to, as a recovery
does (`PushAlike`, `UndoAlike`, `RedoAlike`).

`EditingSessionProofs` proves, for any number of models, accessories and frames, any limit
and any classes of commands, `TypeCorrectness`; and

* `NoteIsTheTransform` and `FrameMoveTakesBackOne`: the note of a transform that is not
  registered is about the last command of the active stack, and a frame move takes back
  that one and nothing else. They assume `PoseSession` (at most one model, and no camera or
  snapshot commands), without which the deviations of section 4 are counterexamples. The
  inductive invariant is `PoseInv == Typed /\ PendingIsTheTransform /\ Posed`; `Posed` says
  which classes of commands each stack holds, so that what an undo uncovers is known.
* `EditingKeepsApart`: model editing changes the editing stack of its model only, as long as
  no model is deleted while it is edited (`~DeleteWhileEditing`).
* `LeavingKeeps`: `LeavingKeepsPlayback`, without further assumptions, for a device that is
  lost or replaced at any moment. What it needs of the states in between is `Away`: unless
  the playback that was left is one a replaced device starts over (`Replaced`), nothing
  plays, the player's two states tell whether there is a playback to go on with, and the
  model it will select is the active one (`PausingRestores`).
* `HistoriesAreKept`: `ImplementsHistories`, without further assumptions. The refinement
  maps each stack to the commands done on it and those undone. A step of the session leaves
  a stack alone, moves its cursor inside its commands, empties it or pushes one command
  (`Evolves`), and each of these is a step of the abstract history; that a stack is well
  formed before (`Typed`) is all it needs, so nothing is assumed of the session.

`RedoLogProofs` proves `TypeCorrectness` and `StacksMatchDocument` for every set of
commands, every limit, every length of the log and every number of crashes: the commands
of a stack differ and those below the cursor, and only those, are in the document, in
normal use and in whatever a recovery makes of whatever log is there. A recovery replays a
"redo" as a push, which is wrong for a command that is already in effect; that it never
happens is a property of the log and not of a state of the project. So the invariant
`Inv == Simple /\ Projects /\ Logged` says, beside the types and the soundness of the
projects, that the log tells a story: there is a history per owner that its records spell,
step by step (`Ran`, `StepOf`), and the project in use is at the end of the history of its
own records (`Own`), or the log was left by an earlier one and nothing more is read of it
after the next magic (`Foreign`). A replayed stack then follows that history in order
(`Follows`), however many records it skips before a save point or because a handle is
unknown, and the copy of the log that a recovery writes is again such a log (`Rising`). That
the recursive function `Replayed` exists is proved by its least counterexample.

It also proves what the recovery from a crash brings back: `DocumentIsRecovered` and
`HistoryIsRecovered` (`RecoversDocument` and `RecoversHistory`), and `CameraIsRecovered`
(`RecoversCamera`). They assume `OneCrash`: there is at most one crash, and none during a
recovery. That is what the properties need and not what the proof needs: a recovery does not
advance the numbers of the records, so the log that goes on after it has numbers twice and a
second recovery skips records (the run `redo_twice`), and an interrupted one finds no log.
`CameraIsRecovered` also assumes that no other project is opened, since that one has no log.

* The log has to say more than in `Inv`: not that some history agrees with the records, but
  that replaying them gives the project. A function of the records cannot be reasoned about
  by induction here; `Rebuilds(rs, k, p, q)` says that some sequence of projects leads from
  `p` to `q` along the records after the first `k`. It holds of no records
  (`RebuildsNothing`), one more record is one more step (`RebuildsMore`), and a recovery that
  replays all records after `k` ends in `q` (`RecoveryRebuilds`).
* `Remembered` is the invariant: until the first crash the records rebuild a project that is
  `Alike` the one in use, and after it one that is alike the lost one, unless a save point or
  a record without type is in the log (`Spoiled`). Alike, not equal: what was undone may be
  missing, because a redo is replayed as a push, and a push drops what is above it. The
  invariant also says why a log that is not spoiled is complete (`Mine`: numbered from 0, with
  nothing of another project in it, and no file to be opened in place of the project).
* `Filmed` is the invariant for a project without models, whatever was saved. The project
  file and the log are written one after the other, so a recovery may start from a file that
  is newer than the last save point. Hence the invariant speaks of any saved document `E`: the
  records after the last save point, replayed on it, give a project that has all of the
  document in use but what was in the saved one and is not in `E` (`Covers`), and whose stack
  is the end of the one in use (`Trails`). A crash between two commands takes for `E` what was
  saved, a crash between the two steps of a save the document itself.

`ProjectSavingProofs` proves the invariants of saving for every set of drawables,
textures and files, every number of saves and every order of failures:

* `TypeCorrectness`;
* `FilesAreCompleteHolds`: a project file is complete, whatever failed or crashed;
* `NoLeftoversHolds`: no temporary file outlives its save (one open at a crash or, on
  Windows, of a failed save excepted, until the next save of that file succeeds) and the process holds exactly its one transient file;
* `FileURIIsTheOriginHolds`: the project is named after the file it was last loaded
  from or saved to, also after a failed "save as";
* `SourcesSurviveHolds` and `SavesEveryTextureHolds`: the entry a texture is read from is
  there until the next save has read it, and a save writes the textures of all drawables.
  They assume `OneKind` (models or accessories, not both): with both, section 4 has a
  counterexample.

The invariant of the first three is `Inv == DiskInv /\ LeftInv /\ NameInv`. None of them is
inductive as it stands, for each speaks of the time between saves: `DiskInv` says in
which phase the temporary file is there and whether it is complete, `LeftInv` counts
the transient files in every phase of a save, and `NameInv` says what the name and the
origin are while a save is under way. `Kept` is the invariant of the textures; that a name
made unique differs from those before it needs the least number not in use (`Least`).

`CapturingPassProofs` proves, for every range, every ratio of frame rates, any number of
reads and listeners:

* `TypeCorrectness`;
* `PassOutlives`: no pass goes away while pixels are read for it. The invariant
  `Inv == Typed /\ ReadsAreOver` adds that every read under way has been counted by the pass
  that is there, in each state in which the pass may be let go of;
* `NoTraceIsLeft`: when the pass of an export that was started once goes away while the
  application runs, the project has the settings and the frame it had when the export was
  requested, and the encoder of a plugin is closed then, also when the application quits (the
  listeners are not part of it). `TraceInv` adds when an export has not been started (`NotStarted`), that what it
  saved are the settings of before (`StartedOnce`), and what is so without a pass (`Absent`);
* `FramesAreInOrder` and `EveryFrameIsWritten`: the frames of a file follow one another with
  none missing or twice, and a video encoded in its draws is finished with all of its range.
  Neither says how the file and the pass are related in between. `FramesInv` is `TraceInv`
  with `StartsOnce` (a dialog that is open leads to one start only) and `Frames`: nothing is
  counted before the start (`Fresh`), the frame is in the range while a video is drawn
  (`InRange`), and the file has come as far as the frame and the step within it say, less
  the reads that are under way in their order (`FileIsAt`).

`KeyframeCommandsProofs` proves `TypeCorrectness` and, for every number of bones, frames and
values, `FirstKeyframeIsKept`: every motion has the first keyframe of every bone, assuming
`0 \notin Columns` (the counterexample is in section 4). The invariant is about every motion
there is or may be again: that of the project, those a snapshot holds, and those of the project
that a recovery would make (`SoundProject`); a command that holds a keyframe at frame 0 updates
it and never takes it away, and a shift is of later frames.

Two more are proved of any number of commands (`MaxPushes \in Nat`), under the same assumption
on `Columns`:

* `UndoIsAlwaysTheInverse`: `UndoIsTheInverse`. A step uses one command, but that it can be
  taken back was settled when it was made and must survive whatever is done before its turn
  comes. `InverseInv` says of every command below the position of its stack that its undo, of
  the motion it left, gives exactly the motion before it (`TakenBack`), and of every one above
  that its redo gives the motion after it (`DoneAgain`). An undo or redo of a shift changes
  what the command holds, so that the other direction is only known after it was done; of the
  other commands both always hold.
* `RecoveryAgrees`: `ReplayAgrees`, until keyframes are moved. A record leaves out the curve
  before, and a redo is replayed as a new command, so the two motions and the two stacks differ
  in what the property does not see. `FollowedInv` says that the keyframes of the motions agree
  (`Agree`), that the commands on the stack of the model follow one another, each starting from
  the motion the last one left, and that what is replayed for each makes and takes back the
  same keyframes (`Followed`).

The proofs use the assumptions of the modules on their constants, and the hypotheses that the
theorems state, and nothing else.

Every safety property the runs check is stated by a theorem. Only model-checked are the
liveness properties (`PlaybackEnds`, `ExportEnds`), which are out of the prover's reach, and the
findings, which are counterexamples (`RecoveryEnds` is one). Where a theorem has a hypothesis
on the constants, the run of its property has it too, and a run or section 4 shows what goes
wrong without it.

## 6. Not modelled

* The commands on the keyframes of models, morphs, camera, light, self shadow and
  accessories: each follows the pattern of the bone keyframes in `KeyframeCommands`, with
  fewer cases (no curve is adjusted for them). Scaling and pasting of keyframes.
* The bytes of a redo record, a crash in the middle of one, and a crash between a
  command and its record: data below the granularity of the model.
* Cancelling a recovery, which rolls back the copy of the log: the dialog that could is
  only shown after it.
* The clock (but for whether it runs), samples and threads of the audio players: the frame
  a playback has reached is any later one (`AdvancePlaying`).
* The publisher of progress and its cancellation (`Progress.cc`), the cursor states
  (`StateController.cc`, `internal/Dragging*State.cc`) and the stack of modal dialogs: state machines that could be
  modelled; they are in the plan. What they lead to (a push, a play, an answer of the user)
  is an action of the modules there are.
* Poses, keyframe contents, rendering, physics, effects, images and archives: data
  the properties do not tell apart, or floating point.
* The formats (`nanoem.c`, `ext/document.c`): parsers without state between calls.
* Platform layers, user interface, plugins: they call what is modelled.
* Vendored libraries and generated code.

Most lines of the repository are of the last four kinds: vendored and generated sources,
rendering, file formats, dialogs. They have no protocol between calls that a model could
check, so that the modelled part stays a small share of all lines, although it is most
of what decides on the order of operations.
