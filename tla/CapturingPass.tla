---------------------------- MODULE CapturingPass ----------------------------
(* The export of an image or a video: the pass the application service keeps  *)
(* while it exports (internal::CapturingPassState and its two subclasses),    *)
(* the settings of the project it borrows, and the encoder it writes to.     *)
(*                                                                         *)
(* Three parties act on a pass: the user, through the dialogs of the service *)
(* and the save panel of the client; the thread of the service, which draws, *)
(* captures one frame per draw and destroys the pass; and, where the graphics*)
(* backend reads pixels asynchronously, the thread that completes a read and *)
(* encodes its frame.                                                       *)
EXTENDS Integers, Sequences

CONSTANTS
  Outputs,       \* what may be exported: a subset of AllOutputs
  LastFrame,     \* the duration of the project in motion frames
  Steps,         \* video frames per motion frame (60 FPS over 30)
  MaxReads,      \* bound: asynchronous reads under way at once
  MaxListeners   \* bound: requests the client still waits for an answer to

Plugins == {"plugin", "asyncPlugin"}
Recorders == {"recorder", "deferredRecorder"}
AllOutputs == {"image"} \union Plugins \union Recorders

ASSUME OutputsAssumption == Outputs \subseteq AllOutputs
ASSUME FramesAssumption == LastFrame \in Nat /\ Steps \in Nat \ {0}
ASSUME BoundsAssumption == MaxReads \in Nat /\ MaxListeners \in Nat

VARIABLES
  app,     \* the application: running, quitting or crashed
  ui,      \* the modal dialog shown, listeners of the client, open save panels
  view,    \* the project's viewport settings and its current frame
  pass,    \* m_capturingPassState
  thread,  \* the service thread: where it is, and a state it waits to set
  reads,   \* the asynchronous reads under way, oldest first
  sink     \* the encoder or recorder, and the frames in its file

vars == <<app, ui, view, pass, thread, reads, sink>>

Working == {"initialized", "configured", "ready", "blitted"}
\* The states at or above kFinished.
Ended == {"finished", "cancelled", "destroyReady", "restored", "destroyed"}
States == {"absent", "none"} \union Working \union Ended

View == [settings : {"editor", "export", "unset"}, frame : 0..LastFrame]

\* The fields of a pass nobody has saved to are zero.
Unset == [settings |-> "unset", frame |-> 0]

\* origin and starts are for the properties: the view the pass was made in,
\* and how often it was started.
NoPass ==
  [state |-> "absent", output |-> "image", from |-> 0, to |-> LastFrame,
   saved |-> Unset, kept |-> FALSE, blits |-> 0, amount |-> 0, last |-> -1,
   plugin |-> FALSE, origin |-> Unset, starts |-> 0]

NewPass(o) ==
  [NoPass EXCEPT !.state = "none", !.output = o, !.origin = view]

Exists == pass.state # "absent"

Init ==
  /\ app = "running"
  /\ ui = [dialog |-> "none", listeners |-> 0, panels |-> 0]
  /\ view = [settings |-> "editor", frame |-> 0]
  /\ pass = NoPass
  /\ thread = [at |-> "idle", next |-> "none"]
  /\ reads = <<>>
  /\ sink = [state |-> "closed", file |-> <<>>]

Idle == app = "running" /\ thread.at = "idle" /\ thread.next = "none"

\* m_mutex is held while a completed read is being encoded.
MutexIsFree == \A i \in 1..Len(reads) : reads[i].stage # "encoding"

-----------------------------------------------------------------------------
(* The requests of the user *)

\* The menus are disabled while a modal dialog or a save panel is shown.
MenuIsEnabled ==
  /\ Idle
  /\ ui.dialog = "none" /\ ui.panels = 0
  /\ pass.state \in {"absent", "none"}

\* REQUEST_EXPORT_IMAGE_CONFIGURATION: a request is refused while a model has
\* an unregistered pose, and leaves the listener of the client in place. The
\* pass that was there is deleted as it is.
RequestImage ==
  /\ MenuIsEnabled
  /\ ui.listeners < MaxListeners
  /\ "image" \in Outputs
  /\ \/ /\ ui' = [ui EXCEPT !.listeners = @ + 1]
        /\ UNCHANGED pass
     \/ /\ ui' = [ui EXCEPT !.listeners = @ + 1, !.dialog = "config"]
        /\ pass' = NewPass("image")
  /\ UNCHANGED <<app, view, thread, reads, sink>>

\* REQUEST_EXPORT_VIDEO_CONFIGURATION: never refused.
RequestVideo ==
  /\ MenuIsEnabled
  /\ \E o \in Outputs \ {"image"} : pass' = NewPass(o)
  /\ ui' = [ui EXCEPT !.dialog = "config"]
  /\ UNCHANGED <<app, view, thread, reads, sink>>

\* OK of the dialog: the configuration is complete, and every listener of the
\* client opens a save panel. A recorder takes no range of its own.
AcceptConfiguration ==
  /\ Idle
  /\ ui.dialog = "config"
  /\ IF pass.output = "image"
       THEN /\ \E f \in 0..LastFrame : pass' = [pass EXCEPT !.from = f]
            /\ ui' = [dialog |-> "none", listeners |-> 0,
                      panels |-> ui.panels + ui.listeners]
       ELSE /\ \E f \in 0..LastFrame : \E t \in f..LastFrame :
                 pass' = IF pass.output \in Plugins
                           THEN [pass EXCEPT !.from = f, !.to = t, !.plugin = TRUE]
                           ELSE pass
            /\ ui' = [ui EXCEPT !.dialog = "none", !.panels = @ + 1]
  /\ UNCHANGED <<app, view, thread, reads, sink>>

\* EXECUTE with an empty path, or a capture that cannot start or has ended:
\* the thread of the service turns to the destruction of the pass.
Destroying == thread' = [thread EXCEPT !.at = "destroying"]

\* Cancel of the dialog: the clients of macOS and of the user interface's own
\* menu answer with an empty path, the one of Windows with nothing.
CancelConfiguration ==
  /\ Idle
  /\ ui.dialog = "config"
  /\ ui' = [ui EXCEPT !.dialog = "none",
                      !.listeners = IF pass.output = "image" THEN 0 ELSE @]
  /\ Destroying \/ UNCHANGED thread
  /\ UNCHANGED <<app, view, pass, reads, sink>>

\* CapturingPassState::save: the project's settings are noted, and those of
\* the export take their place.
Saved(p) == [p EXCEPT !.saved = view, !.kept = TRUE, !.starts = @ + 1]

\* Mutant of StartCapture: the export starts at the frame the project shows.
StartCaptureAnywhere(opens) ==
  /\ view' = [view EXCEPT !.settings = "export"]
  /\ pass' = [Saved(pass) EXCEPT !.state = IF opens THEN "initialized"
                                                     ELSE "cancelled"]
  /\ IF opens THEN UNCHANGED thread ELSE Destroying
  /\ sink' = IF pass.output # "image" /\ opens
               THEN [state |-> "open", file |-> <<>>]
               ELSE [sink EXCEPT !.file = <<>>]

\* EXECUTE_EXPORTING_IMAGE and _VIDEO with a path: save, then start, which
\* opens the encoder.
StartCapture(opens) ==
  /\ view' = [settings |-> "export", frame |-> pass.from]
  /\ pass' = [Saved(pass) EXCEPT !.state = IF opens THEN "initialized"
                                                     ELSE "cancelled"]
  /\ IF opens
       THEN UNCHANGED thread
       ELSE Destroying
  /\ sink' = IF pass.output # "image" /\ opens
               THEN [state |-> "open", file |-> <<>>]
               ELSE [sink EXCEPT !.file = <<>>]

\* The user chooses a path in a save panel; without a pass it is ignored.
ChoosePath ==
  /\ Idle
  /\ ui.panels > 0
  /\ \E opens \in BOOLEAN :
       IF Exists
         THEN /\ pass.output = "image" => opens
              /\ StartCapture(opens)
              /\ ui' = [ui EXCEPT !.panels = @ - 1,
                                  !.dialog = IF opens THEN "progress" ELSE @]
         ELSE /\ ui' = [ui EXCEPT !.panels = @ - 1]
              /\ UNCHANGED <<view, pass, thread, sink>>
  /\ UNCHANGED <<app, reads>>

\* The user cancels a save panel: again an empty path, or nothing.
CancelPanel ==
  /\ Idle
  /\ ui.panels > 0
  /\ ui' = [ui EXCEPT !.panels = @ - 1]
  /\ (Exists /\ Destroying) \/ UNCHANGED thread
  /\ UNCHANGED <<app, view, pass, reads, sink>>

-----------------------------------------------------------------------------
(* Drawing: at most one step of the capture per draw *)

\* CapturingPassState::capture returns whether the pass has ended, in which
\* case the same draw stops the capture.
Drawing == Idle /\ Exists /\ MutexIsFree

Captured(p) ==
  /\ pass' = p
  /\ thread' = [thread EXCEPT !.at = IF p.state \in Ended THEN "destroying"
                                                          ELSE "idle"]

\* prepareCapturingViewport, first draw: the viewport gets the output's size.
ConfigureViewport ==
  /\ Drawing
  /\ pass.state = "initialized"
  /\ Captured([pass EXCEPT !.state = "configured"])
  /\ UNCHANGED <<app, ui, view, reads, sink>>

IsReady == pass.state \in {"configured", "ready"}

\* canBlitTransition: TRUE from the third call on; the count stays at 3 here.
Blitted(p) ==
  [p EXCEPT !.blits = IF @ < 3 THEN @ + 1 ELSE @,
            !.state = IF p.blits >= 2 THEN "blitted" ELSE "ready"]

\* A few draws go by before the first frame is taken. A video is ready and
\* counts from the draw that configured it, an image from the next one.
WarmUp ==
  /\ Drawing
  /\ IsReady
  /\ pass.output \in {"image"} \union Plugins
  /\ Captured(IF pass.output = "image" /\ pass.state = "configured"
                THEN [pass EXCEPT !.state = "ready"]
                ELSE Blitted(pass))
  /\ UNCHANGED <<app, ui, view, reads, sink>>

\* The image is read, converted and written, or fails to be.
CaptureImage ==
  /\ Drawing
  /\ pass.output = "image" /\ pass.state = "blitted"
  /\ sink' \in {sink, [sink EXCEPT !.file = <<view.frame>>]}
  /\ Captured([pass EXCEPT !.state = "finished"])
  /\ UNCHANGED <<app, ui, view, reads>>

\* The presentation time of the frame shown, in video frames from the start.
VideoPTS == (view.frame - pass.from) * Steps + pass.amount

\* Mutant of NextFrame: the next motion frame begins with the amount of the last one.
NextFrameUncarried ==
  [frame |-> IF pass.amount + 1 = Steps THEN view.frame + 1 ELSE view.frame,
   amount |-> pass.amount + 1]

\* calculateFrameIndex: the position of the next video frame.
NextFrame ==
  IF pass.amount + 1 = Steps
    THEN [frame |-> view.frame + 1, amount |-> 0]
    ELSE [frame |-> view.frame, amount |-> pass.amount + 1]

\* Mutant of IsPastEnd: the last frame is taken for the end.
IsAtEnd == NextFrame.frame >= pass.to

IsPastEnd == NextFrame.frame > pass.to

\* seekAndProgress: past the range the pass is finished, else the project is
\* moved to the next video frame; s is the state without that.
SeekAndProgress(p, s) ==
  /\ Captured([p EXCEPT !.amount = NextFrame.amount,
                        !.state = IF IsPastEnd THEN "finished" ELSE s])
  /\ view' = [view EXCEPT !.frame = IF IsPastEnd THEN @ ELSE NextFrame.frame]

\* The guard of encodeVideoFrame.
CanEncode(pts) == pass.plugin /\ (pass.last = -1 \/ pts > pass.last)

Written(pts) == [sink EXCEPT !.file = Append(@, pts)]

\* handleCaptureViaEncoderPlugin where pixels are read at once.
CaptureAndEncode ==
  /\ Drawing
  /\ pass.output = "plugin" /\ pass.state = "blitted"
  /\ IF CanEncode(VideoPTS)
       THEN \/ /\ sink' = Written(VideoPTS)
               /\ SeekAndProgress([pass EXCEPT !.last = VideoPTS], "blitted")
            \/ /\ sink' = [sink EXCEPT !.state = "failed"]
               /\ SeekAndProgress([pass EXCEPT !.last = VideoPTS], "cancelled")
       ELSE SeekAndProgress(pass, "blitted") /\ UNCHANGED sink
  /\ UNCHANGED <<app, ui, reads>>

\* The same where they are read asynchronously: the read is handed to the
\* graphics device, and the project moves on.
CaptureAsync ==
  /\ Drawing
  /\ pass.output = "asyncPlugin" /\ pass.state = "blitted"
  /\ Len(reads) < MaxReads
  /\ reads' = Append(reads, [pts |-> VideoPTS, stage |-> "submitted"])
  /\ SeekAndProgress(pass, "blitted")
  /\ UNCHANGED <<app, ui, sink>>

\* handleCaptureViaVideoRecorder. A deferred recorder (D3D11, Metal) accepts a
\* frame before it encodes it, which it does when the draw's commands are
\* flushed: after the end of the range has closed its file, or while its writer
\* takes no more data. No recorder is ever asked to cancel, so none is cancelled.
RecordFrame ==
  /\ Drawing
  /\ pass.output \in Recorders /\ IsReady
  /\ sink.state = "open"
  /\ \E takes, finishes \in BOOLEAN :
       LET dropped == pass.output = "deferredRecorder" /\ (IsPastEnd \/ ~takes)
           out == IF dropped THEN sink ELSE Written(VideoPTS)
       IN /\ sink' = IF IsPastEnd THEN [out EXCEPT !.state = "closed"] ELSE out
          /\ IF IsPastEnd /\ ~finishes
               THEN /\ Captured([pass EXCEPT !.state = "cancelled"])
                    /\ UNCHANGED view
               ELSE SeekAndProgress(pass, "ready")
          /\ ui' = [ui EXCEPT !.dialog =
                      IF IsPastEnd /\ finishes THEN "none" ELSE @]
  /\ UNCHANGED <<app, reads>>

\* A recorder that is not started or not ready is asked again at the next draw.
RecorderNotReady ==
  /\ Drawing
  /\ pass.output \in Recorders
  /\ pass.state = "configured"
  /\ Captured([pass EXCEPT !.state = "ready"])
  /\ UNCHANGED <<app, ui, view, reads, sink>>

\* A writer of the system that meets an error is no longer started: nothing
\* is captured any more, and nothing ends the export.
RecorderFails ==
  /\ pass.output \in Recorders
  /\ sink.state = "open" /\ pass.state \in Working
  /\ app # "crashed"
  /\ sink' = [sink EXCEPT !.state = "failed"]
  /\ UNCHANGED <<app, ui, view, pass, thread, reads>>

\* A pass that was cancelled is stopped by the next draw.
StopCapture ==
  /\ Drawing
  /\ pass.state \in Ended
  /\ Destroying
  /\ UNCHANGED <<app, ui, view, pass, reads, sink>>

Draw ==
  \/ ConfigureViewport
  \/ WarmUp
  \/ CaptureImage
  \/ CaptureAndEncode
  \/ CaptureAsync
  \/ RecordFrame
  \/ RecorderNotReady
  \/ StopCapture

-----------------------------------------------------------------------------
(* The completion of an asynchronous read, on another thread *)

\* stopEncoding: whoever takes the plugin's pointer closes its encoder. The
\* state it sets, finished, is replaced by its caller, on the same thread, before
\* any other thread reads it.
StoppedPass == [pass EXCEPT !.plugin = FALSE]
StoppedSink == IF pass.plugin THEN [sink EXCEPT !.state = "closed"] ELSE sink

\* Mutant of BeginRead: a read whose frame is not encoded stays under way.
BeginReadKeepingSkipped ==
  /\ app # "crashed" /\ reads # <<>>
  /\ Head(reads).stage = "submitted"
  /\ CanEncode(Head(reads).pts)
  /\ reads' = [reads EXCEPT ![1].stage = "encoding"]
  /\ UNCHANGED <<app, ui, view, pass, thread, sink>>

\* The handler takes the mutex and asks whether the frame is to be encoded; a
\* frame that is not only ends the read.
BeginRead ==
  /\ app # "crashed" /\ reads # <<>>
  /\ Head(reads).stage = "submitted"
  /\ reads' = IF CanEncode(Head(reads).pts)
                THEN [reads EXCEPT ![1].stage = "encoding"]
                ELSE Tail(reads)
  /\ UNCHANGED <<app, ui, view, pass, thread, sink>>

\* The handler is given fewer or more bytes than a frame has: the encoder is
\* stopped and the pass cancelled, whether or not the frame was to be encoded.
RejectRead ==
  /\ app # "crashed" /\ reads # <<>>
  /\ Head(reads).stage = "submitted"
  /\ sink' = StoppedSink
  /\ pass' = [StoppedPass EXCEPT !.state = "cancelled"]
  /\ reads' = Tail(reads)
  /\ UNCHANGED <<app, ui, view, thread>>

\* The frame is encoded by the plugin the handler saw. Nothing keeps the thread
\* of the service from closing that encoder first: the handler then encodes to
\* a closed one, which may refuse, or reads the pointer again and crashes. An
\* encoder that fails is stopped and the pass cancelled, whatever its state.
EncodeRead ==
  /\ app # "crashed" /\ reads # <<>>
  /\ Head(reads).stage = "encoding"
  /\ LET pts == Head(reads).pts
         seen == [pass EXCEPT !.last = pts]
     IN \/ /\ sink' = IF pass.plugin THEN Written(pts) ELSE sink
           /\ pass' = seen
           /\ reads' = Tail(reads)
           /\ UNCHANGED app
        \/ /\ sink' = StoppedSink
           /\ pass' = [seen EXCEPT !.plugin = FALSE, !.state = "cancelled"]
           /\ reads' = Tail(reads)
           /\ UNCHANGED app
        \/ /\ ~pass.plugin
           /\ app' = "crashed"
           /\ UNCHANGED <<pass, reads, sink>>
  /\ UNCHANGED <<ui, view, thread>>

-----------------------------------------------------------------------------
(* Cancelling and destroying the pass *)

\* setStateTransition waits for the mutex.
SetState ==
  /\ app # "crashed"
  /\ thread.next # "none" /\ MutexIsFree
  /\ pass' = [pass EXCEPT !.state = thread.next]
  /\ thread' = [thread EXCEPT !.next = "none"]
  /\ UNCHANGED <<app, ui, view, reads, sink>>

\* cancel of either subclass: only a video has an encoder to stop.
Cancelling(at) ==
  /\ pass' = StoppedPass
  /\ sink' = StoppedSink
  /\ thread' = [at |-> at, next |-> "cancelled"]

\* Cancel of the progress dialog.
CancelCapture ==
  /\ Idle
  /\ ui.dialog = "progress"
  /\ Cancelling("idle")
  /\ ui' = [ui EXCEPT !.dialog = "none"]
  /\ UNCHANGED <<app, view, reads>>

\* The application quits: its pass is destroyed without a project to restore.
Quit ==
  /\ Idle
  /\ app' = "quitting"
  /\ IF Exists THEN Destroying ELSE UNCHANGED thread
  /\ UNCHANGED <<ui, view, pass, reads, sink>>

\* Mutant of Restored: the settings are given back, the frame is not.
RestoredSettings ==
  IF app # "quitting" /\ pass.kept
    THEN [view EXCEPT !.settings = pass.saved.settings]
    ELSE view

\* CapturingPassState::restore: an image's settings come back even when they
\* were never saved, a video's only if they were.
Restored ==
  IF app = "quitting" THEN view
  ELSE IF pass.kept THEN pass.saved
  ELSE IF pass.output = "image" THEN [view EXCEPT !.settings = pass.saved.settings]
  ELSE view

\* One turn of the loop over transitDestruction, which reads the state without
\* the mutex and sets the next one with it.
Turn(s) ==
  /\ app # "crashed"
  /\ thread.at = "destroying" /\ thread.next = "none"
  /\ pass.state \in s

TurnWorking ==
  /\ Turn(Working)
  /\ Cancelling("destroying")
  /\ UNCHANGED <<app, ui, view, reads>>

TurnEnded ==
  /\ Turn({"none", "finished", "cancelled"})
  /\ thread' = [thread EXCEPT !.next = "destroyReady"]
  /\ UNCHANGED <<app, ui, view, pass, reads, sink>>

TurnDestroyReady ==
  /\ Turn({"destroyReady"})
  /\ view' = Restored
  /\ IF pass.kept /\ pass.output # "image"
       THEN /\ sink' = StoppedSink
            /\ pass' = [StoppedPass EXCEPT !.kept = (app = "quitting")]
       ELSE /\ pass' = [pass EXCEPT !.kept = @ /\ app = "quitting"]
            /\ UNCHANGED sink
  /\ thread' = [thread EXCEPT !.next = "restored"]
  /\ UNCHANGED <<app, ui, reads>>

\* Mutant of TurnRestored: the pass does not wait for its reads.
TurnRestoredAtOnce ==
  /\ Turn({"restored"})
  /\ thread' = [thread EXCEPT !.next = "destroyed"]
  /\ UNCHANGED <<app, ui, view, pass, reads, sink>>

\* m_asyncCount counts the reads whose handler has not been deleted.
TurnRestored ==
  /\ Turn({"restored"})
  /\ reads = <<>>
  /\ thread' = [thread EXCEPT !.next = "destroyed"]
  /\ UNCHANGED <<app, ui, view, pass, reads, sink>>

TurnDestroyed ==
  /\ Turn({"destroyed"})
  /\ pass' = NoPass
  /\ ui' = [ui EXCEPT !.dialog = "none"]
  /\ thread' = [thread EXCEPT !.at = "idle"]
  /\ UNCHANGED <<app, view, reads, sink>>

TransitDestruction ==
  \/ TurnWorking
  \/ TurnEnded
  \/ TurnDestroyReady
  \/ TurnRestored
  \/ TurnDestroyed

Next ==
  \/ RequestImage
  \/ RequestVideo
  \/ AcceptConfiguration
  \/ CancelConfiguration
  \/ ChoosePath
  \/ CancelPanel
  \/ Draw
  \/ RecorderFails
  \/ BeginRead
  \/ RejectRead
  \/ EncodeRead
  \/ SetState
  \/ CancelCapture
  \/ Quit
  \/ TransitDestruction

Spec == Init /\ [][Next]_vars

\* The window is drawn over and over, a read is completed and encoded in the
\* end, and the thread of the service goes on.
Fairness ==
  /\ WF_vars(Draw)
  /\ WF_vars(BeginRead)
  /\ WF_vars(EncodeRead)
  /\ WF_vars(SetState)
  /\ WF_vars(TransitDestruction)

FairSpec == Spec /\ Fairness

-----------------------------------------------------------------------------
(* Correctness *)

\* Every variable keeps its type; amounts and frames stay in range.
TypeOK ==
  /\ app \in {"running", "quitting", "crashed"}
  /\ ui \in [dialog : {"none", "config", "progress"}, listeners : Nat, panels : Nat]
  /\ view \in View
  /\ pass \in [state : States, output : AllOutputs,
               from : 0..LastFrame, to : 0..LastFrame,
               saved : View, kept : BOOLEAN, blits : 0..3,
               amount : 0..(Steps - 1), last : Int, plugin : BOOLEAN,
               origin : View, starts : Nat]
  /\ thread \in [at : {"idle", "destroying"},
                 next : {"none", "cancelled", "destroyReady", "restored", "destroyed"}]
  /\ reads \in Seq([pts : Int, stage : {"submitted", "encoding"}])
  /\ sink \in [state : {"closed", "open", "failed"}, file : Seq(Int)]

\* A pass is not deleted while a read still refers to it, whatever the
\* completion of the reads and the destruction of the pass do to its state.
PassOutlivesItsReads == reads # <<>> => Exists

\* The frames of a file follow one another from the start of the range without
\* one missing before another, out of order or twice; a deferred recorder may
\* miss some, but keeps their order.
FramesInOrder ==
  (pass.output # "image" /\ pass.starts = 1) =>
    \A i \in 1..Len(sink.file) :
      IF pass.output = "deferredRecorder"
        THEN i > 1 => sink.file[i - 1] < sink.file[i]
        ELSE sink.file[i] = i - 1

WholeRange == (pass.to - pass.from + 1) * Steps

\* A video that is read and encoded in the draw itself ends with every frame
\* of its range in the file, the last one included, unless encoding it failed.
WholeRangeIsWritten ==
  [][(/\ pass.output \in {"plugin", "recorder"}
      /\ pass.state # "finished" /\ pass'.state = "finished"
      /\ sink'.state # "failed")
     => Len(sink'.file) = WholeRange]_vars

\* An export that was started once gives the project back the settings and the
\* frame it had, whether it finished, was cancelled or failed; and the encoder
\* of a plugin is closed then, also when the application quits.
ExportLeavesNoTrace ==
  [][(Exists /\ pass'.state = "absent" /\ pass.starts = 1)
     => /\ app = "running" => view' = pass.origin
        /\ pass.output \in Plugins => sink'.state # "open"]_vars

\* An export that has begun ends, unless the writer of the system fails or the
\* application crashes.
ExportEnds ==
  pass.state = "initialized"
    ~> (pass.state = "absent" \/ app = "crashed"
          \/ (pass.output \in Recorders /\ sink.state = "failed"))
=============================================================================
