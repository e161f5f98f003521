------------------------- MODULE CapturingPassProofs -------------------------
(***************************************************************************)
(* What an export keeps for any outputs, ranges, rates and numbers of reads *)
(* under way.                                                              *)
(*                                                                         *)
(* That a pass outlives its reads is not inductive: a pass is deleted when  *)
(* its state is destroyed, which is set some time after the reads were      *)
(* counted, and a failing read may set another state in between.           *)
(***************************************************************************)
EXTENDS CapturingPass, SequenceTheorems, TLAPS

Read == [pts : Int, stage : {"submitted", "encoding"}]
PassType ==
  [state : States, output : AllOutputs, from : 0..LastFrame, to : 0..LastFrame,
   saved : View, kept : BOOLEAN, blits : 0..3, amount : 0..(Steps - 1), last : Int,
   plugin : BOOLEAN, origin : View, starts : Nat]
SinkType == [state : {"closed", "open", "failed"}, file : Seq(Int)]
UiType == [dialog : {"none", "config", "progress"}, listeners : Nat, panels : Nat]
ThreadType ==
  [at : {"idle", "destroying"},
   next : {"none", "cancelled", "destroyReady", "restored", "destroyed"}]

Typed ==
  /\ app \in {"running", "quitting", "crashed"}
  /\ ui \in UiType
  /\ view \in View
  /\ pass \in PassType
  /\ thread \in ThreadType
  /\ reads \in Seq(Read)
  /\ sink \in SinkType

(* No read is under way where a pass is not started, is or is about to be   *)
(* destroyed.                                                              *)
ReadsAreOver ==
  /\ pass.state \in {"absent", "none", "destroyed"} => reads = <<>>
  /\ thread.next = "destroyed" => reads = <<>>

Inv == Typed /\ ReadsAreOver

-----------------------------------------------------------------------------
LEMMA Numbers ==
  /\ LastFrame \in Nat /\ Steps \in Nat \ {0} /\ 0 \in 0..LastFrame /\ 0 \in 0..(Steps - 1)
  /\ LastFrame \in 0..LastFrame
BY FramesAssumption

LEMMA StateNames ==
  /\ Working \subseteq States /\ Ended \subseteq States
  /\ {"absent", "none", "initialized", "configured", "ready", "blitted", "finished",
      "cancelled", "destroyReady", "restored", "destroyed"} = States
BY DEF States, Working, Ended

LEMMA OutputNames == Outputs \subseteq AllOutputs /\ "image" \in AllOutputs
BY OutputsAssumption DEF AllOutputs

LEMMA NoPassIsTyped == NoPass \in PassType
BY Numbers, StateNames, OutputNames DEF NoPass, PassType, Unset, View

LEMMA NewPassIsTyped ==
  ASSUME Typed, NEW o \in AllOutputs
  PROVE  NewPass(o) \in PassType /\ NewPass(o).state = "none"
<1>1. NoPass \in PassType /\ view \in View
  BY NoPassIsTyped DEF Typed
<1>2. "none" \in States
  BY StateNames
<1> QED BY <1>1, <1>2 DEF NewPass, PassType

(* A frame further: inside the range the project shows a frame of it.       *)
LEMMA ProgressIsTyped ==
  ASSUME Typed, NEW p \in PassType, NEW s \in States, p.to = pass.to,
         SeekAndProgress(p, s)
  PROVE  /\ pass' \in PassType /\ pass'.state \in {s, "finished"}
         /\ view' \in View /\ thread' \in ThreadType /\ thread'.next = thread.next
<1>1. /\ pass.amount \in 0..(Steps - 1) /\ view.frame \in 0..LastFrame
      /\ pass.to \in 0..LastFrame /\ view.settings \in {"editor", "export", "unset"}
  BY DEF Typed, PassType, View
<1>2. NextFrame.amount \in 0..(Steps - 1) /\ NextFrame.frame \in Nat
  BY <1>1, Numbers DEF NextFrame
<1>3. ~IsPastEnd => NextFrame.frame \in 0..LastFrame
  BY <1>1, <1>2, Numbers DEF IsPastEnd
<1>4. view' \in View
  BY <1>1, <1>3 DEF SeekAndProgress, View, Typed
<1>5. "finished" \in States
  BY StateNames
<1>6. /\ pass' = [p EXCEPT !.amount = NextFrame.amount,
                           !.state = IF IsPastEnd THEN "finished" ELSE s]
      /\ thread' = [thread EXCEPT !.at = IF pass'.state \in Ended THEN "destroying" ELSE "idle"]
  BY DEF SeekAndProgress, Captured
<1>7. pass' \in PassType /\ pass'.state \in {s, "finished"}
  BY <1>2, <1>5, <1>6 DEF PassType
<1>8. thread' \in ThreadType /\ thread'.next = thread.next
  BY <1>6 DEF Typed, ThreadType
<1> QED BY <1>4, <1>7, <1>8

LEMMA CapturedIsTyped ==
  ASSUME Typed, NEW p \in PassType, Captured(p)
  PROVE  pass' = p /\ thread' \in ThreadType /\ thread'.next = thread.next
BY DEF Captured, Typed, ThreadType

LEMMA ThreadIsTyped ==
  ASSUME Typed
  PROVE  /\ Destroying => thread' \in ThreadType /\ thread'.next = thread.next
         /\ \A n \in {"none", "cancelled", "destroyReady", "restored", "destroyed"} :
              [thread EXCEPT !.next = n] \in ThreadType
         /\ [thread EXCEPT !.at = "idle"] \in ThreadType
BY DEF Typed, ThreadType, Destroying

LEMMA StoppedIsTyped ==
  ASSUME Typed
  PROVE  StoppedPass \in PassType /\ StoppedSink \in SinkType
         /\ StoppedPass.state = pass.state
BY DEF Typed, PassType, SinkType, StoppedPass, StoppedSink

LEMMA WrittenIsTyped ==
  ASSUME Typed, NEW pts \in Int PROVE Written(pts) \in SinkType
<1>1. sink \in SinkType /\ Append(sink.file, pts) \in Seq(Int)
  BY DEF Typed, SinkType
<1> QED BY <1>1 DEF SinkType, Written

LEMMA PTSIsTyped == ASSUME Typed PROVE VideoPTS \in Int
<1>1. /\ view.frame \in Int /\ pass.from \in Int /\ pass.amount \in Int /\ Steps \in Int
  BY Numbers DEF Typed, View, PassType
<1> QED BY <1>1 DEF VideoPTS

LEMMA UiIsTyped ==
  ASSUME NEW u \in UiType, NEW d \in {"none", "config", "progress"}, NEW l \in Nat, NEW p \in Nat
  PROVE  /\ u.dialog \in {"none", "config", "progress"} /\ u.listeners \in Nat /\ u.panels \in Nat
         /\ [u EXCEPT !.dialog = d] \in UiType
         /\ [u EXCEPT !.listeners = l] \in UiType
         /\ [u EXCEPT !.listeners = l, !.dialog = d] \in UiType
         /\ [u EXCEPT !.dialog = d, !.listeners = l] \in UiType
         /\ [u EXCEPT !.panels = p] \in UiType
         /\ [u EXCEPT !.panels = p, !.dialog = d] \in UiType
         /\ [u EXCEPT !.dialog = d, !.panels = p] \in UiType
         /\ [dialog |-> d, listeners |-> l, panels |-> p] \in UiType
BY DEF UiType

(* What is added to the counts of listeners and panels, or taken from them. *)
LEMMA UiCounts ==
  ASSUME Typed
  PROVE  /\ ui \in UiType /\ ui.dialog \in {"none", "config", "progress"}
         /\ ui.listeners \in Nat /\ ui.panels \in Nat
         /\ ui.listeners + 1 \in Nat /\ ui.panels + 1 \in Nat
         /\ ui.panels + ui.listeners \in Nat
         /\ ui.panels > 0 => ui.panels - 1 \in Nat
         /\ 0 \in Nat
<1>1. ui \in UiType
  BY DEF Typed
<1>2. ui.listeners \in Nat /\ ui.panels \in Nat /\ ui.dialog \in {"none", "config", "progress"}
  BY <1>1 DEF UiType
<1> QED BY <1>1, <1>2

-----------------------------------------------------------------------------
(* The user's actions.                                                      *)

LEMMA RequestKeepsInv == ASSUME Inv, RequestImage \/ RequestVideo PROVE Inv'
<1>1. MenuIsEnabled /\ reads = <<>>
  BY DEF RequestImage, RequestVideo, MenuIsEnabled, Inv, ReadsAreOver
<1>2. ui' \in UiType
  <2>1. CASE RequestImage
    <3>1. \/ ui' = [ui EXCEPT !.listeners = ui.listeners + 1]
          \/ ui' = [ui EXCEPT !.listeners = ui.listeners + 1, !.dialog = "config"]
      BY <2>1, Zenon DEF RequestImage
    <3>2. ui \in UiType /\ ui.listeners + 1 \in Nat
      BY UiCounts DEF Inv
    <3> QED BY <3>1, <3>2 DEF UiType
  <2>2. CASE RequestVideo
    <3>1. ui' = [ui EXCEPT !.dialog = "config"]
      BY <2>2, Zenon DEF RequestVideo
    <3> QED BY <3>1, UiCounts DEF Inv, UiType
  <2> QED BY <2>1, <2>2
<1>3. pass' = pass \/ \E o \in AllOutputs : pass' = NewPass(o)
  BY OutputNames DEF RequestImage, RequestVideo
<1>4. pass' \in PassType
  BY <1>3, NewPassIsTyped DEF Inv, Typed
<1>5. UNCHANGED <<app, view, thread, reads, sink>>
  BY DEF RequestImage, RequestVideo
<1> QED BY <1>1, <1>2, <1>4, <1>5 DEF Inv, Typed, ReadsAreOver

LEMMA AcceptKeepsInv == ASSUME Inv, AcceptConfiguration PROVE Inv'
<1>1. ui' \in UiType
  <2>1. CASE pass.output = "image"
    <3>1. ui' = [dialog |-> "none", listeners |-> 0, panels |-> ui.panels + ui.listeners]
      BY <2>1, Zenon DEF AcceptConfiguration
    <3> QED BY <3>1, UiCounts, UiIsTyped DEF Inv
  <2>2. CASE pass.output # "image"
    <3>1. ui' = [ui EXCEPT !.dialog = "none", !.panels = ui.panels + 1]
      BY <2>2, Zenon DEF AcceptConfiguration
    <3> QED BY <3>1, UiCounts, UiIsTyped DEF Inv
  <2> QED BY <2>1, <2>2
<1>2. pass' \in PassType /\ pass'.state = pass.state
  <2>1. pass \in PassType
    BY DEF Inv, Typed
  <2>2. CASE pass.output = "image"
    <3>1. PICK f \in 0..LastFrame : pass' = [pass EXCEPT !.from = f]
      BY <2>2 DEF AcceptConfiguration
    <3> QED BY <2>1, <3>1 DEF PassType
  <2>3. CASE pass.output # "image"
    <3>1. PICK f \in 0..LastFrame : \E t \in f..LastFrame :
            pass' = IF pass.output \in Plugins
                      THEN [pass EXCEPT !.from = f, !.to = t, !.plugin = TRUE] ELSE pass
      BY <2>3 DEF AcceptConfiguration
    <3>2. PICK t \in f..LastFrame :
            pass' = IF pass.output \in Plugins
                      THEN [pass EXCEPT !.from = f, !.to = t, !.plugin = TRUE] ELSE pass
      BY <3>1
    <3>3. t \in 0..LastFrame
      BY <3>2, Numbers
    <3> QED BY <2>1, <3>2, <3>3 DEF PassType
  <2> QED BY <2>2, <2>3
<1>3. UNCHANGED <<app, view, thread, reads, sink>>
  BY DEF AcceptConfiguration
<1> QED BY <1>1, <1>2, <1>3 DEF Inv, Typed, ReadsAreOver

LEMMA CancelDialogKeepsInv == ASSUME Inv, CancelConfiguration \/ CancelPanel PROVE Inv'
<1>1. ui' \in UiType
  <2>1. CASE CancelConfiguration
    <3>1. PICK l \in Nat : ui' = [ui EXCEPT !.dialog = "none", !.listeners = l]
      BY <2>1, UiCounts DEF CancelConfiguration, Inv
    <3> QED BY <3>1, UiCounts, UiIsTyped DEF Inv
  <2>2. CASE CancelPanel
    <3>1. ui' = [ui EXCEPT !.panels = ui.panels - 1] /\ ui.panels - 1 \in Nat
      BY <2>2, UiCounts DEF CancelPanel, Inv
    <3> QED BY <3>1, UiCounts, UiIsTyped DEF Inv
  <2> QED BY <2>1, <2>2
<1>2. thread' \in ThreadType /\ thread'.next = thread.next
  BY ThreadIsTyped DEF CancelConfiguration, CancelPanel, Inv, Typed
<1>3. UNCHANGED <<app, view, pass, reads, sink>>
  BY DEF CancelConfiguration, CancelPanel
<1> QED BY <1>1, <1>2, <1>3 DEF Inv, Typed, ReadsAreOver

LEMMA ChooseKeepsInv == ASSUME Inv, ChoosePath PROVE Inv'
<1>0. ui.panels - 1 \in Nat /\ UNCHANGED <<app, reads>>
  BY UiCounts DEF ChoosePath, Inv
<1>1. ui' \in UiType
  <2>1. PICK d \in {"none", "config", "progress"} :
          \/ ui' = [ui EXCEPT !.panels = ui.panels - 1, !.dialog = d]
          \/ ui' = [ui EXCEPT !.panels = ui.panels - 1]
    BY UiCounts DEF ChoosePath, Inv
  <2>2. ui \in UiType
    BY DEF Inv, Typed
  <2>3. /\ [ui EXCEPT !.panels = ui.panels - 1, !.dialog = d] \in UiType
        /\ [ui EXCEPT !.panels = ui.panels - 1] \in UiType
    BY <1>0, <2>2, UiIsTyped
  <2> QED BY <2>1, <2>3
<1>2. CASE Exists
  <2>1. PICK opens \in BOOLEAN : StartCapture(opens)
    BY <1>2 DEF ChoosePath
  <2>2. pass \in PassType /\ view \in View /\ sink \in SinkType /\ <<>> \in Seq(Int)
    BY DEF Inv, Typed
  <2>3. view' \in View
    BY <2>1, <2>2 DEF StartCapture, View, PassType
  <2>4. pass' \in PassType /\ pass'.state \in {"initialized", "cancelled"}
    <3>1. PICK s \in {"initialized", "cancelled"} : pass' = [Saved(pass) EXCEPT !.state = s]
      BY <2>1 DEF StartCapture
    <3>2. s \in States
      BY StateNames
    <3>3. pass.starts + 1 \in Nat
      BY <2>2 DEF PassType
    <3>4. Saved(pass) \in PassType
      BY <2>2, <3>3 DEF Saved, PassType
    <3> QED BY <3>1, <3>2, <3>4 DEF PassType
  <2>5. sink' \in SinkType
    BY <2>1, <2>2 DEF StartCapture, SinkType
  <2>6. thread' \in ThreadType /\ thread'.next = thread.next
    BY <2>1, ThreadIsTyped DEF StartCapture, Inv, Typed
  <2> QED BY <1>0, <1>1, <2>3, <2>4, <2>5, <2>6 DEF Inv, Typed, ReadsAreOver
<1>3. CASE ~Exists
  BY <1>0, <1>1, <1>3 DEF ChoosePath, Inv, Typed, ReadsAreOver
<1> QED BY <1>2, <1>3

LEMMA CancelCaptureKeepsInv == ASSUME Inv, CancelCapture PROVE Inv'
<1>1. ui' \in UiType
  BY UiCounts, UiIsTyped DEF CancelCapture, Inv
<1>2. pass' \in PassType /\ pass'.state = pass.state /\ sink' \in SinkType
  BY StoppedIsTyped DEF CancelCapture, Cancelling, Inv
<1>3. thread' \in ThreadType /\ thread'.next = "cancelled"
  BY DEF CancelCapture, Cancelling, ThreadType
<1> QED BY <1>1, <1>2, <1>3 DEF CancelCapture, Inv, Typed, ReadsAreOver

LEMMA QuitKeepsInv == ASSUME Inv, Quit PROVE Inv'
BY ThreadIsTyped DEF Quit, Inv, Typed, ReadsAreOver

-----------------------------------------------------------------------------
(* The draws.                                                               *)

LEMMA DrawKeepsInv == ASSUME Inv, Draw PROVE Inv'
<1>t. Typed /\ pass \in PassType /\ thread.next = "none"
  BY DEF Inv, Typed, Draw, ConfigureViewport, WarmUp, CaptureImage, CaptureAndEncode,
         CaptureAsync, RecordFrame, RecorderNotReady, StopCapture, Drawing, Idle
<1>c. ASSUME NEW p \in PassType, Captured(p), p.state \notin {"absent", "none", "destroyed"},
             ui' \in UiType, sink' \in SinkType, UNCHANGED <<app, view, reads>>
      PROVE  Inv'
  <2>1. pass' = p /\ thread' \in ThreadType /\ thread'.next = "none"
    BY <1>c, <1>t, CapturedIsTyped
  <2> QED BY <1>c, <2>1, <1>t DEF Inv, Typed, ReadsAreOver
<1>p. ASSUME NEW p \in PassType, NEW s \in States, p.to = pass.to, SeekAndProgress(p, s),
             s \notin {"absent", "none", "destroyed"},
             ui' \in UiType, sink' \in SinkType, reads' \in Seq(Read), UNCHANGED app
      PROVE  Inv'
  <2>1. /\ pass' \in PassType /\ pass'.state \in {s, "finished"}
        /\ view' \in View /\ thread' \in ThreadType /\ thread'.next = "none"
    BY <1>p, <1>t, ProgressIsTyped
  <2> QED BY <1>p, <2>1, <1>t DEF Inv, Typed, ReadsAreOver
<1>i. ui \in UiType /\ sink \in SinkType /\ reads \in Seq(Read) /\ VideoPTS \in Int
  BY <1>t, PTSIsTyped DEF Typed
<1>1. CASE ConfigureViewport
  <2>1. [pass EXCEPT !.state = "configured"] \in PassType
    BY <1>t, StateNames DEF PassType
  <2> QED BY <1>1, <1>c, <1>i, <2>1, <1>t DEF ConfigureViewport, PassType
<1>2. CASE WarmUp
  <2>1. [pass EXCEPT !.state = "ready"] \in PassType
    BY <1>t, StateNames DEF PassType
  <2>2. Blitted(pass) \in PassType /\ Blitted(pass).state \in {"ready", "blitted"}
    <3>1. PICK s \in {"ready", "blitted"} :
            Blitted(pass) =
              [pass EXCEPT !.blits = IF pass.blits < 3 THEN pass.blits + 1 ELSE pass.blits,
                           !.state = s]
      BY DEF Blitted
    <3>2. (IF pass.blits < 3 THEN pass.blits + 1 ELSE pass.blits) \in 0..3 /\ s \in States
      BY <1>t, StateNames DEF PassType
    <3> DEFINE b == IF pass.blits < 3 THEN pass.blits + 1 ELSE pass.blits
    <3> HIDE DEF b
    <3>3. [pass EXCEPT !.blits = b, !.state = s] \in PassType
          /\ [pass EXCEPT !.blits = b, !.state = s].state = s
      BY <1>t, <3>2 DEF PassType, b
    <3> QED BY <3>1, <3>3 DEF b
  <2>3. PICK p \in {[pass EXCEPT !.state = "ready"], Blitted(pass)} : Captured(p)
    BY <1>2 DEF WarmUp
  <2>4. p \in PassType /\ p.state \in {"ready", "blitted"}
    BY <2>1, <2>2, <2>3, <1>t DEF PassType
  <2>5. UNCHANGED <<app, ui, view, reads, sink>>
    BY <1>2 DEF WarmUp
  <2> QED BY <1>c, <1>i, <2>3, <2>4, <2>5
<1>3. CASE CaptureImage
  <2>1. [pass EXCEPT !.state = "finished"] \in PassType
    BY <1>t, StateNames DEF PassType
  <2>2. view.frame \in Int
    BY <1>t, Numbers DEF Typed, View
  <2>3. <<view.frame>> \in Seq(Int)
    BY <2>2
  <2>4. sink' \in SinkType
    BY <1>3, <1>i, <2>3 DEF CaptureImage, SinkType
  <2> QED BY <1>3, <1>c, <1>i, <2>1, <2>4, <1>t DEF CaptureImage, PassType
<1>4. CASE CaptureAndEncode
  <2> DEFINE last == [pass EXCEPT !.last = VideoPTS]
  <2>1. last \in PassType /\ last.to = pass.to
    BY <1>t, <1>i DEF PassType
  <2>2. \/ SeekAndProgress(last, "blitted") \/ SeekAndProgress(last, "cancelled")
        \/ SeekAndProgress(pass, "blitted")
    BY <1>4 DEF CaptureAndEncode
  <2>3. sink' \in SinkType
    BY <1>4, <1>i, <1>t, WrittenIsTyped DEF CaptureAndEncode, SinkType
  <2>4. UNCHANGED <<app, ui, reads>>
    BY <1>4 DEF CaptureAndEncode
  <2> HIDE DEF last
  <2> QED BY <1>p, <1>i, <1>t, <2>1, <2>2, <2>3, <2>4, StateNames
<1>5. CASE CaptureAsync
  <2>1. [pts |-> VideoPTS, stage |-> "submitted"] \in Read
    BY <1>i DEF Read
  <2>2. reads' \in Seq(Read)
    BY <1>5, <1>i, <2>1 DEF CaptureAsync
  <2>3. SeekAndProgress(pass, "blitted") /\ UNCHANGED <<app, ui, sink>>
    BY <1>5 DEF CaptureAsync
  <2> QED BY <1>p, <1>i, <1>t, <2>2, <2>3, StateNames
<1>6. CASE RecordFrame
  <2>1. Written(VideoPTS) \in SinkType
    BY <1>i, <1>t, WrittenIsTyped
  <2>2. sink' \in SinkType
    BY <1>6, <1>i, <2>1 DEF RecordFrame, SinkType
  <2>3. ui' \in UiType
    <3>1. ui' = [ui EXCEPT !.dialog = "none"] \/ ui' = [ui EXCEPT !.dialog = ui.dialog]
      BY <1>6, Zenon DEF RecordFrame
    <3> QED BY <3>1, <1>t, UiCounts DEF UiType
  <2>4. \/ Captured([pass EXCEPT !.state = "cancelled"]) /\ UNCHANGED view
        \/ SeekAndProgress(pass, "ready")
    BY <1>6 DEF RecordFrame
  <2>5. UNCHANGED <<app, reads>>
    BY <1>6 DEF RecordFrame
  <2>6. [pass EXCEPT !.state = "cancelled"] \in PassType
        /\ [pass EXCEPT !.state = "cancelled"].state = "cancelled"
    BY <1>t, StateNames DEF PassType
  <2>7. CASE Captured([pass EXCEPT !.state = "cancelled"]) /\ UNCHANGED view
    BY <1>c, <2>2, <2>3, <2>5, <2>6, <2>7
  <2>8. CASE SeekAndProgress(pass, "ready")
    BY <1>p, <1>t, <1>i, <2>2, <2>3, <2>5, <2>8, StateNames
  <2> QED BY <2>4, <2>7, <2>8
<1>7. CASE RecorderNotReady
  <2>1. [pass EXCEPT !.state = "ready"] \in PassType
    BY <1>t, StateNames DEF PassType
  <2> QED BY <1>7, <1>c, <1>i, <2>1, <1>t DEF RecorderNotReady, PassType
<1>8. CASE StopCapture
  <2>1. thread' \in ThreadType /\ thread'.next = "none"
    BY <1>8, <1>t, ThreadIsTyped DEF StopCapture
  <2> QED BY <1>8, <2>1, <1>t DEF StopCapture, Inv, Typed, ReadsAreOver
<1> QED BY <1>1, <1>2, <1>3, <1>4, <1>5, <1>6, <1>7, <1>8 DEF Draw

-----------------------------------------------------------------------------
(* The reads and the destruction.                                           *)

LEMMA BeginReadKeepsInv == ASSUME Inv, BeginRead PROVE Inv'
<1>1. reads \in Seq(Read) /\ reads # <<>> /\ Len(reads) \in Nat \ {0}
  BY DEF Inv, Typed, BeginRead
<1>2. Tail(reads) \in Seq(Read)
  BY <1>1
<1>3. [reads EXCEPT ![1].stage = "encoding"] \in Seq(Read)
  <2>1. 1 \in 1..Len(reads) /\ reads[1] \in Read
    BY <1>1
  <2>2. [reads[1] EXCEPT !.stage = "encoding"] \in Read
    BY <2>1 DEF Read
  <2> DEFINE r == [reads[1] EXCEPT !.stage = "encoding"]
  <2>3. [reads EXCEPT ![1].stage = "encoding"] = [reads EXCEPT ![1] = r]
    OBVIOUS
  <2> HIDE DEF r
  <2>4. [reads EXCEPT ![1] = r] \in Seq(Read)
    BY <1>1, <2>1, <2>2 DEF r
  <2> QED BY <2>3, <2>4
<1>4. reads' \in Seq(Read) /\ UNCHANGED <<app, ui, view, pass, thread, sink>>
  BY <1>2, <1>3 DEF BeginRead
<1> QED BY <1>1, <1>4 DEF Inv, Typed, ReadsAreOver

LEMMA RejectReadKeepsInv == ASSUME Inv, RejectRead PROVE Inv'
<1>1. /\ reads \in Seq(Read) /\ reads # <<>> /\ Typed
      /\ reads' = Tail(reads) /\ sink' = StoppedSink
      /\ pass' = [StoppedPass EXCEPT !.state = "cancelled"]
      /\ UNCHANGED <<app, ui, view, thread>>
  BY DEF Inv, Typed, RejectRead
<1>2. Tail(reads) \in Seq(Read)
  BY <1>1
<1>3. pass' \in PassType /\ pass'.state = "cancelled" /\ sink' \in SinkType
  BY <1>1, StoppedIsTyped, StateNames DEF PassType
<1>4. thread.next # "destroyed"
  BY <1>1 DEF Inv, ReadsAreOver
<1> QED BY <1>1, <1>2, <1>3, <1>4 DEF Inv, Typed, ReadsAreOver

LEMMA EncodeReadKeepsInv == ASSUME Inv, EncodeRead PROVE Inv'
<1> DEFINE pts == Head(reads).pts
           seen == [pass EXCEPT !.last = pts]
<1>1. reads \in Seq(Read) /\ reads # <<>> /\ pass \in PassType /\ sink \in SinkType
  BY DEF Inv, Typed, EncodeRead
<1>2. Tail(reads) \in Seq(Read) /\ pts \in Int
  <2>1. Head(reads) \in Read
    BY <1>1
  <2> QED BY <1>1, <2>1 DEF Read
<1> HIDE DEF pts
<1>3. /\ seen \in PassType /\ seen.state = pass.state
      /\ [seen EXCEPT !.plugin = FALSE, !.state = "cancelled"] \in PassType
      /\ [seen EXCEPT !.plugin = FALSE, !.state = "cancelled"].state = "cancelled"
  BY <1>1, <1>2, StateNames DEF PassType
<1>4. Written(pts) \in SinkType /\ StoppedSink \in SinkType
  BY <1>2, WrittenIsTyped, StoppedIsTyped DEF Inv
<1>5. UNCHANGED <<ui, view, thread>>
  BY DEF EncodeRead
<1>6. pass.state \notin {"absent", "none", "destroyed"} /\ thread.next # "destroyed"
  BY <1>1 DEF Inv, ReadsAreOver
<1>7. CASE /\ sink' = IF pass.plugin THEN Written(pts) ELSE sink
           /\ pass' = seen /\ reads' = Tail(reads) /\ UNCHANGED app
  <2> HIDE DEF seen
  <2> QED BY <1>1, <1>2, <1>3, <1>4, <1>5, <1>6, <1>7 DEF Inv, Typed, ReadsAreOver
<1>8. CASE /\ sink' = StoppedSink
           /\ pass' = [seen EXCEPT !.plugin = FALSE, !.state = "cancelled"]
           /\ reads' = Tail(reads) /\ UNCHANGED app
  <2>1. pass' \in PassType /\ pass'.state = "cancelled"
    BY <1>3, <1>8
  <2> HIDE DEF seen
  <2> QED BY <1>1, <1>2, <1>4, <1>5, <1>6, <1>8, <2>1 DEF Inv, Typed, ReadsAreOver
<1>9. CASE app' = "crashed" /\ UNCHANGED <<pass, reads, sink>>
  BY <1>5, <1>9 DEF Inv, Typed, ReadsAreOver
<1> QED BY <1>7, <1>8, <1>9 DEF EncodeRead, pts

LEMMA SetStateKeepsInv == ASSUME Inv, SetState PROVE Inv'
<1>1. thread.next \in {"cancelled", "destroyReady", "restored", "destroyed"}
  BY DEF SetState, Inv, Typed, ThreadType
<1>2. pass' \in PassType /\ pass'.state = thread.next
  BY <1>1, StateNames DEF SetState, Inv, Typed, PassType
<1>3. thread' \in ThreadType /\ thread'.next = "none"
  BY DEF SetState, Inv, Typed, ThreadType
<1> QED BY <1>1, <1>2, <1>3 DEF SetState, Inv, Typed, ReadsAreOver

LEMMA DestructionKeepsInv == ASSUME Inv, TransitDestruction PROVE Inv'
<1>t. Typed /\ pass \in PassType /\ thread \in ThreadType
  BY DEF Inv, Typed
<1>1. CASE TurnWorking
  <2>1. thread' \in ThreadType /\ thread'.next = "cancelled"
    BY <1>1 DEF TurnWorking, Cancelling, ThreadType
  <2> QED BY <1>1, <1>t, <2>1, StoppedIsTyped DEF TurnWorking, Cancelling, Inv, Typed, ReadsAreOver
<1>2. CASE TurnEnded
  <2>1. thread' \in ThreadType /\ thread'.next = "destroyReady"
    BY <1>2, <1>t DEF TurnEnded, ThreadType
  <2> QED BY <1>2, <2>1 DEF TurnEnded, Inv, Typed, ReadsAreOver
<1>3. CASE TurnDestroyReady
  <2>1. thread' \in ThreadType /\ thread'.next = "restored"
    BY <1>3, <1>t DEF TurnDestroyReady, ThreadType
  <2>2. view' \in View
    BY <1>3, <1>t DEF TurnDestroyReady, Restored, Typed, PassType, View
  <2>3. sink' \in SinkType
    BY <1>3, <1>t, StoppedIsTyped DEF TurnDestroyReady, Typed
  <2>4. pass' \in PassType /\ pass'.state = pass.state
    <3>1. CASE pass.kept /\ pass.output # "image"
      <4>1. pass' = [StoppedPass EXCEPT !.kept = (app = "quitting")]
        BY <1>3, <3>1 DEF TurnDestroyReady
      <4> QED BY <1>t, <4>1, StoppedIsTyped DEF PassType
    <3>2. CASE ~(pass.kept /\ pass.output # "image")
      <4>1. pass' = [pass EXCEPT !.kept = @ /\ app = "quitting"]
        BY <1>3, <3>2 DEF TurnDestroyReady
      <4> QED BY <1>t, <4>1 DEF PassType
    <3> QED BY <3>1, <3>2
  <2>5. Typed'
    BY <1>3, <2>1, <2>2, <2>3, <2>4 DEF TurnDestroyReady, Inv, Typed
  <2>6. ReadsAreOver'
    BY <1>3, <2>1, <2>4 DEF TurnDestroyReady, Inv, ReadsAreOver
  <2> QED BY <2>5, <2>6 DEF Inv
<1>4. CASE TurnRestored
  <2>1. thread' \in ThreadType /\ reads = <<>>
    BY <1>4, <1>t DEF TurnRestored, ThreadType
  <2> QED BY <1>4, <2>1 DEF TurnRestored, Inv, Typed, ReadsAreOver
<1>5. CASE TurnDestroyed
  <2>1. reads = <<>> /\ thread' \in ThreadType
    BY <1>5, <1>t DEF TurnDestroyed, Turn, ThreadType, Inv, ReadsAreOver
  <2>2. ui' \in UiType
    BY <1>5, <1>t, UiCounts, UiIsTyped DEF TurnDestroyed
  <2> QED BY <1>5, <2>1, <2>2, NoPassIsTyped DEF TurnDestroyed, Inv, Typed, ReadsAreOver
<1> QED BY <1>1, <1>2, <1>3, <1>4, <1>5 DEF TransitDestruction

LEMMA NextKeepsInv == ASSUME Inv, [Next]_vars PROVE Inv'
<1>1. CASE UNCHANGED vars
  BY <1>1 DEF vars, Inv, Typed, ReadsAreOver
<1>2. CASE RecorderFails
  BY <1>2 DEF RecorderFails, Inv, Typed, ReadsAreOver, SinkType
<1> QED BY <1>1, <1>2, RequestKeepsInv, AcceptKeepsInv, CancelDialogKeepsInv, ChooseKeepsInv,
           DrawKeepsInv, BeginReadKeepsInv, RejectReadKeepsInv, EncodeReadKeepsInv,
           SetStateKeepsInv,
           CancelCaptureKeepsInv, QuitKeepsInv, DestructionKeepsInv DEF Next

LEMMA InitIsInv == Init => Inv
<1> SUFFICES ASSUME Init PROVE Inv
  OBVIOUS
<1>1. pass \in PassType /\ reads = <<>>
  BY NoPassIsTyped DEF Init
<1>2. view \in View
  BY Numbers DEF Init, View
<1>3. reads \in Seq(Read) /\ sink \in SinkType
  BY DEF Init, SinkType
<1> QED BY <1>1, <1>2, <1>3 DEF Init, Inv, Typed, ReadsAreOver, UiType, ThreadType

LEMMA InvHolds == Spec => []Inv
BY InitIsInv, NextKeepsInv, PTL DEF Spec

(* Every part of an export keeps its type, and the frame shown, the range   *)
(* and the amount between two frames stay in their bounds, for any duration *)
(* and rate.                                                               *)
THEOREM TypeCorrectness == Spec => []TypeOK
<1>1. Inv => TypeOK
  BY DEF Inv, Typed, TypeOK, Read, PassType, SinkType, UiType, ThreadType
<1> QED BY <1>1, InvHolds, PTL

(* However many reads are under way when an export is cancelled, fails or   *)
(* ends, the pass they refer to is there until the last one is over.        *)
THEOREM PassOutlives == Spec => []PassOutlivesItsReads
<1>1. Inv => PassOutlivesItsReads
  BY DEF Inv, ReadsAreOver, PassOutlivesItsReads, Exists
<1> QED BY <1>1, InvHolds, PTL

-----------------------------------------------------------------------------
(* An export leaves no trace.  The settings are noted when it starts and    *)
(* given back some steps before the pass is deleted; in between the state    *)
(* may change again, so the invariant says what holds of a pass before it    *)
(* starts, while it is started once, and when there is none.                *)

Over == {"restored", "destroyed"}

NotStarted ==
  pass.starts = 0 =>
    /\ pass.state \notin Working /\ ~pass.kept /\ reads = <<>>
    /\ ui.dialog # "progress"
    /\ Exists /\ thread.at = "idle" => view = pass.origin
    /\ pass.output \in Plugins /\ ui.panels > 0 => pass.plugin

StartedOnce ==
  pass.starts = 1 =>
    /\ pass.saved = pass.origin
    /\ ~pass.kept => thread.at = "destroying" /\ (app = "running" => view = pass.saved)
    /\ pass.state \in Over \/ thread.next \in Over =>
         /\ ~pass.kept \/ app # "running"
         /\ pass.output \in Plugins => sink.state # "open"
    /\ pass.output \in Plugins /\ sink.state = "open" => pass.plugin /\ pass.kept

Absent == ~Exists => pass.starts = 0 /\ thread.next = "none"

TraceInv == Inv /\ NotStarted /\ StartedOnce /\ Absent

LEMMA NoPassParts ==
  /\ NoPass.starts = 0 /\ NoPass.state = "absent" /\ ~NoPass.kept /\ ~NoPass.plugin
  /\ NoPass.output = "image" /\ "image" \notin Plugins
BY DEF NoPass, Plugins

LEMMA NewPassParts ==
  ASSUME NEW o
  PROVE  /\ NewPass(o).starts = 0 /\ NewPass(o).state = "none" /\ ~NewPass(o).kept
         /\ NewPass(o).origin = view
BY DEF NewPass, NoPass

LEMMA RequestKeepsTrace ==
  ASSUME TraceInv, RequestImage \/ RequestVideo
  PROVE  NotStarted' /\ StartedOnce' /\ Absent'
<1>1. MenuIsEnabled /\ reads = <<>> /\ UNCHANGED <<app, view, thread, reads, sink>>
  BY RequestKeepsInv DEF RequestImage, RequestVideo, MenuIsEnabled, TraceInv, Inv, ReadsAreOver
<1>2. CASE pass' = pass
  BY <1>1, <1>2, UiCounts
     DEF RequestImage, RequestVideo, TraceInv, NotStarted, StartedOnce, Absent, Exists, Inv, UiType, MenuIsEnabled
<1>3. CASE \E o : pass' = NewPass(o)
  <2>1. /\ pass'.starts = 0 /\ pass'.state = "none" /\ ~pass'.kept /\ pass'.origin = view
    BY <1>3, NewPassParts
  <2>2. ui'.dialog # "progress" /\ ~(ui'.panels > 0)
    <3>1. ui \in UiType /\ ui.dialog = "none" /\ ui.panels = 0
      BY <1>1, UiCounts DEF MenuIsEnabled, TraceInv, Inv
    <3>2. \/ ui' = [ui EXCEPT !.listeners = ui.listeners + 1]
          \/ ui' = [ui EXCEPT !.listeners = ui.listeners + 1, !.dialog = "config"]
          \/ ui' = [ui EXCEPT !.dialog = "config"]
      BY DEF RequestImage, RequestVideo
    <3>3. ui'.dialog # "progress" /\ ui'.panels = 0
      BY <3>1, <3>2 DEF UiType
    <3> QED BY <3>3
  <2> QED BY <1>1, <2>1, <2>2 DEF NotStarted, StartedOnce, Absent, Exists, Working
<1> QED BY <1>2, <1>3 DEF RequestImage, RequestVideo

LEMMA DialogKeepsTrace ==
  ASSUME TraceInv, AcceptConfiguration \/ CancelConfiguration \/ CancelPanel \/ Quit
  PROVE  NotStarted' /\ StartedOnce' /\ Absent'
<1>t. ui \in UiType /\ pass \in PassType /\ thread \in ThreadType
  BY DEF TraceInv, Inv, Typed
<1>1. CASE AcceptConfiguration
  <2>1. /\ pass'.state = pass.state /\ pass'.starts = pass.starts /\ pass'.kept = pass.kept
        /\ pass'.saved = pass.saved /\ pass'.origin = pass.origin /\ pass'.output = pass.output
        /\ pass.output \in Plugins => pass'.plugin
    <3>1. CASE pass.output = "image"
      BY <1>1, <1>t, <3>1, NoPassParts DEF AcceptConfiguration, PassType
    <3>2. CASE pass.output # "image"
      <4>1. \/ pass' = pass /\ pass.output \notin Plugins
            \/ \E f, t : pass' = [pass EXCEPT !.from = f, !.to = t, !.plugin = TRUE]
        BY <1>1, <3>2 DEF AcceptConfiguration
      <4> QED BY <1>t, <4>1 DEF PassType
    <3> QED BY <3>1, <3>2
  <2>2. ui'.dialog = "none"
    <3>1. CASE pass.output = "image"
      BY <1>1, <3>1 DEF AcceptConfiguration
    <3>2. CASE pass.output # "image"
      BY <1>1, <1>t, <3>2 DEF AcceptConfiguration, UiType
    <3> QED BY <3>1, <3>2
  <2>3. UNCHANGED <<app, view, thread, reads, sink>> /\ thread.next = "none"
    BY <1>1 DEF AcceptConfiguration, Idle
  <2> QED BY <2>1, <2>2, <2>3 DEF TraceInv, NotStarted, StartedOnce, Absent, Exists
<1>2. CASE CancelConfiguration \/ CancelPanel
  <2>1. /\ UNCHANGED <<app, view, pass, reads, sink>> /\ thread'.next = thread.next
        /\ thread'.at \in {thread.at, "destroying"}
    BY <1>2, <1>t DEF CancelConfiguration, CancelPanel, Destroying, ThreadType
  <2>2. ui'.dialog \in {ui.dialog, "none"} /\ (ui'.panels > 0 => ui.panels > 0)
    <3>1. CASE CancelConfiguration
      <4>1. PICK l : ui' = [ui EXCEPT !.dialog = "none", !.listeners = l]
        BY <3>1 DEF CancelConfiguration
      <4> QED BY <1>t, <4>1 DEF UiType
    <3>2. CASE CancelPanel
      <4>1. ui' = [ui EXCEPT !.panels = ui.panels - 1] /\ ui.panels > 0
        BY <3>2 DEF CancelPanel
      <4> QED BY <1>t, <4>1 DEF UiType
    <3> QED BY <1>2, <3>1, <3>2
  <2> QED BY <2>1, <2>2 DEF TraceInv, NotStarted, StartedOnce, Absent, Exists
<1>3. CASE Quit
  <2>1. /\ UNCHANGED <<ui, view, pass, reads, sink>> /\ thread'.next = thread.next
        /\ thread'.at \in {thread.at, "destroying"} /\ app' = "quitting"
    BY <1>3, <1>t DEF Quit, Destroying, ThreadType
  <2> QED BY <2>1 DEF TraceInv, NotStarted, StartedOnce, Absent, Exists
<1> QED BY <1>1, <1>2, <1>3

LEMMA ChooseKeepsTrace ==
  ASSUME TraceInv, ChoosePath
  PROVE  NotStarted' /\ StartedOnce' /\ Absent'
<1>t. /\ ui \in UiType /\ pass \in PassType /\ thread \in ThreadType /\ sink \in SinkType
      /\ pass.starts \in Nat
  BY DEF TraceInv, Inv, Typed, PassType
<1>i. /\ thread.at = "idle" /\ thread.next = "none" /\ app = "running" /\ ui.panels > 0
      /\ UNCHANGED <<app, reads>>
  BY DEF ChoosePath, Idle
<1>1. CASE Exists
  <2>1. PICK opens \in BOOLEAN : StartCapture(opens)
    BY <1>1 DEF ChoosePath
  <2>2. /\ pass'.starts = pass.starts + 1 /\ pass'.kept /\ pass'.saved = view
        /\ pass'.origin = pass.origin /\ pass'.output = pass.output
        /\ pass'.plugin = pass.plugin /\ pass'.state \in {"initialized", "cancelled"}
    <3>1. PICK s \in {"initialized", "cancelled"} : pass' = [Saved(pass) EXCEPT !.state = s]
      BY <2>1 DEF StartCapture
    <3> QED BY <1>t, <3>1 DEF Saved, PassType
  <2>3. thread'.next = "none"
    BY <1>i, <1>t, <2>1 DEF StartCapture, Destroying, ThreadType
  <2>4. pass.starts = 0 => view = pass.origin /\ (pass.output \in Plugins => pass.plugin)
    BY <1>1, <1>i DEF TraceInv, NotStarted
  <2>5. pass'.starts # 0 /\ (pass'.starts = 1 => pass.starts = 0)
    BY <1>t, <2>2
  <2>6. Exists'
    BY <2>2 DEF Exists
  <2> QED BY <2>2, <2>3, <2>4, <2>5, <2>6 DEF NotStarted, StartedOnce, Absent, Over
<1>2. CASE ~Exists
  <2>1. ui' = [ui EXCEPT !.panels = ui.panels - 1] /\ UNCHANGED <<view, pass, thread, sink>>
    BY <1>2 DEF ChoosePath
  <2>2. ui'.dialog = ui.dialog
    BY <1>t, <2>1 DEF UiType
  <2> QED BY <1>i, <1>2, <2>1, <2>2 DEF TraceInv, NotStarted, StartedOnce, Absent, Exists
<1> QED BY <1>1, <1>2

(* A draw that is not the one that stops the capture leaves the notes of    *)
(* the start as they are.                                                  *)
LEMMA DrawParts ==
  ASSUME Inv, Draw, ~StopCapture
  PROVE  /\ pass'.starts = pass.starts /\ pass'.kept = pass.kept
         /\ pass'.saved = pass.saved /\ pass'.origin = pass.origin
         /\ pass'.plugin = pass.plugin /\ pass'.output = pass.output
         /\ pass'.state \in {"configured", "ready", "blitted", "finished", "cancelled"}
<1>t. pass \in PassType
  BY DEF Inv, Typed
<1>0. ASSUME NEW s \in {"configured", "ready", "blitted", "finished", "cancelled"},
             \/ pass' = [pass EXCEPT !.state = s]
             \/ \E n : pass' = [pass EXCEPT !.blits = n, !.state = s]
             \/ \E n : pass' = [pass EXCEPT !.amount = n, !.state = s]
             \/ \E n, k : pass' = [[pass EXCEPT !.last = k] EXCEPT !.amount = n, !.state = s]
      PROVE  /\ pass'.starts = pass.starts /\ pass'.kept = pass.kept
             /\ pass'.saved = pass.saved /\ pass'.origin = pass.origin
             /\ pass'.plugin = pass.plugin /\ pass'.output = pass.output /\ pass'.state = s
  BY <1>t, <1>0 DEF PassType
<1>2. CASE ConfigureViewport
  BY <1>0, <1>2 DEF ConfigureViewport, Captured
<1>3. CASE WarmUp
  <2>1. PICK s \in {"ready", "blitted"} :
          \/ pass' = [pass EXCEPT !.state = s]
          \/ pass' = [pass EXCEPT
                !.blits = IF pass.blits < 3 THEN pass.blits + 1 ELSE pass.blits, !.state = s]
    BY <1>3 DEF WarmUp, Blitted, Captured
  <2> QED BY <1>0, <2>1
<1>4. CASE CaptureImage
  BY <1>0, <1>4 DEF CaptureImage, Captured
<1>5. CASE CaptureAndEncode
  <2>1. \/ SeekAndProgress([pass EXCEPT !.last = VideoPTS], "blitted")
        \/ SeekAndProgress([pass EXCEPT !.last = VideoPTS], "cancelled")
        \/ SeekAndProgress(pass, "blitted")
    BY <1>5 DEF CaptureAndEncode
  <2>2. PICK s \in {"finished", "blitted", "cancelled"} :
          \/ pass' = [[pass EXCEPT !.last = VideoPTS]
                EXCEPT !.amount = NextFrame.amount, !.state = s]
          \/ pass' = [pass EXCEPT !.amount = NextFrame.amount, !.state = s]
    BY <2>1 DEF SeekAndProgress, Captured
  <2> QED BY <1>0, <2>2
<1>6. CASE CaptureAsync
  <2>1. PICK s \in {"finished", "blitted"} :
          pass' = [pass EXCEPT !.amount = NextFrame.amount, !.state = s]
    BY <1>6 DEF SeekAndProgress, CaptureAsync, Captured
  <2> QED BY <1>0, <2>1
<1>7. CASE RecordFrame
  <2>1. PICK s \in {"finished", "ready", "cancelled"} :
          \/ pass' = [pass EXCEPT !.amount = NextFrame.amount, !.state = s]
          \/ pass' = [pass EXCEPT !.state = s]
    BY <1>7 DEF SeekAndProgress, RecordFrame, Captured
  <2> QED BY <1>0, <2>1
<1>8. CASE RecorderNotReady
  BY <1>0, <1>8 DEF RecorderNotReady, Captured
<1> QED BY <1>2, <1>3, <1>4, <1>5, <1>6, <1>7, <1>8 DEF Draw

(* A draw of a pass that is started: whatever it makes of the pass, the     *)
(* notes of its start stay.                                                *)
LEMMA DrawKeepsTrace ==
  ASSUME TraceInv, Draw
  PROVE  NotStarted' /\ StartedOnce' /\ Absent'
<1>t. /\ ui \in UiType /\ pass \in PassType /\ thread \in ThreadType /\ sink \in SinkType
      /\ view \in View
  BY DEF TraceInv, Inv, Typed
<1>i. /\ thread.at = "idle" /\ thread.next = "none" /\ app = "running" /\ Exists
      /\ UNCHANGED app
  BY DEF Draw, ConfigureViewport, WarmUp, CaptureImage, CaptureAndEncode, CaptureAsync,
         RecordFrame, RecorderNotReady, StopCapture, Drawing, Idle
<1>1. CASE StopCapture
  <2>1. /\ UNCHANGED <<app, ui, view, pass, reads, sink>>
        /\ thread'.at = "destroying" /\ thread'.next = "none"
    BY <1>1, <1>i, <1>t DEF StopCapture, Destroying, ThreadType
  <2> QED BY <2>1, <1>i DEF TraceInv, NotStarted, StartedOnce, Absent, Exists
<1>2. CASE ~StopCapture
  <2>1. pass.state \in Working
    BY <1>2 DEF Draw, ConfigureViewport, WarmUp, CaptureImage, CaptureAndEncode, CaptureAsync,
                RecordFrame, RecorderNotReady, IsReady, Working
  <2>2. pass.starts # 0 /\ (pass.starts = 1 => pass.kept)
    BY <1>i, <2>1 DEF TraceInv, NotStarted, StartedOnce
  <2>3. /\ pass'.starts = pass.starts /\ pass'.kept = pass.kept /\ pass'.saved = pass.saved
        /\ pass'.origin = pass.origin /\ pass'.plugin = pass.plugin
        /\ pass'.output = pass.output
        /\ pass'.state \in {"configured", "ready", "blitted", "finished", "cancelled"}
    BY <1>2, DrawParts DEF TraceInv
  <2>4. thread'.next = "none"
    <3>1. PICK q : Captured(q)
      BY <1>2 DEF Draw, ConfigureViewport, WarmUp, CaptureImage, CaptureAndEncode, CaptureAsync,
                  RecordFrame, RecorderNotReady, SeekAndProgress
    <3> QED BY <1>i, <1>t, <3>1 DEF Captured, ThreadType
  <2>5. pass.output \in Plugins /\ sink'.state = "open" => sink.state = "open"
    <3>1. pass.output \in Plugins => sink' \in {sink, Written(VideoPTS), [sink EXCEPT !.state = "failed"]}
      BY <1>2 DEF Draw, ConfigureViewport, WarmUp, CaptureImage, CaptureAndEncode, CaptureAsync,
                  RecordFrame, RecorderNotReady, Plugins, Recorders
    <3> QED BY <1>t, <3>1 DEF Written, SinkType
  <2> QED BY <1>i, <2>2, <2>3, <2>4, <2>5 DEF TraceInv, NotStarted, StartedOnce, Absent, Exists, Over
<1> QED BY <1>1, <1>2

(* Stopping the encoder of a plugin closes it, and keeps the notes.         *)
LEMMA StoppedParts ==
  ASSUME Typed
  PROVE  /\ StoppedPass.starts = pass.starts /\ StoppedPass.kept = pass.kept
         /\ StoppedPass.saved = pass.saved /\ StoppedPass.origin = pass.origin
         /\ StoppedPass.output = pass.output /\ ~StoppedPass.plugin
         /\ StoppedPass.state = pass.state
         /\ StoppedSink.state \in {sink.state, "closed"}
         /\ pass.plugin => StoppedSink.state = "closed"
BY DEF Typed, PassType, SinkType, StoppedPass, StoppedSink

LEMMA ReadsKeepTrace ==
  ASSUME TraceInv, BeginRead \/ RejectRead \/ EncodeRead
  PROVE  NotStarted' /\ StartedOnce' /\ Absent'
<1>t. /\ Typed /\ pass \in PassType /\ sink \in SinkType /\ reads # <<>>
      /\ UNCHANGED <<ui, view, thread>>
  BY DEF TraceInv, Inv, Typed, BeginRead, RejectRead, EncodeRead
<1>s. pass.starts # 0 /\ pass.state # "absent"
  BY <1>t DEF TraceInv, NotStarted, Inv, ReadsAreOver
<1>1. CASE BeginRead
  <2>1. UNCHANGED <<app, pass, sink>>
    BY <1>1 DEF BeginRead
  <2> QED BY <1>t, <1>s, <2>1 DEF TraceInv, NotStarted, StartedOnce, Absent, Exists
<1>2. CASE EncodeRead
  <2>1. CASE /\ sink' = IF pass.plugin THEN Written(Head(reads).pts) ELSE sink
             /\ pass' = [pass EXCEPT !.last = Head(reads).pts] /\ UNCHANGED app
    <3>1. /\ pass'.starts = pass.starts /\ pass'.kept = pass.kept /\ pass'.saved = pass.saved
          /\ pass'.origin = pass.origin /\ pass'.output = pass.output
          /\ pass'.plugin = pass.plugin /\ pass'.state = pass.state
          /\ sink'.state = sink.state
      BY <1>t, <2>1 DEF PassType, Written, SinkType
    <3> QED BY <1>t, <1>s, <2>1, <3>1 DEF TraceInv, NotStarted, StartedOnce, Absent, Exists
  <2>2. CASE /\ sink' = StoppedSink /\ UNCHANGED app
             /\ \E k : pass' = [[pass EXCEPT !.last = k] EXCEPT !.plugin = FALSE, !.state = "cancelled"]
    <3>1. /\ pass'.starts = pass.starts /\ pass'.kept = pass.kept /\ pass'.saved = pass.saved
          /\ pass'.origin = pass.origin /\ pass'.output = pass.output
          /\ ~pass'.plugin /\ pass'.state = "cancelled"
      BY <1>t, <2>2 DEF PassType
    <3>2. /\ sink'.state \in {sink.state, "closed"} /\ (pass.plugin => sink'.state = "closed")
      BY <1>t, <2>2, StoppedParts
    <3> QED BY <1>t, <1>s, <2>2, <3>1, <3>2 DEF TraceInv, NotStarted, StartedOnce, Absent, Exists, Over
  <2>3. CASE app' = "crashed" /\ UNCHANGED <<pass, reads, sink>>
    BY <1>t, <1>s, <2>3 DEF TraceInv, NotStarted, StartedOnce, Absent, Exists
  <2> QED BY <1>2, <2>1, <2>2, <2>3 DEF EncodeRead
<1>3. CASE RejectRead
  <2>1. /\ pass' = [StoppedPass EXCEPT !.state = "cancelled"] /\ StoppedPass \in PassType
        /\ sink' = StoppedSink /\ UNCHANGED app
    BY <1>3, <1>t, StoppedIsTyped DEF RejectRead
  <2>2. /\ pass'.starts = pass.starts /\ pass'.kept = pass.kept /\ pass'.saved = pass.saved
        /\ pass'.origin = pass.origin /\ pass'.output = pass.output
        /\ ~pass'.plugin /\ pass'.state = "cancelled"
    BY <1>t, <2>1, StoppedParts DEF PassType
  <2>3. /\ sink'.state \in {sink.state, "closed"} /\ (pass.plugin => sink'.state = "closed")
    BY <1>t, <2>1, StoppedParts
  <2> QED BY <1>t, <1>s, <2>1, <2>2, <2>3 DEF TraceInv, NotStarted, StartedOnce, Absent, Exists, Over
<1> QED BY <1>1, <1>2, <1>3

LEMMA SetStateKeepsTrace ==
  ASSUME TraceInv, SetState
  PROVE  NotStarted' /\ StartedOnce' /\ Absent'
<1>t. /\ pass \in PassType /\ thread \in ThreadType /\ UNCHANGED <<app, ui, view, reads, sink>>
  BY DEF TraceInv, Inv, Typed, SetState
<1>1. /\ thread.next \in {"cancelled", "destroyReady", "restored", "destroyed"}
      /\ thread'.next = "none" /\ thread'.at = thread.at
  BY <1>t DEF SetState, ThreadType
<1>2. /\ pass'.starts = pass.starts /\ pass'.kept = pass.kept /\ pass'.saved = pass.saved
      /\ pass'.origin = pass.origin /\ pass'.output = pass.output
      /\ pass'.plugin = pass.plugin /\ pass'.state = thread.next
  BY <1>t DEF SetState, PassType
<1>3. Exists /\ Exists'
  BY <1>1, <1>2 DEF TraceInv, Absent, Exists
<1> QED BY <1>t, <1>1, <1>2, <1>3 DEF TraceInv, NotStarted, StartedOnce, Absent, Working, Over

LEMMA CancelCaptureKeepsTrace ==
  ASSUME TraceInv, CancelCapture
  PROVE  NotStarted' /\ StartedOnce' /\ Absent'
<1>1. /\ pass' = StoppedPass /\ sink' = StoppedSink
      /\ thread'.at = "idle" /\ thread'.next = "cancelled"
      /\ UNCHANGED <<app, view, reads>> /\ thread.at = "idle"
  BY DEF CancelCapture, Cancelling, Idle
<1>2. pass.starts # 0
  BY DEF CancelCapture, TraceInv, NotStarted
<1>3. Exists
  BY <1>2 DEF TraceInv, Absent
<1>4. Typed
  BY DEF TraceInv, Inv
<1> QED BY <1>1, <1>2, <1>3, <1>4, StoppedParts
        DEF TraceInv, NotStarted, StartedOnce, Absent, Exists, Over

LEMMA DestructionKeepsTrace ==
  ASSUME TraceInv, TransitDestruction
  PROVE  NotStarted' /\ StartedOnce' /\ Absent'
<1>t. /\ Typed /\ pass \in PassType /\ thread \in ThreadType /\ view \in View /\ ui \in UiType
      /\ thread.at = "destroying" /\ thread.next = "none" /\ app # "crashed"
  BY DEF TraceInv, Inv, Typed, TransitDestruction, TurnWorking, TurnEnded, TurnDestroyReady,
         TurnRestored, TurnDestroyed, Turn
<1>1. CASE TurnWorking
  <2>1. /\ pass' = StoppedPass /\ sink' = StoppedSink
        /\ thread'.at = "destroying" /\ thread'.next = "cancelled"
        /\ UNCHANGED <<app, ui, view, reads>> /\ pass.state \in Working
    BY <1>1 DEF TurnWorking, Cancelling, Turn
  <2>2. pass.starts # 0 /\ Exists
    BY <2>1 DEF TraceInv, NotStarted, Exists, Working
  <2> QED BY <1>t, <2>1, <2>2, StoppedParts
          DEF TraceInv, NotStarted, StartedOnce, Absent, Exists, Over
<1>2. CASE TurnEnded
  <2>1. /\ thread'.at = "destroying" /\ thread'.next = "destroyReady" /\ Exists
        /\ UNCHANGED <<app, ui, view, pass, reads, sink>> /\ pass.state \notin Over
    BY <1>2, <1>t DEF TurnEnded, Turn, ThreadType, Exists, Over
  <2> QED BY <1>t, <2>1 DEF TraceInv, NotStarted, StartedOnce, Absent, Exists, Over
<1>3. CASE TurnDestroyReady
  <2>1. /\ thread'.at = "destroying" /\ thread'.next = "restored" /\ view' = Restored
        /\ UNCHANGED <<app, ui, reads>> /\ pass.state = "destroyReady"
    BY <1>3, <1>t DEF TurnDestroyReady, Turn, ThreadType
  <2>2. /\ pass'.starts = pass.starts /\ (pass'.kept => app = "quitting" /\ pass.kept)
        /\ pass'.saved = pass.saved /\ pass'.origin = pass.origin /\ pass'.output = pass.output
        /\ pass'.state = pass.state
    BY <1>3, <1>t, StoppedParts DEF TurnDestroyReady, StoppedPass, PassType
  <2>3. IF pass.kept /\ pass.output # "image"
          THEN sink' = StoppedSink
          ELSE sink' = sink /\ pass'.plugin = pass.plugin
    BY <1>3, <1>t DEF TurnDestroyReady, PassType
  <2>4. app = "running" /\ pass.kept => view' = pass.saved
    <3> SUFFICES ASSUME app = "running", pass.kept PROVE view' = pass.saved
      OBVIOUS
    <3>1. app # "quitting"
      OBVIOUS
    <3>2. Restored = pass.saved
      BY <3>1 DEF Restored
    <3> QED BY <2>1, <3>2
  <2>5. app = "running" /\ ~pass.kept /\ view = pass.saved => view' = pass.saved
    BY <1>t, <2>1 DEF Restored, View
  <2>6. app = "running" \/ app = "quitting"
    BY <1>t DEF Typed
  <2>7. pass.starts = 1 /\ pass.output \in Plugins => sink'.state # "open"
    BY <1>t, <2>3, StoppedParts, NoPassParts DEF TraceInv, StartedOnce
  <2>8. pass.starts = 0 => ~pass.kept
    BY DEF TraceInv, NotStarted
  <2>9. pass.starts = 0 /\ pass'.output \in Plugins /\ ui.panels > 0 => pass'.plugin
    BY <2>2, <2>3, <2>8 DEF TraceInv, NotStarted
  <2>10. NotStarted'
    BY <2>1, <2>2, <2>8, <2>9 DEF TraceInv, NotStarted, Working, Exists
  <2>11. StartedOnce'
    BY <2>1, <2>2, <2>4, <2>5, <2>6, <2>7 DEF TraceInv, StartedOnce, Over
  <2> QED BY <2>1, <2>2, <2>10, <2>11 DEF Absent, Exists
<1>4. CASE TurnRestored
  <2>1. /\ thread'.at = "destroying" /\ thread'.next = "destroyed"
        /\ UNCHANGED <<app, ui, view, pass, reads, sink>> /\ pass.state = "restored"
    BY <1>4, <1>t DEF TurnRestored, Turn, ThreadType
  <2> QED BY <1>t, <2>1 DEF TraceInv, NotStarted, StartedOnce, Absent, Exists, Over
<1>5. CASE TurnDestroyed
  <2>1. /\ pass' = NoPass /\ thread'.next = "none" /\ ui'.dialog = "none" /\ reads' = <<>>
    BY <1>5, <1>t DEF TurnDestroyed, Turn, ThreadType, UiType, TraceInv, Inv, ReadsAreOver
  <2> QED BY <2>1, NoPassParts DEF NotStarted, StartedOnce, Absent, Exists, Working
<1> QED BY <1>1, <1>2, <1>3, <1>4, <1>5 DEF TransitDestruction

LEMMA NextKeepsTrace == ASSUME TraceInv, [Next]_vars PROVE TraceInv'
<1>1. Inv'
  BY NextKeepsInv DEF TraceInv
<1>2. CASE UNCHANGED vars
  BY <1>1, <1>2 DEF vars, TraceInv, NotStarted, StartedOnce, Absent, Exists
<1>3. CASE RecorderFails
  <2>1. UNCHANGED <<app, ui, view, pass, thread, reads>> /\ pass.output \notin Plugins
    BY <1>3 DEF RecorderFails, Plugins, Recorders
  <2> QED BY <1>1, <2>1 DEF TraceInv, NotStarted, StartedOnce, Absent, Exists
<1> QED BY <1>1, <1>2, <1>3, RequestKeepsTrace, DialogKeepsTrace, ChooseKeepsTrace,
           DrawKeepsTrace, ReadsKeepTrace, SetStateKeepsTrace, CancelCaptureKeepsTrace,
           DestructionKeepsTrace DEF Next, TraceInv

(* Only the last turn of the destruction deletes a pass.                    *)
LEMMA DestroyedOnly ==
  ASSUME Inv, Next, Exists, pass'.state = "absent"
  PROVE  TurnDestroyed
<1>t. Typed /\ pass \in PassType /\ pass.state # "absent"
  BY DEF Inv, Typed, Exists
<1>1. ~(RequestImage \/ RequestVideo)
  BY <1>t, NewPassParts DEF RequestImage, RequestVideo
<1>2. ~AcceptConfiguration
  <2> SUFFICES ASSUME AcceptConfiguration PROVE FALSE
    OBVIOUS
  <2>1. \/ pass' = pass \/ \E f : pass' = [pass EXCEPT !.from = f]
        \/ \E f, t : pass' = [pass EXCEPT !.from = f, !.to = t, !.plugin = TRUE]
    BY DEF AcceptConfiguration
  <2> QED BY <1>t, <2>1 DEF PassType
<1>3. ~ChoosePath
  <2> SUFFICES ASSUME ChoosePath PROVE FALSE
    OBVIOUS
  <2>1. PICK s \in {"initialized", "cancelled"} : pass' = [Saved(pass) EXCEPT !.state = s]
    BY DEF ChoosePath, StartCapture
  <2> QED BY <1>t, <2>1 DEF Saved, PassType
<1>4. ~Draw
  BY <1>t, DrawParts DEF StopCapture
<1>5. ~(EncodeRead \/ RejectRead)
  BY <1>t, StoppedIsTyped DEF EncodeRead, RejectRead, PassType
<1>6. ~SetState
  BY <1>t DEF SetState, Inv, Typed, ThreadType, PassType
<1>7. ~(CancelCapture \/ TurnWorking)
  BY <1>t, StoppedIsTyped DEF CancelCapture, TurnWorking, Cancelling
<1>8. ~TurnDestroyReady
  BY <1>t, StoppedIsTyped DEF TurnDestroyReady, PassType, StoppedPass
<1>9. ~(\/ CancelConfiguration \/ CancelPanel \/ RecorderFails \/ BeginRead \/ Quit
        \/ TurnEnded \/ TurnRestored)
  BY <1>t DEF CancelConfiguration, CancelPanel, RecorderFails, BeginRead, Quit, TurnEnded, TurnRestored
<1> QED BY <1>1, <1>2, <1>3, <1>4, <1>5, <1>6, <1>7, <1>8, <1>9 DEF Next, TransitDestruction

(* The pass of an export that was started once is deleted only with the     *)
(* settings and the frame of the project given back, as long as the         *)
(* application runs, and with the encoder of a plugin closed, also when it   *)
(* quits: whether the export ended, failed or was cancelled, at whatever     *)
(* point and with any reads under way.                                      *)
THEOREM NoTraceIsLeft == Spec => ExportLeavesNoTrace
<1> DEFINE Leaves ==
      (Exists /\ pass'.state = "absent" /\ pass.starts = 1)
        => /\ app = "running" => view' = pass.origin
           /\ pass.output \in Plugins => sink'.state # "open"
<1>1. Init => TraceInv
  <2> SUFFICES ASSUME Init PROVE TraceInv
    OBVIOUS
  <2>1. Inv
    BY InitIsInv
  <2> QED BY <2>1, NoPassParts DEF Init, TraceInv, NotStarted, StartedOnce, Absent, Exists, Working
<1>2. ASSUME TraceInv, [Next]_vars PROVE [Leaves]_vars
  <2> SUFFICES ASSUME Next, Exists, pass'.state = "absent", pass.starts = 1
               PROVE  /\ app = "running" => view' = pass.origin
                      /\ pass.output \in Plugins => sink'.state # "open"
    BY <1>2
  <2>1. TurnDestroyed
    BY <1>2, DestroyedOnly DEF TraceInv
  <2>2. pass.state = "destroyed" /\ UNCHANGED <<view, sink>>
    BY <2>1 DEF TurnDestroyed, Turn
  <2> QED BY <1>2, <2>2 DEF TraceInv, StartedOnce, Over
<1> QED BY <1>1, <1>2, NextKeepsTrace, PTL DEF Spec, ExportLeavesNoTrace
-----------------------------------------------------------------------------
(* The frames of a file.  That they are in order is not inductive: what a   *)
(* file holds has to be related to the frame the project shows, to the last *)
(* frame the encoder was given and to the reads that are still under way.   *)

Video == pass.output # "image"

\* A video has one save panel, or was started once from it.
StartsOnce ==
  /\ ui.dialog = "config" => pass.starts = 0 /\ ui.panels = 0
  /\ Video => ui.panels + pass.starts <= 1

\* Nothing is counted before the start; only one output leaves reads behind.
Fresh ==
  /\ pass.starts = 0 => pass.amount = 0 /\ pass.last = -1
  /\ pass.output # "asyncPlugin" => reads = <<>>

InRange ==
  Video => /\ pass.from <= pass.to
           /\ pass.state \in Working => view.frame <= pass.to

Numbered(f) == \A i \in 1..Len(f) : f[i] = i - 1
Rising(f) == \A i \in 2..Len(f) : f[i - 1] < f[i]

RecorderIsAt ==
  pass.output = "recorder" =>
    /\ Numbered(sink.file)
    /\ pass.state \in Working => Len(sink.file) = VideoPTS

DeferredIsBehind ==
  pass.output = "deferredRecorder" =>
    /\ Rising(sink.file)
    /\ pass.state \in Working => \A i \in 1..Len(sink.file) : sink.file[i] < VideoPTS

\* Once its encoder is to be stopped no frame is encoded any more.
PluginIsAt ==
  pass.output = "plugin" =>
    /\ Numbered(sink.file)
    /\ pass.state \in Working /\ thread.next = "none" =>
         pass.plugin /\ Len(sink.file) = VideoPTS /\ pass.last = VideoPTS - 1

\* The reads under way carry the frames that follow those of the file, one
\* after the other, up to the one the project shows; none is skipped while the
\* encoder is there.
ReadsAreAhead ==
  pass.output = "asyncPlugin" =>
    /\ Numbered(sink.file)
    /\ pass.plugin =>
         /\ pass.last = Len(sink.file) - 1
         /\ \A j \in 1..Len(reads) : reads[j].pts = Len(sink.file) + j - 1
         /\ pass.state \in Working => VideoPTS = Len(sink.file) + Len(reads)

FileIsAt ==
  pass.starts = 1 => RecorderIsAt /\ DeferredIsBehind /\ PluginIsAt /\ ReadsAreAhead

Frames == Fresh /\ InRange /\ FileIsAt

FramesInv == TraceInv /\ StartsOnce /\ Frames

LEMMA FramesTyped ==
  ASSUME FramesInv
  PROVE  /\ Typed /\ pass \in PassType /\ sink \in SinkType /\ view \in View
         /\ reads \in Seq(Read) /\ thread \in ThreadType /\ ui \in UiType
         /\ sink.file \in Seq(Int) /\ Len(sink.file) \in Nat /\ VideoPTS \in Int
         /\ pass.starts \in Nat /\ pass.amount \in 0..(Steps - 1) /\ pass.last \in Int
         /\ pass.from \in 0..LastFrame /\ pass.to \in 0..LastFrame
         /\ view.frame \in 0..LastFrame
<1>1. Typed
  BY DEF FramesInv, TraceInv, Inv
<1>2. VideoPTS \in Int
  BY <1>1, PTSIsTyped
<1>3. sink.file \in Seq(Int)
  BY <1>1 DEF Typed, SinkType
<1> QED BY <1>1, <1>2, <1>3 DEF Typed, PassType, View

(* The file of a video that is past its start.                              *)
LEMMA StartedVideo ==
  ASSUME FramesInv, Video, pass.starts # 0
  PROVE  pass.starts = 1 /\ ui.panels = 0
<1>1. ui.panels \in Nat /\ pass.starts \in Nat
  BY FramesTyped, UiCounts
<1> QED BY <1>1 DEF FramesInv, StartsOnce

LEMMA WorkingIsStarted ==
  ASSUME FramesInv, pass.state \in Working PROVE pass.starts # 0
BY DEF FramesInv, TraceInv, NotStarted

LEMMA AppendParts ==
  ASSUME NEW f \in Seq(Int), NEW x \in Int
  PROVE  /\ Len(Append(f, x)) = Len(f) + 1 /\ Len(f) \in Nat
         /\ \A i \in 1..Len(f) : Append(f, x)[i] = f[i]
         /\ Append(f, x)[Len(f) + 1] = x
OBVIOUS

LEMMA AppendNumbered ==
  ASSUME NEW f \in Seq(Int), Numbered(f) PROVE Numbered(Append(f, Len(f)))
<1>1. Len(f) \in Int /\ Len(f) \in Nat
  OBVIOUS
<1> QED BY <1>1, AppendParts DEF Numbered

LEMMA AppendRising ==
  ASSUME NEW f \in Seq(Int), NEW x \in Int, Rising(f), \A i \in 1..Len(f) : f[i] < x
  PROVE  /\ Rising(Append(f, x))
         /\ \A i \in 1..Len(Append(f, x)) : Append(f, x)[i] < x + 1
<1> DEFINE g == Append(f, x)
<1>1. /\ Len(g) = Len(f) + 1 /\ Len(f) \in Nat /\ \A i \in 1..Len(f) : g[i] = f[i]
      /\ g[Len(f) + 1] = x
  BY AppendParts
<1>2. \A i \in 1..Len(f) : f[i] \in Int
  OBVIOUS
<1> HIDE DEF g
<1>3. Rising(g)
  <2> SUFFICES ASSUME NEW i \in 2..Len(g) PROVE g[i - 1] < g[i]
    BY DEF Rising
  <2>1. CASE i \in 2..Len(f)
    BY <1>1, <2>1 DEF Rising
  <2>2. CASE i = Len(f) + 1
    <3>1. i - 1 \in 1..Len(f)
      BY <1>1, <2>2
    <3> QED BY <1>1, <2>2, <3>1
  <2> QED BY <1>1, <2>1, <2>2
<1>4. \A i \in 1..Len(g) : g[i] < x + 1
  BY <1>1, <1>2
<1> QED BY <1>3, <1>4 DEF g

(* One video frame further the project is moved by one presentation time;   *)
(* past the range every frame of it has been shown.                         *)
LEMMA Position ==
  ASSUME FramesInv, Video, pass.state \in Working
  PROVE  /\ NextFrame.amount \in 0..(Steps - 1)
         /\ ~IsPastEnd => /\ NextFrame.frame \in 0..LastFrame /\ NextFrame.frame <= pass.to
                          /\ (NextFrame.frame - pass.from) * Steps + NextFrame.amount = VideoPTS + 1
         /\ IsPastEnd => VideoPTS + 1 = WholeRange
<1> DEFINE d == view.frame - pass.from
           a == pass.amount
<1>1. /\ d \in Int /\ a \in 0..(Steps - 1) /\ Steps \in Nat \ {0} /\ LastFrame \in Nat
      /\ view.frame <= pass.to /\ view.frame \in Int /\ pass.from \in Int /\ pass.to \in Int
      /\ 0 <= view.frame /\ pass.to <= LastFrame
  BY FramesTyped, Numbers DEF FramesInv, Frames, InRange
<1>2. VideoPTS = d * Steps + a
  BY DEF VideoPTS
<1>3. CASE a + 1 = Steps
  <2>1. NextFrame = [frame |-> view.frame + 1, amount |-> 0]
    BY <1>3 DEF NextFrame
  <2>2. (d + 1) * Steps = d * Steps + Steps
    BY <1>1
  <2>3. d * Steps \in Int
    BY <1>1
  <2>4. (d + 1) * Steps + 0 = VideoPTS + 1
    BY <1>1, <1>2, <1>3, <2>2, <2>3
  <2>5. (view.frame + 1) - pass.from = d + 1 /\ view.frame + 1 \in Int
    BY <1>1
  <2>6. IsPastEnd => pass.to - pass.from + 1 = d + 1
    BY <1>1, <2>1 DEF IsPastEnd
  <2> HIDE DEF d
  <2>7. IsPastEnd => VideoPTS + 1 = WholeRange
    <3>1. (d + 1) * Steps = VideoPTS + 1
      BY <1>1, <1>2, <1>3, <2>2, <2>3
    <3> QED BY <2>6, <3>1 DEF WholeRange
  <2>8. ~IsPastEnd => view.frame + 1 <= pass.to
    BY <1>1, <2>1 DEF IsPastEnd
  <2> QED BY <1>1, <2>1, <2>4, <2>5, <2>7, <2>8
<1>4. CASE a + 1 # Steps
  <2>1. NextFrame = [frame |-> view.frame, amount |-> a + 1]
    BY <1>4 DEF NextFrame
  <2>2. ~IsPastEnd
    BY <1>1, <2>1 DEF IsPastEnd
  <2>3. d * Steps \in Int
    BY <1>1
  <2>4. d * Steps + (a + 1) = VideoPTS + 1
    BY <1>1, <1>2, <2>3
  <2>5. NextFrame.amount = a + 1 /\ NextFrame.frame = view.frame
    BY <2>1
  <2>6. a + 1 \in 0..(Steps - 1) /\ view.frame \in 0..LastFrame
    BY <1>1, <1>4
  <2> QED BY <1>1, <2>2, <2>4, <2>5, <2>6
<1> QED BY <1>3, <1>4

(* What a seek makes of the pass, whatever it was given to save.            *)
LEMMA Progress ==
  ASSUME FramesInv, Video, pass.state \in Working,
         NEW p \in PassType, NEW s \in States, p.from = pass.from, p.to = pass.to,
         SeekAndProgress(p, s)
  PROVE  /\ pass'.output = p.output /\ pass'.starts = p.starts /\ pass'.from = p.from
         /\ pass'.to = p.to /\ pass'.last = p.last /\ pass'.plugin = p.plugin
         /\ pass'.state = (IF IsPastEnd THEN "finished" ELSE s)
         /\ ~IsPastEnd => VideoPTS' = VideoPTS + 1 /\ view'.frame <= pass.to
         /\ IsPastEnd => VideoPTS + 1 = WholeRange
<1>1. /\ pass' = [p EXCEPT !.amount = NextFrame.amount,
                           !.state = IF IsPastEnd THEN "finished" ELSE s]
      /\ view' = [view EXCEPT !.frame = IF IsPastEnd THEN view.frame ELSE NextFrame.frame]
  BY DEF SeekAndProgress, Captured
<1>2. /\ pass'.output = p.output /\ pass'.starts = p.starts /\ pass'.from = p.from
      /\ pass'.to = p.to /\ pass'.last = p.last /\ pass'.plugin = p.plugin
      /\ pass'.amount = NextFrame.amount
      /\ pass'.state = (IF IsPastEnd THEN "finished" ELSE s)
  BY <1>1 DEF PassType
<1>3. ~IsPastEnd => view'.frame = NextFrame.frame
  BY <1>1, FramesTyped DEF View
<1>4. VideoPTS' = (view'.frame - pass'.from) * Steps + pass'.amount
  BY DEF VideoPTS
<1> QED BY <1>2, <1>3, <1>4, Position

(* A step that moves neither the project nor the file and hands out no read *)
(* keeps what holds of the file; one that stops the encoder does too.       *)
LEMMA QuietKeepsFrames ==
  ASSUME FramesInv, pass'.output = pass.output, pass'.starts = pass.starts,
         pass'.from = pass.from, pass'.to = pass.to, pass'.amount = pass.amount,
         pass'.last = pass.last, pass'.plugin => pass.plugin,
         Video => sink'.file = sink.file, UNCHANGED reads,
         pass'.state \in Working =>
           /\ pass.state \in Working /\ view'.frame = view.frame
           /\ thread'.next = "none" => thread.next = "none" /\ pass'.plugin = pass.plugin
  PROVE  Frames'
<1>1. Fresh'
  BY DEF FramesInv, Frames, Fresh
<1>2. InRange'
  BY DEF FramesInv, Frames, InRange, Video
<1>3. pass'.state \in Working => VideoPTS' = VideoPTS
  BY DEF VideoPTS
<1>4. ASSUME pass.starts = 1, Video
      PROVE  RecorderIsAt' /\ DeferredIsBehind' /\ PluginIsAt' /\ ReadsAreAhead'
  <2>1. /\ RecorderIsAt /\ DeferredIsBehind /\ PluginIsAt /\ ReadsAreAhead
        /\ sink'.file = sink.file
    BY <1>4 DEF FramesInv, Frames, FileIsAt
  <2>2. RecorderIsAt'
    BY <1>3, <2>1 DEF RecorderIsAt, Numbered
  <2>3. DeferredIsBehind'
    BY <1>3, <2>1 DEF DeferredIsBehind, Rising
  <2>4. PluginIsAt'
    BY <1>3, <2>1 DEF PluginIsAt, Numbered
  <2>5. ReadsAreAhead'
    BY <1>3, <2>1 DEF ReadsAreAhead, Numbered
  <2> QED BY <2>2, <2>3, <2>4, <2>5
<1>5. ~Video => FileIsAt'
  BY DEF FileIsAt, Video, RecorderIsAt, DeferredIsBehind, PluginIsAt, ReadsAreAhead
<1>6. FileIsAt'
  BY <1>4, <1>5 DEF FileIsAt
<1> QED BY <1>1, <1>2, <1>6 DEF Frames

(* The same of a step that leaves the pass, the project and the file alone. *)
LEMMA IdleKeepsFrames ==
  ASSUME FramesInv, UNCHANGED <<view, pass, reads>>, Video => sink'.file = sink.file,
         thread'.next = "none" => thread.next = "none" \/ pass.state \notin Working
  PROVE  Frames'
BY QuietKeepsFrames

LEMMA RequestKeepsFrames ==
  ASSUME FramesInv, RequestImage \/ RequestVideo PROVE StartsOnce' /\ Frames'
<1>1. /\ MenuIsEnabled /\ reads = <<>> /\ UNCHANGED <<app, view, thread, reads, sink>>
      /\ ui.panels = 0 /\ ui.dialog = "none" /\ ui \in UiType
  BY FramesTyped
     DEF RequestImage, RequestVideo, MenuIsEnabled, FramesInv, TraceInv, Inv, ReadsAreOver
<1>2. ui'.panels = 0
  <2>1. \/ ui' = [ui EXCEPT !.listeners = ui.listeners + 1]
        \/ ui' = [ui EXCEPT !.listeners = ui.listeners + 1, !.dialog = "config"]
        \/ ui' = [ui EXCEPT !.dialog = "config"]
    BY DEF RequestImage, RequestVideo
  <2> QED BY <1>1, <2>1 DEF UiType
<1>3. CASE pass' = pass /\ ui' = [ui EXCEPT !.listeners = ui.listeners + 1]
  <2>1. ui'.dialog = "none"
    BY <1>1, <1>3 DEF UiType
  <2>2. StartsOnce'
    BY <1>1, <1>2, <1>3, <2>1 DEF FramesInv, StartsOnce, Video
  <2> QED BY <1>1, <1>3, <2>2, IdleKeepsFrames
<1>4. CASE \E o : pass' = NewPass(o)
  <2>1. /\ pass'.starts = 0 /\ pass'.state = "none" /\ pass'.amount = 0 /\ pass'.last = -1
        /\ pass'.from = 0 /\ pass'.to = LastFrame
    BY <1>4 DEF NewPass, NoPass
  <2> QED BY <1>1, <1>2, <2>1, Numbers
          DEF StartsOnce, Frames, Fresh, InRange, FileIsAt, Video, Working
<1> QED BY <1>3, <1>4 DEF RequestImage, RequestVideo

LEMMA AcceptKeepsFrames ==
  ASSUME FramesInv, AcceptConfiguration PROVE StartsOnce' /\ Frames'
<1>1. /\ ui.dialog = "config" /\ pass.starts = 0 /\ ui.panels = 0 /\ pass \in PassType
      /\ pass.state \notin Working /\ UNCHANGED <<app, view, thread, reads, sink>>
      /\ pass.amount = 0 /\ pass.last = -1 /\ ui \in UiType
  BY FramesTyped DEF AcceptConfiguration, FramesInv, StartsOnce, TraceInv, NotStarted, Frames, Fresh
<1>2. /\ pass'.output = pass.output /\ pass'.starts = 0 /\ pass'.state = pass.state
      /\ pass'.amount = 0 /\ pass'.last = -1
      /\ Video => pass'.from <= pass'.to
  <2>1. CASE pass.output = "image"
    <3>1. PICK f \in 0..LastFrame : pass' = [pass EXCEPT !.from = f]
      BY <2>1 DEF AcceptConfiguration
    <3> QED BY <1>1, <2>1, <3>1 DEF PassType, Video
  <2>2. CASE pass.output # "image"
    <3>1. PICK f \in 0..LastFrame : \E t \in f..LastFrame :
            pass' = [pass EXCEPT !.from = f, !.to = t, !.plugin = TRUE] \/ pass' = pass
      BY <2>2 DEF AcceptConfiguration
    <3>2. PICK t \in f..LastFrame :
            pass' = [pass EXCEPT !.from = f, !.to = t, !.plugin = TRUE] \/ pass' = pass
      BY <3>1
    <3>3. f <= t
      BY <3>2, Numbers
    <3>4. pass.from <= pass.to
      BY <2>2 DEF FramesInv, Frames, InRange, Video
    <3> QED BY <1>1, <3>2, <3>3, <3>4 DEF PassType, Video
  <2> QED BY <2>1, <2>2
<1>3. ui'.dialog = "none" /\ (Video => ui'.panels = 1)
  <2>1. CASE pass.output = "image"
    BY <2>1 DEF AcceptConfiguration, Video
  <2>2. CASE pass.output # "image"
    <3>1. ui' = [ui EXCEPT !.dialog = "none", !.panels = ui.panels + 1]
      BY <2>2, Zenon DEF AcceptConfiguration
    <3> QED BY <1>1, <3>1 DEF UiType
  <2> QED BY <2>1, <2>2
<1>4. StartsOnce'
  BY <1>2, <1>3 DEF StartsOnce, Video
<1>5. Fresh' /\ InRange' /\ FileIsAt'
  BY <1>1, <1>2 DEF FramesInv, Frames, Fresh, InRange, FileIsAt, Video
<1> QED BY <1>4, <1>5 DEF Frames

LEMMA CancelDialogKeepsFrames ==
  ASSUME FramesInv, CancelConfiguration \/ CancelPanel PROVE StartsOnce' /\ Frames'
<1>t. ui \in UiType /\ thread \in ThreadType /\ ui.panels \in Nat /\ pass.starts \in Nat
  BY FramesTyped, UiCounts
<1>1. UNCHANGED <<app, view, pass, reads, sink>> /\ thread'.next = thread.next
  BY <1>t DEF CancelConfiguration, CancelPanel, Destroying, ThreadType
<1>2. ui'.dialog \in {ui.dialog, "none"} /\ ui'.panels \in Nat /\ ui'.panels <= ui.panels
  <2>1. CASE CancelConfiguration
    <3>1. PICK l : ui' = [ui EXCEPT !.dialog = "none", !.listeners = l]
      BY <2>1 DEF CancelConfiguration
    <3> QED BY <1>t, <3>1 DEF UiType
  <2>2. CASE CancelPanel
    <3>1. ui' = [ui EXCEPT !.panels = ui.panels - 1] /\ ui.panels > 0
      BY <2>2 DEF CancelPanel
    <3> QED BY <1>t, <3>1 DEF UiType
  <2> QED BY <2>1, <2>2
<1>3. StartsOnce'
  BY <1>t, <1>1, <1>2 DEF FramesInv, StartsOnce, Video
<1> QED BY <1>1, <1>3, IdleKeepsFrames

(* An export begins with an empty file, at the first frame of its range.    *)
LEMMA ChooseKeepsFrames ==
  ASSUME FramesInv, ChoosePath PROVE StartsOnce' /\ Frames'
<1>t. /\ ui \in UiType /\ ui.panels \in Nat /\ pass \in PassType /\ sink \in SinkType
      /\ pass.starts \in Nat /\ pass.from \in Int /\ Steps \in Int
  BY FramesTyped, UiCounts, Numbers
<1>i. thread.next = "none" /\ ui.panels > 0 /\ UNCHANGED <<app, reads>>
  BY DEF ChoosePath, Idle
<1>u. /\ ui'.panels = ui.panels - 1 /\ ui'.dialog \in {ui.dialog, "progress"}
  <2>1. \/ ui' = [ui EXCEPT !.panels = ui.panels - 1]
        \/ \E o \in BOOLEAN :
             ui' = [ui EXCEPT !.panels = ui.panels - 1,
                              !.dialog = IF o THEN "progress" ELSE ui.dialog]
    BY DEF ChoosePath
  <2> QED BY <1>t, <2>1 DEF UiType
<1>1. CASE Exists
  <2>1. PICK opens \in BOOLEAN : StartCapture(opens)
    BY <1>1 DEF ChoosePath
  <2>2. /\ pass'.starts = pass.starts + 1 /\ pass'.output = pass.output
        /\ pass'.from = pass.from /\ pass'.to = pass.to /\ pass'.plugin = pass.plugin
        /\ pass'.amount = pass.amount /\ pass'.last = pass.last
        /\ pass'.state \in {"initialized", "cancelled"}
    <3>1. PICK s \in {"initialized", "cancelled"} : pass' = [Saved(pass) EXCEPT !.state = s]
      BY <2>1 DEF StartCapture
    <3> QED BY <1>t, <3>1 DEF Saved, PassType
  <2>3. view'.frame = pass.from
    BY <2>1 DEF StartCapture
  <2>4. StartsOnce'
    <3>1. Video => ui'.panels + pass'.starts <= 1
      BY <1>t, <1>u, <2>2 DEF FramesInv, StartsOnce
    <3>2. ui'.dialog # "config"
      BY <1>i, <1>u DEF FramesInv, StartsOnce
    <3> QED BY <2>2, <3>1, <3>2 DEF StartsOnce, Video
  <2>5. Fresh' /\ InRange'
    <3>1. pass'.starts # 0
      BY <1>t, <2>2
    <3>2. pass.from <= pass.from
      BY <1>t
    <3> QED BY <1>i, <2>2, <2>3, <3>1, <3>2 DEF FramesInv, Frames, Fresh, InRange, Video
  <2>6. ASSUME Video, pass'.starts = 1
        PROVE  RecorderIsAt' /\ DeferredIsBehind' /\ PluginIsAt' /\ ReadsAreAhead'
    <3>1. pass.starts = 0
      BY <1>t, <2>2, <2>6
    <3>2. reads = <<>> /\ pass.amount = 0 /\ pass.last = -1
          /\ (pass.output \in Plugins => pass.plugin)
      BY <1>i, <3>1 DEF FramesInv, TraceInv, NotStarted, Frames, Fresh
    <3>3. sink'.file = <<>>
      BY <1>t, <2>1, <2>6 DEF StartCapture, SinkType, Video
    <3>4. VideoPTS' = 0
      <4>1. (pass.from - pass.from) * Steps + 0 = 0
        BY <1>t
      <4> QED BY <2>2, <2>3, <3>2, <4>1 DEF VideoPTS
    <3>5. Len(sink'.file) = 0 /\ Len(reads') = 0 /\ Numbered(sink'.file) /\ Rising(sink'.file)
      BY <1>i, <3>2, <3>3 DEF Numbered, Rising
    <3> QED BY <2>2, <3>2, <3>4, <3>5
            DEF RecorderIsAt, DeferredIsBehind, PluginIsAt, ReadsAreAhead, Plugins
  <2>7. ~Video => FileIsAt'
    BY <2>2 DEF FileIsAt, Video, RecorderIsAt, DeferredIsBehind, PluginIsAt, ReadsAreAhead
  <2> QED BY <2>4, <2>5, <2>6, <2>7 DEF Frames, FileIsAt
<1>2. CASE ~Exists
  <2>1. UNCHANGED <<view, pass, thread, sink>>
    BY <1>2 DEF ChoosePath
  <2>2. StartsOnce'
    BY <1>t, <1>i, <1>u, <2>1 DEF FramesInv, StartsOnce, Video
  <2> QED BY <1>i, <2>1, <2>2, IdleKeepsFrames
<1> QED BY <1>1, <1>2

(* The draws that capture nothing.                                          *)
LEMMA WarmUpKeepsFrames ==
  ASSUME FramesInv,
         ConfigureViewport \/ WarmUp \/ CaptureImage \/ RecorderNotReady \/ StopCapture
  PROVE  Frames'
<1>t. pass \in PassType /\ thread \in ThreadType /\ thread.next = "none"
  BY FramesTyped DEF ConfigureViewport, WarmUp, CaptureImage, RecorderNotReady, StopCapture,
                     Drawing, Idle
<1>s. ASSUME NEW s, s \in Working => pass.state \in Working,
             \/ pass' = [pass EXCEPT !.state = s]
             \/ \E n : pass' = [pass EXCEPT !.blits = n, !.state = s],
             UNCHANGED <<view, reads>>, Video => sink' = sink
      PROVE  Frames'
  <2>1. /\ pass'.output = pass.output /\ pass'.starts = pass.starts /\ pass'.from = pass.from
        /\ pass'.to = pass.to /\ pass'.amount = pass.amount /\ pass'.last = pass.last
        /\ pass'.plugin = pass.plugin /\ pass'.state = s
    BY <1>t, <1>s DEF PassType
  <2> QED BY <1>t, <1>s, <2>1, QuietKeepsFrames
<1>1. CASE ConfigureViewport
  BY <1>s, <1>1 DEF ConfigureViewport, Captured, Working
<1>2. CASE WarmUp
  <2>1. PICK s \in {"ready", "blitted"} :
          \/ pass' = [pass EXCEPT !.state = s]
          \/ pass' = [pass EXCEPT
                !.blits = IF pass.blits < 3 THEN pass.blits + 1 ELSE pass.blits, !.state = s]
    BY <1>2 DEF WarmUp, Blitted, Captured
  <2>2. pass.state \in Working /\ UNCHANGED <<view, reads, sink>>
    BY <1>2 DEF WarmUp, IsReady, Working
  <2> QED BY <1>s, <2>1, <2>2
<1>3. CASE CaptureImage
  BY <1>s, <1>3 DEF CaptureImage, Captured, Working, Video
<1>4. CASE RecorderNotReady
  BY <1>s, <1>4 DEF RecorderNotReady, Captured, Working
<1>5. CASE StopCapture
  BY <1>t, <1>5, IdleKeepsFrames DEF StopCapture
<1> QED BY <1>1, <1>2, <1>3, <1>4, <1>5

(* What a draw that captures a frame of a video finds.                      *)
LEMMA CapturingParts ==
  ASSUME FramesInv, CaptureAndEncode \/ CaptureAsync \/ RecordFrame
  PROVE  /\ Video /\ pass.state \in Working /\ thread.next = "none"
         /\ pass.starts = 1 /\ RecorderIsAt /\ DeferredIsBehind /\ PluginIsAt /\ ReadsAreAhead
<1>1. Video /\ pass.state \in Working /\ thread.next = "none"
  BY DEF CaptureAndEncode, CaptureAsync, RecordFrame, Drawing, Idle, IsReady, Working, Video,
         Recorders
<1>2. pass.starts = 1
  BY <1>1, StartedVideo, WorkingIsStarted
<1> QED BY <1>1, <1>2 DEF FramesInv, Frames, FileIsAt

(* A seek keeps the range; past its end the pass is not working any more.   *)
LEMMA SeekKeepsRange ==
  ASSUME FramesInv, Video, pass.state \in Working, pass.starts = 1,
         NEW p \in PassType, NEW s \in States, p.from = pass.from, p.to = pass.to,
         p.output = pass.output, p.starts = pass.starts,
         pass.output # "asyncPlugin" => UNCHANGED reads, SeekAndProgress(p, s)
  PROVE  Fresh' /\ InRange'
<1>1. /\ pass'.output = pass.output /\ pass'.starts = 1 /\ pass'.from = pass.from
      /\ pass'.to = pass.to /\ pass'.state = (IF IsPastEnd THEN "finished" ELSE s)
      /\ ~IsPastEnd => view'.frame <= pass.to
  BY Progress
<1>2. pass'.state \in Working => view'.frame <= pass.to
  BY <1>1 DEF Working
<1> QED BY <1>1, <1>2 DEF FramesInv, Frames, Fresh, InRange, Video

(* The encoder of a plugin is given every frame: the frame shown is always  *)
(* past the last one it took.                                              *)
LEMMA EncodeKeepsFrames ==
  ASSUME FramesInv, CaptureAndEncode PROVE Frames'
<1>p. /\ Video /\ pass.state \in Working /\ pass.starts = 1 /\ pass.output = "plugin"
      /\ pass.plugin /\ Len(sink.file) = VideoPTS /\ pass.last = VideoPTS - 1
      /\ Numbered(sink.file) /\ UNCHANGED reads
  BY CapturingParts DEF CaptureAndEncode, PluginIsAt
<1>t. /\ sink \in SinkType /\ sink.file \in Seq(Int) /\ VideoPTS \in Int /\ pass \in PassType
  BY FramesTyped
<1>1. CanEncode(VideoPTS)
  BY <1>p, <1>t DEF CanEncode
<1>2. PICK s \in {"blitted", "cancelled"} :
        /\ SeekAndProgress([pass EXCEPT !.last = VideoPTS], s)
        /\ IF s = "blitted" THEN sink' = Written(VideoPTS)
                            ELSE sink' = [sink EXCEPT !.state = "failed"]
  BY <1>1 DEF CaptureAndEncode
<1> DEFINE p == [pass EXCEPT !.last = VideoPTS]
<1>3. /\ p \in PassType /\ p.from = pass.from /\ p.to = pass.to /\ p.output = pass.output
      /\ p.starts = pass.starts /\ p.last = VideoPTS /\ p.plugin = pass.plugin
  BY <1>t DEF PassType
<1>4. s \in States /\ SeekAndProgress(p, s)
  BY <1>2, StateNames
<1> HIDE DEF p
<1>5. Fresh' /\ InRange'
  BY <1>3, <1>4, <1>p, SeekKeepsRange
<1>6. /\ pass'.output = "plugin" /\ pass'.last = VideoPTS /\ pass'.plugin
      /\ pass'.state = (IF IsPastEnd THEN "finished" ELSE s)
      /\ ~IsPastEnd => VideoPTS' = VideoPTS + 1
  BY <1>3, <1>4, <1>p, Progress
<1>7. /\ sink'.file = IF s = "blitted" THEN Append(sink.file, VideoPTS) ELSE sink.file
  BY <1>2, <1>t DEF Written, SinkType
<1>8. Numbered(sink'.file)
  BY <1>7, <1>p, <1>t, AppendNumbered
<1>9. pass'.state \in Working => ~IsPastEnd /\ s = "blitted"
  BY <1>6 DEF Working
<1>10. s = "blitted" => Len(sink'.file) = VideoPTS + 1
  BY <1>7, <1>p, <1>t
<1>11. pass'.state \in Working =>
         pass'.plugin /\ Len(sink'.file) = VideoPTS' /\ pass'.last = VideoPTS' - 1
  BY <1>6, <1>9, <1>10, <1>t
<1>12. FileIsAt'
  BY <1>6, <1>8, <1>11 DEF FileIsAt, RecorderIsAt, DeferredIsBehind, PluginIsAt, ReadsAreAhead
<1> QED BY <1>5, <1>12 DEF Frames

(* A read is handed out for the frame shown, which follows those of the     *)
(* reads before it.                                                        *)
LEMMA AsyncKeepsFrames ==
  ASSUME FramesInv, CaptureAsync PROVE Frames'
<1>p. /\ Video /\ pass.state \in Working /\ pass.starts = 1 /\ pass.output = "asyncPlugin"
      /\ ReadsAreAhead /\ UNCHANGED sink /\ SeekAndProgress(pass, "blitted")
      /\ reads' = Append(reads, [pts |-> VideoPTS, stage |-> "submitted"])
  BY CapturingParts DEF CaptureAsync
<1>t. /\ sink.file \in Seq(Int) /\ VideoPTS \in Int /\ pass \in PassType /\ reads \in Seq(Read)
      /\ Len(sink.file) \in Nat /\ "blitted" \in States
  BY FramesTyped, StateNames
<1>1. Fresh' /\ InRange'
  BY <1>p, <1>t, SeekKeepsRange
<1>2. /\ pass'.output = "asyncPlugin" /\ pass'.last = pass.last /\ pass'.plugin = pass.plugin
      /\ pass'.state = (IF IsPastEnd THEN "finished" ELSE "blitted")
      /\ ~IsPastEnd => VideoPTS' = VideoPTS + 1
  BY <1>p, <1>t, Progress
<1>3. /\ Len(reads') = Len(reads) + 1 /\ Len(reads) \in Nat
      /\ \A j \in 1..Len(reads) : reads'[j] = reads[j]
      /\ reads'[Len(reads) + 1].pts = VideoPTS
  BY <1>p, <1>t
<1>4. ASSUME pass.plugin
      PROVE  /\ \A j \in 1..Len(reads') : reads'[j].pts = Len(sink.file) + j - 1
             /\ pass'.state \in Working => VideoPTS' = Len(sink.file) + Len(reads')
  <2>1. /\ \A j \in 1..Len(reads) : reads[j].pts = Len(sink.file) + j - 1
        /\ VideoPTS = Len(sink.file) + Len(reads)
    BY <1>4, <1>p DEF ReadsAreAhead
  <2>2. pass'.state \in Working => ~IsPastEnd
    BY <1>2 DEF Working
  <2>3. \A j \in 1..Len(reads') : j \in 1..Len(reads) \/ j = Len(reads) + 1
    BY <1>3
  <2>4. \A j \in 1..Len(reads') : reads'[j].pts = Len(sink.file) + j - 1
    <3> SUFFICES ASSUME NEW j \in 1..Len(reads')
                 PROVE  reads'[j].pts = Len(sink.file) + j - 1
      OBVIOUS
    <3>1. CASE j \in 1..Len(reads)
      BY <1>3, <2>1, <3>1
    <3>2. CASE j = Len(reads) + 1
      <4>1. reads'[j].pts = VideoPTS
        BY <1>3, <3>2
      <4> QED BY <1>3, <1>t, <2>1, <3>2, <4>1
    <3> QED BY <2>3, <3>1, <3>2
  <2>5. pass'.state \in Working => VideoPTS' = Len(sink.file) + Len(reads')
    <3>1. pass'.state \in Working => VideoPTS' = VideoPTS + 1
      BY <1>2, <2>2
    <3>2. Len(sink.file) + Len(reads') = VideoPTS + 1
      <4>1. VideoPTS = Len(sink.file) + Len(reads) /\ Len(reads') = Len(reads) + 1
        BY <1>3, <2>1
      <4>2. Len(sink.file) \in Int /\ Len(reads) \in Int
        BY <1>3, <1>t
      <4>3. \A l, r \in Int : l + (r + 1) = (l + r) + 1
        OBVIOUS
      <4>4. Len(sink.file) + (Len(reads) + 1) = (Len(sink.file) + Len(reads)) + 1
        BY <4>2, <4>3
      <4> QED BY <4>1, <4>4, Zenon
    <3> QED BY <3>1, <3>2
  <2> QED BY <2>4, <2>5
<1>5. FileIsAt'
  BY <1>2, <1>4, <1>p DEF FileIsAt, RecorderIsAt, DeferredIsBehind, PluginIsAt, ReadsAreAhead
<1> QED BY <1>1, <1>5 DEF Frames

(* A recorder is given each frame shown; a deferred one may miss a frame,   *)
(* but takes none after one that was shown later.                          *)
LEMMA RecordKeepsFrames ==
  ASSUME FramesInv, RecordFrame PROVE Frames'
<1>p. /\ Video /\ pass.state \in Working /\ pass.starts = 1 /\ thread.next = "none"
      /\ pass.output \in Recorders /\ RecorderIsAt /\ DeferredIsBehind /\ UNCHANGED reads
  BY CapturingParts DEF RecordFrame
<1>t. /\ sink \in SinkType /\ sink.file \in Seq(Int) /\ VideoPTS \in Int /\ pass \in PassType
      /\ "ready" \in States /\ Len(sink.file) \in Nat
  BY FramesTyped, StateNames
<1>f. /\ sink'.file \in {sink.file, Append(sink.file, VideoPTS)}
      /\ pass.output = "recorder" => sink'.file = Append(sink.file, VideoPTS)
  <2>1. PICK takes \in BOOLEAN :
          LET dropped == pass.output = "deferredRecorder" /\ (IsPastEnd \/ ~takes)
              out == IF dropped THEN sink ELSE Written(VideoPTS)
          IN sink' = IF IsPastEnd THEN [out EXCEPT !.state = "closed"] ELSE out
    BY DEF RecordFrame
  <2>2. PICK out \in {sink, Written(VideoPTS)} :
          /\ sink' = out \/ sink' = [out EXCEPT !.state = "closed"]
          /\ pass.output = "recorder" => out = Written(VideoPTS)
    BY <2>1
  <2>3. out \in SinkType /\ Written(VideoPTS).file = Append(sink.file, VideoPTS)
    BY <1>t, <2>2, FramesTyped, WrittenIsTyped DEF Written, SinkType
  <2>4. sink'.file = out.file
    BY <2>2, <2>3 DEF SinkType
  <2> QED BY <2>2, <2>3, <2>4
<1>n. pass.output = "recorder" => Numbered(sink'.file) /\ Len(sink'.file) = VideoPTS + 1
  <2> SUFFICES ASSUME pass.output = "recorder"
               PROVE  Numbered(sink'.file) /\ Len(sink'.file) = VideoPTS + 1
    OBVIOUS
  <2>1. Numbered(sink.file) /\ Len(sink.file) = VideoPTS
    BY <1>p DEF RecorderIsAt
  <2>2. sink'.file = Append(sink.file, Len(sink.file))
    BY <1>f, <2>1
  <2>3. Numbered(Append(sink.file, Len(sink.file)))
    BY <1>t, <2>1, AppendNumbered
  <2>4. Len(Append(sink.file, Len(sink.file))) = VideoPTS + 1
    BY <1>t, <2>1
  <2> QED BY <2>2, <2>3, <2>4
<1>r. pass.output = "deferredRecorder" =>
        Rising(sink'.file) /\ \A i \in 1..Len(sink'.file) : sink'.file[i] < VideoPTS + 1
  <2> SUFFICES ASSUME pass.output = "deferredRecorder"
               PROVE  Rising(sink'.file) /\ \A i \in 1..Len(sink'.file) : sink'.file[i] < VideoPTS + 1
    OBVIOUS
  <2>1. Rising(sink.file) /\ \A i \in 1..Len(sink.file) : sink.file[i] < VideoPTS
    BY <1>p DEF DeferredIsBehind
  <2>2. CASE sink'.file = sink.file
    <3>1. \A i \in 1..Len(sink.file) : sink.file[i] \in Int
      BY <1>t
    <3> QED BY <1>t, <2>1, <2>2, <3>1
  <2>3. CASE sink'.file = Append(sink.file, VideoPTS)
    BY <1>t, <2>1, <2>3, AppendRising
  <2> QED BY <1>f, <2>2, <2>3
<1>1. CASE Captured([pass EXCEPT !.state = "cancelled"]) /\ UNCHANGED view
  <2>1. /\ pass'.output = pass.output /\ pass'.starts = 1 /\ pass'.from = pass.from
        /\ pass'.to = pass.to /\ pass'.state = "cancelled"
    BY <1>1, <1>p, <1>t DEF Captured, PassType
  <2>2. Fresh' /\ InRange'
    BY <1>p, <2>1 DEF FramesInv, Frames, Fresh, InRange, Video, Working
  <2>3. FileIsAt'
    BY <1>n, <1>r, <1>p, <2>1
       DEF FileIsAt, RecorderIsAt, DeferredIsBehind, PluginIsAt, ReadsAreAhead, Working, Recorders
  <2> QED BY <2>2, <2>3 DEF Frames
<1>2. CASE SeekAndProgress(pass, "ready")
  <2>1. Fresh' /\ InRange'
    BY <1>2, <1>p, <1>t, SeekKeepsRange
  <2>2. /\ pass'.output = pass.output
        /\ pass'.state = (IF IsPastEnd THEN "finished" ELSE "ready")
        /\ ~IsPastEnd => VideoPTS' = VideoPTS + 1
    BY <1>2, <1>p, <1>t, Progress
  <2>3. pass'.state \in Working => VideoPTS' = VideoPTS + 1
    BY <2>2 DEF Working
  <2>4. FileIsAt'
    BY <1>n, <1>r, <1>p, <2>2, <2>3
       DEF FileIsAt, RecorderIsAt, DeferredIsBehind, PluginIsAt, ReadsAreAhead, Recorders
  <2> QED BY <2>1, <2>4 DEF Frames
<1> QED BY <1>1, <1>2 DEF RecordFrame

LEMMA DrawKeepsFrames == ASSUME FramesInv, Draw PROVE StartsOnce' /\ Frames'
<1>1. Frames'
  BY WarmUpKeepsFrames, EncodeKeepsFrames, AsyncKeepsFrames, RecordKeepsFrames DEF Draw
<1>2. ui \in UiType /\ Typed /\ pass \in PassType
  BY FramesTyped
<1>3. ui'.dialog \in {ui.dialog, "none"} /\ ui'.panels = ui.panels
  <2>1. CASE RecordFrame
    <3>1. ui' = [ui EXCEPT !.dialog = "none"] \/ ui' = [ui EXCEPT !.dialog = ui.dialog]
      BY <2>1, Zenon DEF RecordFrame
    <3> QED BY <1>2, <3>1 DEF UiType
  <2>2. CASE ~RecordFrame
    BY <2>2 DEF Draw, ConfigureViewport, WarmUp, CaptureImage, CaptureAndEncode, CaptureAsync,
                RecorderNotReady, StopCapture
  <2> QED BY <2>1, <2>2
<1>4. pass'.starts = pass.starts /\ pass'.output = pass.output
  BY DrawParts DEF FramesInv, TraceInv, StopCapture
<1> QED BY <1>1, <1>3, <1>4 DEF FramesInv, StartsOnce, Video

(* While the encoder is there every read is encoded when it completes; one  *)
(* is skipped only after the encoder was stopped.                          *)
LEMMA BeginReadKeepsFrames ==
  ASSUME FramesInv, BeginRead PROVE StartsOnce' /\ Frames'
<1>1. /\ UNCHANGED <<app, ui, view, pass, thread, sink>> /\ reads # <<>>
      /\ reads' = IF CanEncode(Head(reads).pts)
                    THEN [reads EXCEPT ![1].stage = "encoding"] ELSE Tail(reads)
  BY DEF BeginRead
<1>t. /\ reads \in Seq(Read) /\ Len(reads) \in Nat \ {0} /\ Len(sink.file) \in Nat
      /\ reads[1] \in Read
  BY <1>1, FramesTyped
<1>2. StartsOnce'
  BY <1>1 DEF FramesInv, StartsOnce, Video
<1>3. pass.output = "asyncPlugin"
  BY <1>1 DEF FramesInv, Frames, Fresh
<1>4. Fresh' /\ InRange'
  BY <1>1, <1>3 DEF FramesInv, Frames, Fresh, InRange, Video
<1>5. ASSUME pass.starts = 1 PROVE ReadsAreAhead'
  <2>1. ReadsAreAhead
    BY <1>5 DEF FramesInv, Frames, FileIsAt
  <2>2. CASE pass.plugin
    <3>1. /\ pass.last = Len(sink.file) - 1
          /\ \A j \in 1..Len(reads) : reads[j].pts = Len(sink.file) + j - 1
      BY <1>3, <2>1, <2>2 DEF ReadsAreAhead
    <3>2. Head(reads).pts = Len(sink.file)
      BY <1>1, <1>t, <3>1
    <3>3. CanEncode(Head(reads).pts)
      BY <1>t, <2>2, <3>1, <3>2 DEF CanEncode
    <3>4. /\ Len(reads') = Len(reads)
          /\ \A j \in 1..Len(reads) : reads'[j].pts = reads[j].pts
      BY <1>1, <1>t, <3>3 DEF Read
    <3> QED BY <1>1, <2>1, <3>4 DEF ReadsAreAhead, VideoPTS
  <2>3. CASE ~pass.plugin
    BY <1>1, <2>1, <2>3 DEF ReadsAreAhead
  <2> QED BY <2>2, <2>3
<1>6. FileIsAt'
  BY <1>1, <1>3, <1>5 DEF FileIsAt, RecorderIsAt, DeferredIsBehind, PluginIsAt
<1> QED BY <1>2, <1>4, <1>6 DEF Frames

LEMMA EncodeReadKeepsFrames ==
  ASSUME FramesInv, EncodeRead PROVE StartsOnce' /\ Frames'
<1>1. UNCHANGED <<ui, view, thread>> /\ reads # <<>>
  BY DEF EncodeRead
<1>t. /\ reads \in Seq(Read) /\ Len(reads) \in Nat \ {0} /\ Len(sink.file) \in Nat
      /\ pass \in PassType /\ sink \in SinkType /\ sink.file \in Seq(Int) /\ Typed
  BY <1>1, FramesTyped
<1>o. /\ pass.output = "asyncPlugin" /\ Video /\ pass.starts # 0
  BY <1>1 DEF FramesInv, Frames, Fresh, TraceInv, NotStarted, Video
<1>s. pass.starts = 1
  BY <1>o, StartedVideo
<1>a. ReadsAreAhead
  BY <1>s DEF FramesInv, Frames, FileIsAt
<1>w. ASSUME /\ pass'.output = pass.output /\ pass'.starts = pass.starts
             /\ pass'.from = pass.from /\ pass'.to = pass.to
             /\ pass'.state \in Working => pass.state \in Working,
             ReadsAreAhead'
      PROVE  StartsOnce' /\ Frames'
  <2>1. StartsOnce' /\ Fresh' /\ InRange'
    BY <1>1, <1>w, <1>o, <1>s DEF FramesInv, StartsOnce, Frames, Fresh, InRange, Video
  <2>2. FileIsAt'
    BY <1>w, <1>o DEF FileIsAt, RecorderIsAt, DeferredIsBehind, PluginIsAt
  <2> QED BY <2>1, <2>2 DEF Frames
<1>2. CASE /\ sink' = IF pass.plugin THEN Written(Head(reads).pts) ELSE sink
           /\ pass' = [pass EXCEPT !.last = Head(reads).pts] /\ reads' = Tail(reads)
  <2>1. /\ pass'.output = pass.output /\ pass'.starts = pass.starts
        /\ pass'.from = pass.from /\ pass'.to = pass.to /\ pass'.amount = pass.amount
        /\ pass'.state = pass.state /\ pass'.plugin = pass.plugin
        /\ pass'.last = Head(reads).pts
    BY <1>t, <1>2 DEF PassType
  <2>2. CASE pass.plugin
    <3>1. /\ Numbered(sink.file)
          /\ \A j \in 1..Len(reads) : reads[j].pts = Len(sink.file) + j - 1
          /\ pass.state \in Working => VideoPTS = Len(sink.file) + Len(reads)
      BY <1>o, <1>a, <2>2 DEF ReadsAreAhead
    <3>2. Head(reads).pts = Len(sink.file)
      BY <1>1, <1>t, <3>1
    <3>3. sink'.file = Append(sink.file, Len(sink.file))
      BY <1>2, <1>t, <2>2, <3>2 DEF Written, SinkType
    <3>4. Numbered(sink'.file) /\ Len(sink'.file) = Len(sink.file) + 1
      BY <1>t, <3>1, <3>3, AppendNumbered, AppendParts
    <3>5. /\ Len(reads') = Len(reads) - 1
          /\ \A j \in 1..Len(reads') : reads'[j] = reads[j + 1] /\ j + 1 \in 1..Len(reads)
      BY <1>2, <1>t
    <3>6. \A j \in 1..Len(reads') : reads'[j].pts = Len(sink'.file) + j - 1
      <4> SUFFICES ASSUME NEW j \in 1..Len(reads')
                   PROVE  reads'[j].pts = Len(sink'.file) + j - 1
        OBVIOUS
      <4>1. j \in Int /\ j + 1 \in 1..Len(reads) /\ reads'[j] = reads[j + 1]
        BY <1>t, <3>5
      <4>2. reads[j + 1].pts = Len(sink.file) + (j + 1) - 1
        BY <3>1, <4>1
      <4> QED BY <1>t, <3>4, <4>1, <4>2
    <3>7. VideoPTS' = VideoPTS
      BY <1>1, <2>1 DEF VideoPTS
    <3>8. pass'.state \in Working => VideoPTS' = Len(sink'.file) + Len(reads')
      BY <1>t, <2>1, <3>1, <3>4, <3>5, <3>7
    <3>9. pass'.last = Len(sink'.file) - 1
      BY <1>t, <2>1, <3>2, <3>4
    <3>10. ReadsAreAhead'
      BY <3>4, <3>6, <3>8, <3>9 DEF ReadsAreAhead
    <3> QED BY <1>w, <2>1, <3>10
  <2>3. CASE ~pass.plugin
    <3>1. ReadsAreAhead'
      BY <1>2, <1>a, <2>1, <2>3 DEF ReadsAreAhead
    <3> QED BY <1>w, <2>1, <3>1
  <2> QED BY <2>2, <2>3
<1>3. CASE /\ sink' = StoppedSink
           /\ pass' = [[pass EXCEPT !.last = Head(reads).pts]
                         EXCEPT !.plugin = FALSE, !.state = "cancelled"]
  <2>1. /\ pass'.output = pass.output /\ pass'.starts = pass.starts
        /\ pass'.from = pass.from /\ pass'.to = pass.to
        /\ pass'.state = "cancelled" /\ ~pass'.plugin
    BY <1>t, <1>3 DEF PassType
  <2>2. sink'.file = sink.file
    BY <1>t, <1>3 DEF StoppedSink, SinkType
  <2>3. ReadsAreAhead'
    BY <1>a, <2>1, <2>2 DEF ReadsAreAhead
  <2> QED BY <1>w, <2>1, <2>3 DEF Working
<1>4. CASE UNCHANGED <<pass, reads, sink>>
  <2>1. ReadsAreAhead'
    BY <1>1, <1>4, <1>a DEF ReadsAreAhead, VideoPTS
  <2> QED BY <1>w, <1>4, <2>1
<1> QED BY <1>2, <1>3, <1>4 DEF EncodeRead

LEMMA RejectReadKeepsFrames ==
  ASSUME FramesInv, RejectRead PROVE StartsOnce' /\ Frames'
<1>1. /\ UNCHANGED <<app, ui, view, thread>> /\ reads # <<>> /\ sink' = StoppedSink
      /\ pass' = [StoppedPass EXCEPT !.state = "cancelled"]
  BY DEF RejectRead
<1>t. pass \in PassType /\ sink \in SinkType /\ Typed
  BY FramesTyped
<1>o. pass.output = "asyncPlugin" /\ Video /\ pass.starts = 1
  <2>1. pass.output = "asyncPlugin" /\ Video /\ pass.starts # 0
    BY <1>1 DEF FramesInv, Frames, Fresh, TraceInv, NotStarted, Video
  <2> QED BY <2>1, StartedVideo
<1>a. ReadsAreAhead
  BY <1>o DEF FramesInv, Frames, FileIsAt
<1>2. /\ pass'.output = pass.output /\ pass'.starts = pass.starts
      /\ pass'.from = pass.from /\ pass'.to = pass.to
      /\ pass'.state = "cancelled" /\ ~pass'.plugin
  BY <1>t, <1>1 DEF StoppedPass, PassType
<1>3. sink'.file = sink.file
  BY <1>t, <1>1 DEF StoppedSink, SinkType
<1>4. ReadsAreAhead'
  BY <1>a, <1>2, <1>3 DEF ReadsAreAhead
<1>5. FileIsAt'
  BY <1>2, <1>4, <1>o DEF FileIsAt, RecorderIsAt, DeferredIsBehind, PluginIsAt
<1>6. StartsOnce' /\ Fresh' /\ InRange'
  BY <1>1, <1>2, <1>o DEF FramesInv, StartsOnce, Frames, Fresh, InRange, Video, Working
<1> QED BY <1>5, <1>6 DEF Frames

LEMMA SetStateKeepsFrames ==
  ASSUME FramesInv, SetState PROVE StartsOnce' /\ Frames'
<1>t. pass \in PassType /\ thread \in ThreadType
  BY FramesTyped
<1>1. /\ UNCHANGED <<app, ui, view, reads, sink>>
      /\ thread.next \in {"cancelled", "destroyReady", "restored", "destroyed"}
  BY <1>t DEF SetState, ThreadType
<1>2. /\ pass'.output = pass.output /\ pass'.starts = pass.starts /\ pass'.from = pass.from
      /\ pass'.to = pass.to /\ pass'.amount = pass.amount /\ pass'.last = pass.last
      /\ pass'.plugin = pass.plugin /\ pass'.state = thread.next
  BY <1>t DEF SetState, PassType
<1>3. Frames'
  BY <1>1, <1>2, QuietKeepsFrames DEF Working
<1> QED BY <1>1, <1>2, <1>3 DEF FramesInv, StartsOnce, Video

(* An encoder that is stopped is not given a frame before the pass is seen  *)
(* to be cancelled.                                                        *)
LEMMA CancelKeepsFrames ==
  ASSUME FramesInv, CancelCapture \/ TurnWorking PROVE StartsOnce' /\ Frames'
<1>t. pass \in PassType /\ sink \in SinkType /\ ui \in UiType /\ Typed
  BY FramesTyped
<1>1. /\ pass' = StoppedPass /\ sink' = StoppedSink /\ thread'.next = "cancelled"
      /\ UNCHANGED <<app, view, reads>>
      /\ ui' = ui \/ ui' = [ui EXCEPT !.dialog = "none"]
  BY DEF CancelCapture, TurnWorking, Cancelling
<1>2. /\ pass'.output = pass.output /\ pass'.starts = pass.starts /\ pass'.from = pass.from
      /\ pass'.to = pass.to /\ pass'.amount = pass.amount /\ pass'.last = pass.last
      /\ ~pass'.plugin /\ pass'.state = pass.state /\ sink'.file = sink.file
  BY <1>t, <1>1 DEF StoppedPass, StoppedSink, PassType, SinkType
<1>3. Frames'
  BY <1>1, <1>2, QuietKeepsFrames
<1>4. ui'.dialog \in {ui.dialog, "none"} /\ ui'.panels = ui.panels
  BY <1>1, <1>t DEF UiType
<1> QED BY <1>2, <1>3, <1>4 DEF FramesInv, StartsOnce, Video

LEMMA DestructionKeepsFrames ==
  ASSUME FramesInv, TransitDestruction, ~TurnWorking PROVE StartsOnce' /\ Frames'
<1>t. /\ pass \in PassType /\ thread \in ThreadType /\ sink \in SinkType /\ ui \in UiType
      /\ thread.next = "none"
  BY FramesTyped
     DEF TransitDestruction, TurnEnded, TurnDestroyReady, TurnRestored, TurnDestroyed, Turn
<1>1. CASE TurnEnded \/ TurnRestored
  <2>1. UNCHANGED <<app, ui, view, pass, reads, sink>>
    BY <1>1 DEF TurnEnded, TurnRestored
  <2> QED BY <1>t, <2>1, IdleKeepsFrames DEF FramesInv, StartsOnce, Video
<1>2. CASE TurnDestroyReady
  <2>1. pass.state = "destroyReady" /\ UNCHANGED <<app, ui, reads>>
    BY <1>2 DEF TurnDestroyReady, Turn
  <2>2. /\ pass'.output = pass.output /\ pass'.starts = pass.starts /\ pass'.from = pass.from
        /\ pass'.to = pass.to /\ pass'.amount = pass.amount /\ pass'.last = pass.last
        /\ (pass'.plugin => pass.plugin) /\ pass'.state = pass.state
    BY <1>2, <1>t DEF TurnDestroyReady, StoppedPass, PassType
  <2>3. sink'.file = sink.file
    BY <1>2, <1>t DEF TurnDestroyReady, StoppedSink, SinkType
  <2>4. Frames'
    BY <2>1, <2>2, <2>3, QuietKeepsFrames DEF Working
  <2> QED BY <2>1, <2>2, <2>4 DEF FramesInv, StartsOnce, Video
<1>3. CASE TurnDestroyed
  <2>1. /\ pass' = NoPass /\ ui'.dialog = "none" /\ reads' = <<>>
    BY <1>3, <1>t DEF TurnDestroyed, Turn, UiType, FramesInv, TraceInv, Inv, ReadsAreOver
  <2>2. pass'.starts = 0 /\ pass'.amount = 0 /\ pass'.last = -1 /\ pass'.output = "image"
    BY <2>1 DEF NoPass
  <2> QED BY <2>1, <2>2 DEF StartsOnce, Frames, Fresh, InRange, FileIsAt, Video
<1> QED BY <1>1, <1>2, <1>3 DEF TransitDestruction

LEMMA NextKeepsFrames == ASSUME FramesInv, [Next]_vars PROVE FramesInv'
<1>1. TraceInv'
  BY NextKeepsTrace DEF FramesInv
<1>2. CASE UNCHANGED vars \/ Quit \/ RecorderFails
  <2>1. /\ UNCHANGED <<ui, view, pass, reads>> /\ thread'.next = thread.next
        /\ sink'.file = sink.file
    BY <1>2, FramesTyped
       DEF vars, Quit, Destroying, RecorderFails, ThreadType, SinkType
  <2> QED BY <1>1, <2>1, IdleKeepsFrames DEF FramesInv, StartsOnce, Video
<1> QED BY <1>1, <1>2, RequestKeepsFrames, AcceptKeepsFrames, CancelDialogKeepsFrames,
           ChooseKeepsFrames, DrawKeepsFrames, BeginReadKeepsFrames, RejectReadKeepsFrames,
           EncodeReadKeepsFrames, SetStateKeepsFrames, CancelKeepsFrames, DestructionKeepsFrames
        DEF Next, TransitDestruction, FramesInv

LEMMA FramesInvHolds == Spec => []FramesInv
<1>1. Init => FramesInv
  <2> SUFFICES ASSUME Init PROVE FramesInv
    OBVIOUS
  <2>1. Inv
    BY InitIsInv
  <2>2. TraceInv
    BY <2>1, NoPassParts
       DEF Init, TraceInv, NotStarted, StartedOnce, Absent, Exists, Working
  <2>3. pass.starts = 0 /\ pass.amount = 0 /\ pass.last = -1 /\ pass.output = "image"
    BY DEF Init, NoPass
  <2> QED BY <2>2, <2>3
          DEF Init, FramesInv, StartsOnce, Frames, Fresh, InRange, FileIsAt, Video
<1> QED BY <1>1, NextKeepsFrames, PTL DEF Spec

(* The frames of a video follow one another in its file, none missing or    *)
(* written twice, for any range and rate, however late the reads complete   *)
(* and wherever encoding fails or is cancelled; those of a deferred         *)
(* recorder, which may miss some, keep their order.                        *)
THEOREM FramesAreInOrder == Spec => []FramesInOrder
<1>1. FramesInv => FramesInOrder
  <2> SUFFICES ASSUME FramesInv, pass.output # "image", pass.starts = 1,
                      NEW i \in 1..Len(sink.file)
               PROVE  IF pass.output = "deferredRecorder"
                        THEN i > 1 => sink.file[i - 1] < sink.file[i]
                        ELSE sink.file[i] = i - 1
    BY DEF FramesInOrder
  <2>1. RecorderIsAt /\ DeferredIsBehind /\ PluginIsAt /\ ReadsAreAhead
    BY DEF FramesInv, Frames, FileIsAt
  <2>2. pass.output \in {"recorder", "deferredRecorder", "plugin", "asyncPlugin"}
    BY FramesTyped DEF PassType, AllOutputs, Plugins, Recorders
  <2>3. Len(sink.file) \in Nat
    BY FramesTyped
  <2>4. pass.output = "deferredRecorder" => (i > 1 => i \in 2..Len(sink.file))
    BY <2>3
  <2>5. pass.output = "deferredRecorder" => (i > 1 => sink.file[i - 1] < sink.file[i])
    BY <2>1, <2>4 DEF DeferredIsBehind, Rising
  <2>6. pass.output # "deferredRecorder" => sink.file[i] = i - 1
    BY <2>1, <2>2 DEF RecorderIsAt, PluginIsAt, ReadsAreAhead, Numbered
  <2> QED BY <2>5, <2>6
<1> QED BY <1>1, FramesInvHolds, PTL

(* Only the draw that finds the range at its end finishes a video.          *)
LEMMA FinishedParts ==
  ASSUME FramesInv, Next, pass.output \in {"plugin", "recorder"},
         pass.state # "finished", pass'.state = "finished"
  PROVE  CaptureAndEncode \/ RecordFrame
<1>t. Typed /\ pass \in PassType /\ reads = <<>>
  BY FramesTyped DEF FramesInv, Frames, Fresh
<1>1. ~(RequestImage \/ RequestVideo)
  BY <1>t, NewPassParts DEF RequestImage, RequestVideo
<1>2. ~AcceptConfiguration
  <2> SUFFICES ASSUME AcceptConfiguration PROVE FALSE
    OBVIOUS
  <2>1. pass.output # "image"
    OBVIOUS
  <2>2. PICK f \in 0..LastFrame : \E t \in f..LastFrame :
          pass' = IF pass.output \in Plugins
                    THEN [pass EXCEPT !.from = f, !.to = t, !.plugin = TRUE] ELSE pass
    BY <2>1 DEF AcceptConfiguration
  <2>3. PICK t \in f..LastFrame :
          pass' = IF pass.output \in Plugins
                    THEN [pass EXCEPT !.from = f, !.to = t, !.plugin = TRUE] ELSE pass
    BY <2>2
  <2> QED BY <1>t, <2>3 DEF PassType
<1>3. ~ChoosePath
  <2> SUFFICES ASSUME ChoosePath PROVE FALSE
    OBVIOUS
  <2>1. \/ \E s \in {"initialized", "cancelled"} : pass' = [Saved(pass) EXCEPT !.state = s]
        \/ pass' = pass
    BY DEF ChoosePath, StartCapture
  <2>2. Saved(pass) = [pass EXCEPT !.saved = view, !.kept = TRUE, !.starts = pass.starts + 1]
    BY DEF Saved
  <2> QED BY <1>t, <2>1, <2>2 DEF PassType
<1>4. ~(CaptureImage \/ CaptureAsync \/ BeginRead \/ RejectRead \/ EncodeRead)
  BY <1>t DEF CaptureImage, CaptureAsync, BeginRead, RejectRead, EncodeRead
<1>5. ~(ConfigureViewport \/ RecorderNotReady \/ StopCapture)
  BY <1>t DEF ConfigureViewport, RecorderNotReady, StopCapture, Captured, PassType
<1>6. ~WarmUp
  <2> SUFFICES ASSUME WarmUp PROVE FALSE
    OBVIOUS
  <2>1. PICK s \in {"ready", "blitted"} :
          \/ pass' = [pass EXCEPT !.state = s]
          \/ pass' = [pass EXCEPT
                !.blits = IF pass.blits < 3 THEN pass.blits + 1 ELSE pass.blits, !.state = s]
    BY DEF WarmUp, Blitted, Captured
  <2> QED BY <1>t, <2>1 DEF PassType
<1>7. ~SetState
  BY <1>t DEF SetState, Typed, ThreadType, PassType
<1>8. ~(CancelCapture \/ TurnWorking)
  BY <1>t, StoppedIsTyped DEF CancelCapture, TurnWorking, Cancelling
<1>9. ~TurnDestroyReady
  BY <1>t, StoppedIsTyped DEF TurnDestroyReady, PassType, StoppedPass
<1>10. ~(\/ CancelConfiguration \/ CancelPanel \/ RecorderFails \/ Quit
         \/ TurnEnded \/ TurnRestored \/ TurnDestroyed)
  BY <1>t DEF CancelConfiguration, CancelPanel, RecorderFails, Quit, TurnEnded, TurnRestored,
              TurnDestroyed, NoPass
<1> QED BY <1>1, <1>2, <1>3, <1>4, <1>5, <1>6, <1>7, <1>8, <1>9, <1>10
        DEF Next, Draw, TransitDestruction

(* A video that is encoded in its draws is finished with every frame of its *)
(* range in the file, for any range and rate, unless encoding it failed.    *)
THEOREM EveryFrameIsWritten == Spec => WholeRangeIsWritten
<1> DEFINE Whole ==
      (/\ pass.output \in {"plugin", "recorder"}
       /\ pass.state # "finished" /\ pass'.state = "finished"
       /\ sink'.state # "failed") => Len(sink'.file) = WholeRange
<1>1. ASSUME FramesInv, [Next]_vars PROVE [Whole]_vars
  <2> SUFFICES ASSUME Next, pass.output \in {"plugin", "recorder"},
                      pass.state # "finished", pass'.state = "finished",
                      sink'.state # "failed"
               PROVE  Len(sink'.file) = WholeRange
    BY <1>1
  <2>1. CaptureAndEncode \/ RecordFrame
    BY <1>1, FinishedParts
  <2>2. /\ Video /\ pass.state \in Working /\ RecorderIsAt /\ PluginIsAt
        /\ thread.next = "none"
    BY <1>1, <2>1, CapturingParts
  <2>3. /\ sink \in SinkType /\ sink.file \in Seq(Int) /\ VideoPTS \in Int /\ pass \in PassType
        /\ "ready" \in States /\ "blitted" \in States /\ "cancelled" \in States
    BY <1>1, FramesTyped, StateNames
  <2>4. CASE CaptureAndEncode
    <3>1. pass.plugin /\ Len(sink.file) = VideoPTS /\ pass.last = VideoPTS - 1
      BY <2>2, <2>4 DEF PluginIsAt, CaptureAndEncode
    <3>2. CanEncode(VideoPTS)
      BY <2>3, <3>1 DEF CanEncode
    <3>3. /\ sink' = Written(VideoPTS) \/ sink' = [sink EXCEPT !.state = "failed"]
          /\ \E s \in {"blitted", "cancelled"} : SeekAndProgress([pass EXCEPT !.last = VideoPTS], s)
      BY <2>4, <3>2 DEF CaptureAndEncode
    <3>4. sink'.file = Append(sink.file, VideoPTS)
      BY <2>3, <3>3 DEF Written, SinkType
    <3>5. IsPastEnd
      <4> DEFINE p == [pass EXCEPT !.last = VideoPTS]
      <4>1. p \in PassType /\ p.from = pass.from /\ p.to = pass.to
        BY <2>3 DEF PassType
      <4>2. PICK s \in {"blitted", "cancelled"} : SeekAndProgress(p, s)
        BY <3>3
      <4> HIDE DEF p
      <4>3. pass'.state = (IF IsPastEnd THEN "finished" ELSE s)
        BY <1>1, <2>2, <2>3, <4>1, <4>2, Progress
      <4> QED BY <4>2, <4>3
    <3>6. VideoPTS + 1 = WholeRange
      BY <1>1, <2>2, <3>5, Position
    <3> QED BY <2>3, <3>1, <3>4, <3>6
  <2>5. CASE RecordFrame
    <3>1. pass.output = "recorder" /\ Len(sink.file) = VideoPTS
      BY <2>2, <2>5 DEF RecordFrame, RecorderIsAt, Recorders
    <3>2. \/ sink' = Written(VideoPTS) \/ sink' = [Written(VideoPTS) EXCEPT !.state = "closed"]
      BY <2>5, <3>1 DEF RecordFrame
    <3>3. sink'.file = Append(sink.file, VideoPTS)
      BY <2>3, <3>2 DEF Written, SinkType
    <3>4. SeekAndProgress(pass, "ready")
      <4>1. ~Captured([pass EXCEPT !.state = "cancelled"])
        BY <2>3 DEF Captured, PassType
      <4> QED BY <2>5, <4>1 DEF RecordFrame
    <3>5. IsPastEnd
      <4>1. pass'.state = (IF IsPastEnd THEN "finished" ELSE "ready")
        BY <1>1, <2>2, <2>3, <3>4, Progress
      <4> QED BY <4>1
    <3>6. VideoPTS + 1 = WholeRange
      BY <1>1, <2>2, <3>5, Position
    <3> QED BY <2>3, <3>1, <3>3, <3>6
  <2> QED BY <2>1, <2>4, <2>5
<1> QED BY <1>1, FramesInvHolds, PTL DEF Spec, WholeRangeIsWritten
=============================================================================
