-------------------------------- MODULE RedoLog --------------------------------
(***************************************************************************)
(* The redo log of a project and the recovery from it after a crash         *)
(* (emapp/src/internal/project/Redo.cc, Project::writeRedoMessage,          *)
(* command/BaseUndoCommand.cc, BaseApplicationService.cc).                  *)
(*                                                                         *)
(* A project has one model and its document is the set of the commands      *)
(* that are in effect: model commands, kept on the stack of the model, and  *)
(* commands of camera and light, kept on the project's own.  Commands of    *)
(* model editing are only counted.  A log is the content of its file: a     *)
(* magic and records.  The recovery that is modelled is the one of the      *)
(* application, loadAllAsync, whose records the service performs one by one *)
(* on the project that is current by then; the projects it goes on writing  *)
(* to after they were replaced are left out.                                *)
(***************************************************************************)
EXTENDS UndoStacks, SequencesExt

CONSTANTS
  ModelCommands, ProjectCommands,
  Copies,       (* whether a recovery copies the log (builds with NDEBUG) *)
  Operations,   (* what happens beside commands: "save", "open", "edit", and  *)
                (* "interrupt" for crashes in the middle of a recovery        *)
  MaxRecords,   (* bound of the log *)
  MaxCrashes    (* bound of the crashes *)

ASSUME CommandAssumption == ModelCommands \cap ProjectCommands = {}
ASSUME BoundsAssumption == MaxRecords \in Nat /\ MaxCrashes \in Nat

VARIABLES
  phase,        (* "running", or "crashed" until the recovery is done *)
  project,      (* the current project: its document and its undo stacks *)
  active,       (* the owner of the active undo stack *)
  editing,      (* isModelEditingEnabled() *)
  edits,        (* editingUndoStack() of the model *)
  journaling,   (* whether the current project has a redoFileURI() *)
  sequence,     (* m_actionSequence *)
  journal,      (* the file redoFileURI() names *)
  file,         (* the saved project: what was loaded and its document *)
  lost,         (* the project at the moment of the crash, until recovered *)
  crashes

vars == <<phase, project, active, editing, edits, journaling, sequence,
          journal, file, lost, crashes>>

Commands == ModelCommands \cup ProjectCommands
Owners == {"model", "project"}
OwnerOf(c) == IF c \in ModelCommands THEN "model" ELSE "project"
NoFile == [loaded |-> FALSE, doc |-> {"none"}]
Magic == [type |-> "magic", of |-> "none", seq |-> 0]
Edit == "edit"

NewProject == [loaded |-> FALSE, doc |-> {}, resolves |-> FALSE,
               stack |-> [o \in Owners |-> EmptyStack]]

Init ==
  /\ phase = "running"
  /\ project = NewProject
  /\ active = "project"
  /\ editing = FALSE /\ edits = EmptyStack
  /\ journaling = TRUE /\ sequence = 0 /\ journal = <<>>
  /\ file = NoFile
  /\ lost = NewProject
  /\ crashes = 0

-----------------------------------------------------------------------------
(* Writing the log.                                                        *)

(* Redo::save: the record numbered 0 brings the magic with it.              *)
Saved(log, record) ==
  log \o (IF record.seq = 0 THEN <<Magic>> ELSE <<>>) \o <<record>>

(* Project::writeRedoMessage.                                              *)
writeRedoMessage(record) ==
  IF journaling
  THEN /\ Len(journal) < MaxRecords /\ sequence < MaxRecords
       /\ journal' = Saved(journal, record)
       /\ sequence' = sequence + 1
  ELSE UNCHANGED <<journal, sequence>>

(* What a record is about: a command to be pushed or a stack to be undone.  *)
Record(type, of) == [type |-> type, of |-> of, seq |-> sequence]

RedoRecord(c) == Record("redo", c)

(* Mutant of UndoRecord: the handle of the active model is left out.        *)
UndoRecordOfProject == Record("undo", "project")

(* onPersistUndo names the active model, not the stack of the command.      *)
UndoRecord == Record("undo", active)

-----------------------------------------------------------------------------
(* The project in use.                                                     *)

With(p, o, s, doc) == [p EXCEPT !.stack[o] = s, !.doc = doc]
Pushed1(p, o, c) == With(p, o, Pushed(p.stack[o], c), p.doc \cup {c})
Undone1(p, o) == With(p, o, Undone(p.stack[o]), p.doc \ {Below(p.stack[o])})
Redone1(p, o) == With(p, o, Redone(p.stack[o]), p.doc \cup {Above(p.stack[o])})

Fresh == Commands \ (project.doc \cup UNION {ToSet(project.stack[o].commands) : o \in Owners})

LoadModel ==
  /\ phase = "running" /\ ~project.loaded
  /\ project' = [project EXCEPT !.loaded = TRUE]
  /\ active' = "model"
  /\ writeRedoMessage(Record("load", "none"))
  /\ UNCHANGED <<phase, editing, edits, journaling, file, lost, crashes>>

SetActiveModel(o) ==
  /\ phase = "running" /\ ~editing /\ o # active
  /\ o = "model" => project.loaded
  /\ active' = o
  /\ UNCHANGED <<phase, project, editing, edits, journaling, sequence, journal, file, lost, crashes>>

PushUndo(c) ==
  /\ phase = "running" /\ ~editing
  /\ c \in Fresh /\ OwnerOf(c) = active
  /\ project' = Pushed1(project, active, c)
  /\ writeRedoMessage(RedoRecord(c))
  /\ UNCHANGED <<phase, active, editing, edits, journaling, file, lost, crashes>>

HandleUndoAction ==
  /\ phase = "running" /\ ~editing
  /\ CanUndo(project.stack[active])
  /\ project' = Undone1(project, active)
  /\ writeRedoMessage(UndoRecord)
  /\ UNCHANGED <<phase, active, editing, edits, journaling, file, lost, crashes>>

HandleRedoAction ==
  /\ phase = "running" /\ ~editing
  /\ CanRedo(project.stack[active])
  /\ project' = Redone1(project, active)
  /\ writeRedoMessage(RedoRecord(Above(project.stack[active])))
  /\ UNCHANGED <<phase, active, editing, edits, journaling, file, lost, crashes>>

(* Model editing: write() of its commands does nothing, which leaves a      *)
(* record of no type; their undo is recorded as any other.                  *)
SetModelEditingEnabled(value) ==
  /\ phase = "running" /\ "edit" \in Operations
  /\ active = "model" /\ editing # value
  /\ editing' = value
  /\ edits' = EmptyStack
  /\ UNCHANGED <<phase, project, active, journaling, sequence, journal, file, lost, crashes>>

PushEditing ==
  /\ phase = "running" /\ editing
  /\ edits' = Pushed(edits, Edit)
  /\ writeRedoMessage(Record("none", "none"))
  /\ UNCHANGED <<phase, project, active, editing, journaling, file, lost, crashes>>

UndoEditing ==
  /\ phase = "running" /\ editing /\ CanUndo(edits)
  /\ edits' = Undone(edits)
  /\ writeRedoMessage(UndoRecord)
  /\ UNCHANGED <<phase, project, active, editing, journaling, file, lost, crashes>>

RedoEditing ==
  /\ phase = "running" /\ editing /\ CanRedo(edits)
  /\ edits' = Redone(edits)
  /\ writeRedoMessage(Record("none", "none"))
  /\ UNCHANGED <<phase, project, active, editing, journaling, file, lost, crashes>>

Written == [loaded |-> project.loaded, doc |-> project.doc]

(* saveProject: the file is committed, then the save point is recorded.     *)
SaveProject ==
  /\ phase = "running" /\ "save" \in Operations
  /\ file' = Written
  /\ writeRedoMessage(Record("save", "none"))
  /\ UNCHANGED <<phase, project, active, editing, edits, journaling, lost, crashes>>

Opened(saved) == [loaded |-> saved.loaded, doc |-> saved.doc, resolves |-> FALSE,
                  stack |-> [o \in Owners |-> EmptyStack]]

(* Mutant of OpenProject: the undo stacks of the last project stay.         *)
OpenProjectKeepingStacks ==
  /\ phase = "running" /\ ~editing /\ "open" \in Operations /\ file # NoFile
  /\ project' = [Opened(file) EXCEPT !.stack = project.stack]
  /\ active' = IF file.loaded THEN "model" ELSE "project"
  /\ journaling' = FALSE
  /\ sequence' = 0
  /\ UNCHANGED <<phase, editing, edits, journal, file, lost, crashes>>

(* BaseApplicationService::loadFromFile puts a new Project in the place of  *)
(* the current one; only handleNewProject gives a project its log.          *)
OpenProject ==
  /\ phase = "running" /\ ~editing /\ "open" \in Operations /\ file # NoFile
  /\ project' = Opened(file)
  /\ active' = IF file.loaded THEN "model" ELSE "project"
  /\ journaling' = FALSE
  /\ sequence' = 0
  /\ UNCHANGED <<phase, editing, edits, journal, file, lost, crashes>>

-----------------------------------------------------------------------------
(* Crash and recovery.                                                     *)

CrashWith(saved) ==
  /\ phase = "running" /\ crashes < MaxCrashes
  /\ phase' = "crashed"
  /\ crashes' = crashes + 1
  /\ lost' = project
  /\ file' = saved
  /\ project' = NewProject
  /\ active' = "project"
  /\ editing' = FALSE /\ edits' = EmptyStack
  /\ journaling' = TRUE /\ sequence' = 0
  /\ UNCHANGED journal

Crash == CrashWith(file)

(* The crash comes after the project is committed and before its save point *)
(* is recorded.                                                            *)
CrashWhileSaving == "save" \in Operations /\ CrashWith(Written)

(* The crash comes in the middle of a recovery: the log of the project that *)
(* was being recovered is still a temporary file (or, without a copy, was    *)
(* not written to), so the next start finds no file where the handler of the *)
(* crash points to.                                                        *)
CrashWhileRecovering ==
  /\ phase = "crashed" /\ crashes < MaxCrashes /\ "interrupt" \in Operations
  /\ crashes' = crashes + 1
  /\ journal' = <<>>
  /\ UNCHANGED <<phase, project, active, editing, edits, journaling, sequence, file, lost>>

(* A reader finds the records between the magic at the start of the file    *)
(* and the next one, whose bytes it takes for a record that goes past the   *)
(* end of the file.                                                        *)
Readable(log) ==
  CHOOSE n \in 1 .. Len(log) :
    /\ \A i \in 2 .. n : log[i].type # "magic"
    /\ n < Len(log) => log[n + 1].type = "magic"

RecordsOf(log) ==
  IF log = <<>> \/ log[1].type # "magic" THEN <<>> ELSE SubSeq(log, 2, Readable(log))

Records == RecordsOf(journal)

SavePoints == {i \in 1 .. Len(Records) : Records[i].type = "save"}

(* Mutant of Offset: the save point is taken for the last record it covers. *)
OffsetPastSavePoint == IF SavePoints = {} THEN 0 ELSE Max(SavePoints)

(* getCountOffset: the position of the last save point.                     *)
Offset == IF SavePoints = {} THEN 0 ELSE Max(SavePoints) - 1

IsReplayed(i) ==
  /\ Records[i].type # "none"
  /\ Offset <= Records[i].seq
  /\ i = 1 \/ Records[i - 1].seq = 0 \/ Records[i - 1].seq < Records[i].seq

(* Whether the handle of the model in a record is known to the project.     *)
Resolved(p, c) == OwnerOf(c) = "project" \/ p.resolves

UndoneOn(p, o) == IF CanUndo(p.stack[o]) THEN Undone1(p, o) ELSE p

ModelLoaded(p) ==
  [loaded |-> TRUE, doc |-> p.doc, resolves |-> TRUE,
   stack |-> [p.stack EXCEPT !["model"] = EmptyStack]]

(* Mutant of Performed: what can be redone is not pushed but redone.        *)
PerformedRedoing(p, c) ==
  LET o == OwnerOf(c)
  IN CASE ~Resolved(p, c) -> p
       [] Resolved(p, c) /\ CanRedo(p.stack[o]) -> Redone1(p, o)
       [] OTHER -> Pushed1(p, o, c)

Performed(p, c) == IF Resolved(p, c) THEN Pushed1(p, OwnerOf(c), c) ELSE p

(* What the service makes of a record.  A save point opens the project file *)
(* as another Project, while the handles of its models are entered in the  *)
(* one that was current before.                                            *)
Replay(p, r) ==
  CASE r.type = "load" -> ModelLoaded(p)
    [] r.type = "redo" -> Performed(p, r.of)
    [] r.type = "undo" -> UndoneOn(p, IF r.of = "model" /\ p.resolves THEN "model" ELSE "project")
    [] r.type = "save" -> Opened(file)

(* The project after the first i records, and the copy of what was replayed *)
(* of them, which has the magic of its own and that of the record numbered 0. *)
Replayed[i \in 0 .. Len(Records)] ==
  IF i = 0 THEN [project |-> NewProject, copy |-> <<Magic>>]
  ELSE IF IsReplayed(i)
       THEN [project |-> Replay(Replayed[i - 1].project, Records[i]),
             copy |-> Saved(Replayed[i - 1].copy, Records[i])]
       ELSE Replayed[i - 1]

(* loadAllAsync, into the project the application starts with.  Nothing     *)
(* advances m_actionSequence, and a project that a save point opened has no *)
(* log.                                                                    *)
Recover ==
  /\ phase = "crashed"
  /\ phase' = "running"
  /\ project' = Replayed[Len(Records)].project
  /\ active' = IF project'.loaded THEN "model" ELSE "project"
  /\ journaling' = (SavePoints = {})
  /\ journal' = IF Copies /\ Records # <<>> THEN Replayed[Len(Records)].copy ELSE <<>>
  /\ lost' = NewProject
  /\ UNCHANGED <<editing, edits, sequence, file, crashes>>

Next ==
  \/ LoadModel
  \/ \E o \in Owners : SetActiveModel(o)
  \/ \E c \in Commands : PushUndo(c)
  \/ HandleUndoAction
  \/ HandleRedoAction
  \/ \E value \in BOOLEAN : SetModelEditingEnabled(value)
  \/ PushEditing
  \/ UndoEditing
  \/ RedoEditing
  \/ SaveProject
  \/ OpenProject
  \/ Crash
  \/ CrashWhileSaving
  \/ CrashWhileRecovering
  \/ Recover

Spec == Init /\ [][Next]_vars

-----------------------------------------------------------------------------
IsProject(p) ==
  /\ p.loaded \in BOOLEAN /\ p.resolves \in BOOLEAN
  /\ p.doc \subseteq Commands
  /\ \A o \in Owners : /\ ToSet(p.stack[o].commands) \subseteq {c \in Commands : OwnerOf(c) = o}
                       /\ Len(p.stack[o].commands) <= Limit
                       /\ p.stack[o].current \in 0 .. Len(p.stack[o].commands)

(* The variables keep their types and the cursors stay inside their stacks. *)
TypeOK ==
  /\ phase \in {"running", "crashed"}
  /\ IsProject(project) /\ IsProject(lost)
  /\ active \in Owners /\ (active = "model" => project.loaded)
  /\ editing \in BOOLEAN
  /\ journaling \in BOOLEAN
  /\ sequence \in 0 .. MaxRecords
  /\ file = NoFile \/ file.doc \subseteq Commands
  /\ crashes \in 0 .. MaxCrashes

(* What an undo stack counts as done is in the document and what it counts  *)
(* as undone is not, in use and after every recovery: undo takes back what  *)
(* is there, redo brings back what is not.                                 *)
StackMatchesDocument ==
  \A o \in Owners : /\ ToSet(Done(project.stack[o])) \subseteq project.doc
                    /\ ToSet(Taken(project.stack[o])) \cap project.doc = {}

(* As long as the project was not saved and its model not edited, a         *)
(* recovery brings back the document that was there when the application    *)
(* crashed (docs/application.rst:1164-1165).                                *)
Unsaved == \A i \in DOMAIN journal : journal[i].type \notin {"save", "none"}

RecoversDocument ==
  [][Recover /\ Unsaved => project'.loaded = lost.loaded /\ project'.doc = lost.doc]_vars

(* ... and what could be undone then can be undone again, in the order it   *)
(* was done, although a redo is replayed as a push that drops what was      *)
(* undone above it.                                                        *)
RecoversHistory ==
  [][Recover /\ Unsaved => \A o \in Owners : Done(project'.stack[o]) = Done(lost.stack[o])]_vars

(* A recovery loses nothing that was in the document.                       *)
RecoversNoLess == [][Recover => lost.doc \subseteq project'.doc]_vars

(* It does not for what was done to camera and light in a project without   *)
(* models, however often the project was saved and also if the application  *)
(* crashed between the two steps of a save.                                *)
RecoversCamera == [][Recover /\ ~lost.loaded => lost.doc \subseteq project'.doc]_vars
=============================================================================
