------------------------------ MODULE UndoStack ------------------------------
(***************************************************************************)
(* The undo library, dependencies/undo/undo.c: one undo_stack_t and the    *)
(* commands it owns.                                                       *)
(*                                                                         *)
(* A command is a memento, as every IUndoCommand of emapp/src/command is:  *)
(* on_redo puts the document into the state the command was made for,      *)
(* on_undo puts it back into the state it was made in.  A document state   *)
(* is a member of Documents.                                               *)
(*                                                                         *)
(* The callbacks can_undo, can_redo, on_persist_undo and on_persist_redo   *)
(* always answer 1 in this program: can_* keep their default handler and   *)
(* both persist handlers of BaseUndoCommand return 1.                      *)
(***************************************************************************)
EXTENDS Integers

CONSTANTS
  Commands,   (* the undo_command_t objects; one that was destroyed may be allocated again *)
  Documents,  (* the states of the edited document *)
  HardLimit,  (* UNDO_STACK_MAX_NUM *)
  NULL

ASSUME HardLimitAssumption == HardLimit \in Nat \ {0}
ASSUME NullAssumption == NULL \notin Commands

VARIABLES
  created,       (* whether the stack exists, between create and destroy *)
  commands,      (* undo_stack_t.commands *)
  numCommands,   (* undo_stack_t.num_commands *)
  currentIndex,  (* undo_stack_t.current_index *)
  savedIndex,    (* undo_stack_t.saved_index *)
  softLimit,     (* undo_stack_t.soft_limit *)
  isDirty,       (* undo_stack_t.is_dirty *)
  heap,          (* the commands that are allocated *)
  doc,           (* the document the callbacks act on *)
  before, after, (* what on_undo and on_redo of a command restore *)
  savedDoc,      (* ghost: the document when saved_index was last set *)
  evicted        (* ghost: has an oldest command been dropped since then? *)

stackVars == <<created, commands, numCommands, currentIndex, savedIndex, softLimit, isDirty>>
vars == <<stackVars, heap, doc, before, after, savedDoc, evicted>>

Slots == 0 .. HardLimit - 1
EmptySlots == [i \in Slots |-> NULL]

CanPush == created /\ currentIndex <= softLimit
CanUndo == created /\ currentIndex > 0
CanRedo == created /\ currentIndex < numCommands

(* undoStackGetPtr: the slots may be read at this index. *)
HasPtr(index) == index < numCommands /\ index < softLimit

(* undoStackUpdateDirty, given the new current_index. *)
UpdateDirty(index) == isDirty' = (index # savedIndex)

Init ==
  /\ created = FALSE
  /\ commands = EmptySlots
  /\ numCommands = 0 /\ currentIndex = 0 /\ savedIndex = 0 /\ softLimit = HardLimit
  /\ isDirty = FALSE
  /\ heap = {}
  /\ doc \in Documents
  /\ before = [c \in Commands |-> doc] /\ after = [c \in Commands |-> doc]
  /\ savedDoc = doc
  /\ evicted = FALSE

Create(limit) ==
  /\ ~created
  /\ created' = TRUE
  /\ commands' = EmptySlots
  /\ numCommands' = 0 /\ currentIndex' = 0 /\ savedIndex' = 0 /\ softLimit' = limit
  /\ isDirty' = FALSE
  /\ savedDoc' = doc
  /\ evicted' = FALSE
  /\ UNCHANGED <<heap, doc, before, after>>

(* Mutant of PushOverTail: the commands above are dropped, not destroyed.   *)
PushOverTailLeaking(c) ==
  /\ currentIndex < numCommands
  /\ commands' = [i \in Slots |-> CASE i = currentIndex -> c
                                    [] i > currentIndex /\ i < numCommands -> NULL
                                    [] OTHER -> commands[i]]
  /\ heap' = heap \cup {c}
  /\ currentIndex' = currentIndex + 1
  /\ numCommands' = currentIndex + 1
  /\ evicted' = evicted

(* Mutant of PushOverTail: only the slot at the cursor is replaced.         *)
PushOverTailKeepingRest(c) ==
  /\ currentIndex < numCommands
  /\ commands' = [commands EXCEPT ![currentIndex] = c]
  /\ heap' = (heap \ {commands[currentIndex]}) \cup {c}
  /\ currentIndex' = currentIndex + 1
  /\ UNCHANGED <<numCommands, evicted>>

(* A push in the middle of the history destroys every command above.       *)
PushOverTail(c) ==
  /\ currentIndex < numCommands
  /\ commands' = [i \in Slots |-> CASE i = currentIndex -> c
                                    [] i > currentIndex /\ i < numCommands -> NULL
                                    [] OTHER -> commands[i]]
  /\ heap' = (heap \ {commands[i] : i \in currentIndex .. numCommands - 1}) \cup {c}
  /\ currentIndex' = currentIndex + 1
  /\ numCommands' = currentIndex + 1
  /\ evicted' = evicted

(* A push on a full stack destroys the oldest command.                     *)
PushOverOldest(c) ==
  /\ currentIndex >= numCommands
  /\ currentIndex = softLimit
  /\ commands' = [i \in Slots |-> CASE i < currentIndex - 1 -> commands[i + 1]
                                    [] i = currentIndex - 1 -> c
                                    [] OTHER -> commands[i]]
  /\ heap' = (heap \ {commands[0]}) \cup {c}
  /\ evicted' = TRUE
  /\ UNCHANGED <<currentIndex, numCommands>>

(* Mutant of PushOnTop: a full stack is not told from one with room.        *)
PushOnTopUnchecked(c) ==
  /\ currentIndex >= numCommands
  /\ commands' = [commands EXCEPT ![currentIndex] = c]
  /\ heap' = heap \cup {c}
  /\ currentIndex' = currentIndex + 1
  /\ numCommands' = numCommands + 1
  /\ evicted' = evicted

PushOnTop(c) ==
  /\ currentIndex >= numCommands
  /\ currentIndex # softLimit
  /\ commands' = [commands EXCEPT ![currentIndex] = c]
  /\ heap' = heap \cup {c}
  /\ currentIndex' = currentIndex + 1
  /\ numCommands' = numCommands + 1
  /\ evicted' = evicted

(* undoStackPushCommand of a new command c that turns the document into d. *)
(* On a stack whose limit is 0 it would write before the first slot.        *)
PushCommand(c, d) ==
  /\ CanPush /\ softLimit > 0
  /\ c \notin heap
  /\ before' = [before EXCEPT ![c] = doc]
  /\ after' = [after EXCEPT ![c] = d]
  /\ doc' = d
  /\ PushOverTail(c) \/ PushOverOldest(c) \/ PushOnTop(c)
  /\ UpdateDirty(currentIndex')
  /\ UNCHANGED <<created, savedIndex, softLimit, savedDoc>>

Undo ==
  /\ CanUndo
  /\ HasPtr(currentIndex - 1)
  /\ currentIndex' = currentIndex - 1
  /\ doc' = before[commands[currentIndex - 1]]
  /\ UpdateDirty(currentIndex')
  /\ UNCHANGED <<created, commands, numCommands, savedIndex, softLimit,
                 heap, before, after, savedDoc, evicted>>

(* Mutant of Redo: the dirty flag is not updated.                           *)
RedoLeavingDirty ==
  /\ CanRedo
  /\ HasPtr(currentIndex)
  /\ currentIndex' = currentIndex + 1
  /\ doc' = after[commands[currentIndex]]
  /\ UNCHANGED <<created, commands, numCommands, savedIndex, softLimit, isDirty,
                 heap, before, after, savedDoc, evicted>>

Redo ==
  /\ CanRedo
  /\ HasPtr(currentIndex)
  /\ currentIndex' = currentIndex + 1
  /\ doc' = after[commands[currentIndex]]
  /\ UpdateDirty(currentIndex')
  /\ UNCHANGED <<created, commands, numCommands, savedIndex, softLimit,
                 heap, before, after, savedDoc, evicted>>

(* Mutant of SetOffset: the cursor jumps, but only one command is undone or  *)
(* redone.                                                                 *)
SetOffsetInOneStep(value) ==
  /\ created
  /\ \/ /\ value > currentIndex
        /\ currentIndex < numCommands
        /\ currentIndex' = IF value < numCommands THEN value ELSE numCommands
        /\ doc' = after[commands[currentIndex]]
     \/ /\ value < currentIndex
        /\ currentIndex' = value
        /\ doc' = before[commands[currentIndex - 1]]
  /\ UpdateDirty(currentIndex')
  /\ UNCHANGED <<created, commands, numCommands, savedIndex, softLimit,
                 heap, before, after, savedDoc, evicted>>

(* undoStackSetOffset.  The forward loop runs while i <= value, so it       *)
(* redoes one command more than the backward loop would undo.              *)
SetOffset(value) ==
  /\ created
  /\ LET forward == IF value + 1 < numCommands THEN value + 1 ELSE numCommands
     IN \/ /\ value > currentIndex
           /\ currentIndex < numCommands
           /\ currentIndex' = forward
           /\ doc' = after[commands[forward - 1]]
        \/ /\ value < currentIndex
           /\ currentIndex' = value
           /\ doc' = before[commands[value]]
  /\ UpdateDirty(currentIndex')
  /\ UNCHANGED <<created, commands, numCommands, savedIndex, softLimit,
                 heap, before, after, savedDoc, evicted>>

Clear ==
  /\ created
  /\ commands' = [i \in Slots |-> IF i < numCommands THEN NULL ELSE commands[i]]
  /\ heap' = heap \ {commands[i] : i \in 0 .. numCommands - 1}
  /\ numCommands' = 0 /\ currentIndex' = 0 /\ savedIndex' = 0
  /\ isDirty' = FALSE
  /\ savedDoc' = doc
  /\ evicted' = FALSE
  /\ UNCHANGED <<created, softLimit, doc, before, after>>

(* undoStackSetSoftLimit stores value - 1.  It destroys the commands above  *)
(* the new limit and leaves num_commands and current_index as they are, so *)
(* it may only be called while no command is above it; nothing in emapp     *)
(* calls it at all.                                                        *)
SetSoftLimit(value) ==
  /\ created
  /\ value > 0 /\ value <= HardLimit
  /\ numCommands <= value - 1
  /\ commands' = [i \in Slots |-> IF i >= value - 1 /\ i < softLimit THEN NULL ELSE commands[i]]
  /\ heap' = heap \ {commands[i] : i \in value - 1 .. softLimit - 1}
  /\ softLimit' = value - 1
  /\ UNCHANGED <<created, numCommands, currentIndex, savedIndex, isDirty,
                 doc, before, after, savedDoc, evicted>>

Destroy ==
  /\ created
  /\ created' = FALSE
  /\ heap' = heap \ {commands[i] : i \in 0 .. softLimit - 1}
  /\ commands' = EmptySlots
  /\ numCommands' = 0 /\ currentIndex' = 0 /\ savedIndex' = 0
  /\ isDirty' = FALSE
  /\ UNCHANGED <<softLimit, doc, before, after, savedDoc, evicted>>

Next ==
  \/ \E limit \in 1 .. HardLimit : Create(limit)
  \/ \E c \in Commands, d \in Documents : PushCommand(c, d)
  \/ Undo
  \/ Redo
  \/ \E value \in 0 .. HardLimit : SetOffset(value)
  \/ Clear
  \/ \E value \in 1 .. HardLimit : SetSoftLimit(value)
  \/ Destroy

Spec == Init /\ [][Next]_vars

-----------------------------------------------------------------------------
(* Every field keeps its type, and the cursor stays inside the stored      *)
(* commands, which stay inside the limit.                                  *)
TypeOK ==
  /\ created \in BOOLEAN
  /\ commands \in [Slots -> Commands \cup {NULL}]
  /\ softLimit \in 0 .. HardLimit
  /\ numCommands \in 0 .. softLimit
  /\ currentIndex \in 0 .. numCommands
  /\ savedIndex = 0
  /\ isDirty \in BOOLEAN
  /\ heap \in SUBSET Commands
  /\ doc \in Documents
  /\ before \in [Commands -> Documents]
  /\ after \in [Commands -> Documents]
  /\ savedDoc \in Documents
  /\ evicted \in BOOLEAN

(* The stack owns exactly the allocated commands: no slot below             *)
(* num_commands is NULL or destroyed, no two hold the same command, nothing *)
(* is left above, and no command that was pushed is forgotten (leaked) by   *)
(* truncation, eviction, clear or destroy.                                 *)
Ownership ==
  /\ ~created => numCommands = 0
  /\ \A i \in Slots : IF i < numCommands THEN commands[i] \in heap ELSE commands[i] = NULL
  /\ \A i, j \in Slots : i < j /\ j < numCommands => commands[i] # commands[j]
  /\ \A c \in heap : \E i \in Slots : i < numCommands /\ commands[i] = c

(* The mementos form one line of document states and the document is where  *)
(* the cursor is on it, so that undo and redo always restore the state that *)
(* was there, whatever pushes, evictions and jumps came before.             *)
MementoChain ==
  /\ \A i \in Slots : i + 1 < numCommands => after[commands[i]] = before[commands[i + 1]]
  /\ currentIndex > 0 => doc = after[commands[currentIndex - 1]]
  /\ currentIndex < numCommands => doc = before[commands[currentIndex]]

(* A stack that says it is clean shows the document that was there when it  *)
(* was created or cleared, as long as no command was evicted: the index of  *)
(* the clean state is not moved when commands[0] is dropped.               *)
CleanMeansSaved == created /\ ~isDirty /\ ~evicted => doc = savedDoc

(* The history a user sees: the commands that can be undone and redone.    *)
History == INSTANCE UndoHistory WITH
  past <- [i \in 1 .. currentIndex |-> commands[i - 1]],
  future <- [i \in 1 .. numCommands - currentIndex |-> commands[currentIndex + i - 1]],
  limit <- softLimit

(* undo.c keeps that history as docs/menu.rst promises it.                 *)
ImplementsHistory == History!Spec
=============================================================================
