--------------------------- MODULE UndoStackProofs ---------------------------
(***************************************************************************)
(* Proofs about the undo stack, for every set of commands, every set of    *)
(* documents and every limit.                                              *)
(*                                                                         *)
(* Types and ownership are proved together: undo reads the memento of the  *)
(* command in a slot, and only ownership says that the slot is not NULL.   *)
(***************************************************************************)
EXTENDS UndoStack, TLAPS

Shape == TypeOK /\ Ownership

(* The commands a slot below num_commands can hold.                        *)
LEMMA SlotHolds ==
  ASSUME Shape, NEW i \in Int, 0 <= i, i < numCommands
  PROVE  i \in Slots /\ commands[i] \in heap /\ commands[i] \in Commands
BY HardLimitAssumption DEF Shape, TypeOK, Ownership, Slots

LEMMA InitShape == Init => Shape
<1> SUFFICES ASSUME Init PROVE Shape
  OBVIOUS
<1> USE HardLimitAssumption DEF Init, Slots
<1>1. created \in BOOLEAN /\ isDirty \in BOOLEAN /\ evicted \in BOOLEAN
  OBVIOUS
<1>2. commands \in [Slots -> Commands \cup {NULL}]
  BY DEF EmptySlots
<1>3. before \in [Commands -> Documents] /\ after \in [Commands -> Documents]
  OBVIOUS
<1>4. softLimit \in 1 .. HardLimit /\ numCommands \in 0 .. softLimit /\ currentIndex \in 0 .. numCommands
  OBVIOUS
<1>5. Ownership
  BY DEF Ownership, EmptySlots
<1> QED BY <1>1, <1>2, <1>3, <1>4, <1>5 DEF TypeOK, Shape

(* A push keeps the shape, whichever of its three ways it takes.           *)
LEMMA PushShape ==
  ASSUME Shape, NEW c \in Commands, NEW d \in Documents, PushCommand(c, d)
  PROVE  Shape'
<1> USE HardLimitAssumption, NullAssumption DEF Slots
<1>t. TypeOK /\ Ownership /\ c \notin heap /\ softLimit > 0
  BY DEF Shape, PushCommand
<1>1. /\ created' \in BOOLEAN /\ isDirty' \in BOOLEAN
      /\ before' \in [Commands -> Documents] /\ after' \in [Commands -> Documents]
      /\ doc' \in Documents /\ savedDoc' \in Documents
      /\ savedIndex' = 0 /\ softLimit' \in 1 .. HardLimit
  BY <1>t DEF TypeOK, PushCommand, UpdateDirty
<1>2. /\ commands' \in [Slots -> Commands \cup {NULL}]
      /\ heap' \in SUBSET Commands
      /\ evicted' \in BOOLEAN
      /\ numCommands' \in 0 .. softLimit' /\ currentIndex' \in 0 .. numCommands'
      /\ Ownership'
  <2>s. softLimit' = softLimit
    BY DEF PushCommand
  <2>c. created'
    BY DEF PushCommand, CanPush
  <2>1. CASE PushOverTail(c)
    <3>1. /\ commands' \in [Slots -> Commands \cup {NULL}] /\ heap' \in SUBSET Commands
          /\ numCommands' \in 0 .. softLimit' /\ currentIndex' \in 0 .. numCommands'
      BY <2>1, <2>s, <1>t DEF PushOverTail, TypeOK
    <3>2. evicted' \in BOOLEAN
      BY <2>1, <1>t DEF PushOverTail, TypeOK
    <3>3. Ownership'
      <4> USE <2>1, <1>t DEF PushOverTail, TypeOK, Ownership
      <4>0. numCommands' = currentIndex + 1 /\ currentIndex \in Slots /\ currentIndex < numCommands
        OBVIOUS
      <4>1. ASSUME NEW i \in Slots, i < currentIndex PROVE commands'[i] = commands[i] /\ commands[i] \in heap'
        <5>1. \A j \in currentIndex .. numCommands - 1 : commands[j] # commands[i]
          BY <4>0, <4>1
        <5> QED BY <5>1, <4>0, <4>1
      <4>2. \A i \in Slots : IF i < numCommands' THEN commands'[i] \in heap' ELSE commands'[i] = NULL
        BY <4>0, <4>1
      <4>3. \A i, j \in Slots : i < j /\ j < numCommands' => commands'[i] # commands'[j]
        BY <4>0, <4>1
      <4>4. ASSUME NEW x \in heap' PROVE \E i \in Slots : i < numCommands' /\ commands'[i] = x
        <5>1. CASE x = c
          BY <5>1, <4>0
        <5>2. CASE x # c
          <6>1. PICK j \in Slots : j < numCommands /\ commands[j] = x
            BY <5>2
          <6>2. j < currentIndex
            BY <6>1, <5>2, <4>0
          <6> QED BY <6>1, <6>2, <4>0, <4>1
        <5> QED BY <5>1, <5>2
      <4> QED BY <2>c, <4>2, <4>3, <4>4
    <3> QED BY <3>1, <3>2, <3>3
  <2>2. CASE PushOverOldest(c)
    <3>1. /\ commands' \in [Slots -> Commands \cup {NULL}] /\ heap' \in SUBSET Commands
          /\ numCommands' \in 0 .. softLimit' /\ currentIndex' \in 0 .. numCommands'
      BY <2>2, <2>s, <1>t DEF PushOverOldest, TypeOK
    <3>2. evicted' \in BOOLEAN
      BY <2>2 DEF PushOverOldest
    <3>3. Ownership'
      <4> USE <2>2, <1>t DEF PushOverOldest, TypeOK, Ownership
      <4>0. /\ currentIndex = numCommands /\ currentIndex' = currentIndex
            /\ numCommands' = numCommands /\ currentIndex \in 1 .. HardLimit
        OBVIOUS
      <4>1. \A i \in Slots : IF i < numCommands' THEN commands'[i] \in heap' ELSE commands'[i] = NULL
        BY SMTT(30), <4>0
      <4>2. \A i, j \in Slots : i < j /\ j < numCommands' => commands'[i] # commands'[j]
        BY <4>0
      <4>3. ASSUME NEW x \in heap' PROVE \E i \in Slots : i < numCommands' /\ commands'[i] = x
        <5>1. CASE x = c
          <6> WITNESS currentIndex - 1 \in Slots
          <6> QED BY <5>1, <4>0
        <5>2. CASE x # c
          <6>1. PICK j \in Slots : j < numCommands /\ commands[j] = x /\ j # 0
            BY <5>2
          <6>2. j - 1 \in Slots /\ j - 1 < numCommands' /\ commands'[j - 1] = x
            BY <6>1, <4>0
          <6> QED BY <6>2
        <5> QED BY <5>1, <5>2
      <4> QED BY <2>c, <4>1, <4>2, <4>3
    <3> QED BY <3>1, <3>2, <3>3
  <2>3. CASE PushOnTop(c)
    <3>1. /\ commands' \in [Slots -> Commands \cup {NULL}] /\ heap' \in SUBSET Commands
          /\ numCommands' \in 0 .. softLimit' /\ currentIndex' \in 0 .. numCommands'
      BY <2>3, <2>s, <1>t DEF PushOnTop, TypeOK
    <3>2. evicted' \in BOOLEAN
      BY <2>3, <1>t DEF PushOnTop, TypeOK
    <3>3. Ownership'
      <4> USE <2>3, <1>t DEF PushOnTop, TypeOK, Ownership
      <4>0. currentIndex = numCommands /\ numCommands' = numCommands + 1 /\ currentIndex \in Slots
        OBVIOUS
      <4>1. \A i \in Slots : IF i < numCommands' THEN commands'[i] \in heap' ELSE commands'[i] = NULL
        BY <4>0
      <4>2. \A i, j \in Slots : i < j /\ j < numCommands' => commands'[i] # commands'[j]
        BY <4>0
      <4>3. ASSUME NEW x \in heap' PROVE \E i \in Slots : i < numCommands' /\ commands'[i] = x
        BY <4>0
      <4> QED BY <2>c, <4>1, <4>2, <4>3
    <3> QED BY <3>1, <3>2, <3>3
  <2> QED BY <2>1, <2>2, <2>3 DEF PushCommand
<1> QED BY <1>1, <1>2 DEF TypeOK, Shape

LEMMA StepShape == Shape /\ [Next]_vars => Shape'
<1> SUFFICES ASSUME Shape, [Next]_vars PROVE Shape'
  OBVIOUS
<1>t. TypeOK /\ Ownership
  BY DEF Shape
<1> USE HardLimitAssumption DEF Slots
<1>1. ASSUME NEW limit \in 1 .. HardLimit, Create(limit) PROVE Shape'
  <2>1. heap' = {}
    BY <1>1, <1>t DEF Create, TypeOK, Ownership
  <2>2. created' \in BOOLEAN /\ isDirty' \in BOOLEAN /\ evicted' \in BOOLEAN
    BY <1>1 DEF Create
  <2>3. TypeOK'
    BY <1>1, <1>t, <2>1, <2>2 DEF Create, TypeOK, EmptySlots
  <2>4. Ownership'
    BY <1>1, <2>1 DEF Create, Ownership, EmptySlots
  <2> QED BY <2>3, <2>4 DEF Shape
<1>2. ASSUME NEW c \in Commands, NEW d \in Documents, PushCommand(c, d) PROVE Shape'
  BY <1>2, PushShape
<1>3. CASE Undo
  <2>1. commands[currentIndex - 1] \in Commands
    BY <1>3, <1>t, SlotHolds DEF Undo, CanUndo, TypeOK
  <2>2. TypeOK'
    BY <1>3, <1>t, <2>1 DEF Undo, CanUndo, UpdateDirty, TypeOK
  <2> QED BY <1>3, <1>t, <2>2 DEF Undo, Ownership, Shape
<1>4. CASE Redo
  <2>1. commands[currentIndex] \in Commands
    BY <1>4, <1>t, SlotHolds DEF Redo, CanRedo, TypeOK
  <2>2. TypeOK'
    BY <1>4, <1>t, <2>1 DEF Redo, CanRedo, UpdateDirty, TypeOK
  <2> QED BY <1>4, <1>t, <2>2 DEF Redo, Ownership, Shape
<1>5. ASSUME NEW value \in 0 .. HardLimit, SetOffset(value) PROVE Shape'
  <2> DEFINE forward == IF value + 1 < numCommands THEN value + 1 ELSE numCommands
  <2>1. CASE value > currentIndex /\ currentIndex < numCommands /\ currentIndex' = forward
               /\ doc' = after[commands[forward - 1]]
    <3>1. commands[forward - 1] \in Commands
      BY <2>1, <1>t, SlotHolds DEF TypeOK
    <3>2. TypeOK'
      BY <1>5, <2>1, <1>t, <3>1 DEF SetOffset, UpdateDirty, TypeOK
    <3> QED BY <1>5, <1>t, <3>2 DEF SetOffset, Ownership, Shape
  <2>2. CASE value < currentIndex /\ currentIndex' = value /\ doc' = before[commands[value]]
    <3>1. commands[value] \in Commands
      BY <2>2, <1>t, SlotHolds DEF TypeOK
    <3>2. TypeOK'
      BY <1>5, <2>2, <1>t, <3>1 DEF SetOffset, UpdateDirty, TypeOK
    <3> QED BY <1>5, <1>t, <3>2 DEF SetOffset, Ownership, Shape
  <2> QED BY <1>5, <2>1, <2>2 DEF SetOffset
<1>6. CASE Clear
  <2>b. created' \in BOOLEAN /\ isDirty' \in BOOLEAN /\ evicted' \in BOOLEAN
    BY <1>6 DEF Clear
  <2>1. TypeOK'
    BY <1>6, <1>t, <2>b DEF Clear, TypeOK
  <2>2. heap' = {}
    BY <1>6, <1>t DEF Clear, TypeOK, Ownership
  <2>3. \A i \in Slots : commands'[i] = NULL
    BY <1>6, <1>t DEF Clear, TypeOK, Ownership
  <2>4. Ownership'
    BY <1>6, <2>2, <2>3 DEF Clear, Ownership
  <2> QED BY <2>1, <2>4 DEF Shape
<1>7. ASSUME NEW value \in 1 .. HardLimit, SetSoftLimit(value) PROVE Shape'
  <2>1. TypeOK'
    BY <1>7, <1>t, NullAssumption DEF SetSoftLimit, TypeOK
  <2>2. heap' = heap
    BY <1>7, <1>t, NullAssumption DEF SetSoftLimit, TypeOK, Ownership
  <2>3. commands' = commands
    BY <1>7, <1>t DEF SetSoftLimit, TypeOK, Ownership
  <2>4. Ownership'
    BY <1>7, <1>t, <2>2, <2>3 DEF SetSoftLimit, Ownership
  <2> QED BY <2>1, <2>4 DEF Shape
<1>8. CASE Destroy
  <2>b. created' \in BOOLEAN /\ isDirty' \in BOOLEAN /\ evicted' \in BOOLEAN
    BY <1>8, <1>t DEF Destroy, TypeOK
  <2>1. TypeOK'
    BY <1>8, <1>t, <2>b DEF Destroy, TypeOK, EmptySlots
  <2>2. heap' = {}
    BY <1>8, <1>t DEF Destroy, TypeOK, Ownership
  <2>3. Ownership'
    BY <1>8, <2>2 DEF Destroy, Ownership, EmptySlots
  <2> QED BY <2>1, <2>3 DEF Shape
<1>9. CASE UNCHANGED vars
  <2>1. TypeOK'
    BY <1>9, <1>t DEF vars, stackVars, TypeOK
  <2> QED BY <1>9, <1>t, <2>1 DEF vars, stackVars, Ownership, Shape
<1> QED
  BY <1>1, <1>2, <1>3, <1>4, <1>5, <1>6, <1>7, <1>8, <1>9 DEF Next

-----------------------------------------------------------------------------
(* The mementos.  A push gives a memento only to a command that was not     *)
(* allocated, hence to none that is in a slot.                             *)
LEMMA PushKeepsMementos ==
  ASSUME Shape, NEW c \in Commands, NEW d \in Documents, PushCommand(c, d),
         NEW i \in Int, 0 <= i, i < numCommands
  PROVE  before'[commands[i]] = before[commands[i]] /\ after'[commands[i]] = after[commands[i]]
<1>1. commands[i] \in heap /\ commands[i] \in Commands
  BY SlotHolds
<1>2. commands[i] # c
  BY <1>1 DEF PushCommand
<1> QED BY <1>1, <1>2 DEF PushCommand, Shape, TypeOK

LEMMA PushChain ==
  ASSUME Shape, MementoChain, NEW c \in Commands, NEW d \in Documents, PushCommand(c, d)
  PROVE  MementoChain'
<1> USE HardLimitAssumption DEF Slots
<1>t. TypeOK
  BY DEF Shape
<1>1. before'[c] = doc /\ after'[c] = d /\ doc' = d
  BY <1>t DEF PushCommand, TypeOK
<1>2. \A i \in Slots : i + 1 < numCommands => after'[commands[i]] = before'[commands[i + 1]]
  BY <1>t, PushKeepsMementos DEF MementoChain, TypeOK
<1>3. currentIndex > 0 => before'[c] = after'[commands[currentIndex - 1]]
  BY <1>1, <1>t, PushKeepsMementos DEF MementoChain, TypeOK
<1>4. CASE PushOverTail(c)
  BY SMTT(30), <1>1, <1>2, <1>3, <1>4, <1>t DEF PushOverTail, MementoChain, TypeOK
<1>5. CASE PushOverOldest(c)
  BY SMTT(30), <1>1, <1>2, <1>3, <1>5, <1>t DEF PushOverOldest, MementoChain, TypeOK
<1>6. CASE PushOnTop(c)
  BY <1>1, <1>2, <1>3, <1>6, <1>t DEF PushOnTop, MementoChain, TypeOK
<1> QED BY <1>4, <1>5, <1>6 DEF PushCommand

LEMMA StepChain == Shape /\ MementoChain /\ [Next]_vars => MementoChain'
<1> SUFFICES ASSUME Shape, MementoChain, [Next]_vars PROVE MementoChain'
  OBVIOUS
<1>t. TypeOK /\ Ownership
  BY DEF Shape
<1> USE HardLimitAssumption DEF Slots
<1>1. ASSUME NEW limit \in 1 .. HardLimit, Create(limit) PROVE MementoChain'
  BY <1>1 DEF Create, MementoChain
<1>2. ASSUME NEW c \in Commands, NEW d \in Documents, PushCommand(c, d) PROVE MementoChain'
  BY <1>2, PushChain
<1>3. CASE Undo
  BY <1>3, <1>t DEF Undo, CanUndo, MementoChain, TypeOK
<1>4. CASE Redo
  BY <1>4, <1>t DEF Redo, CanRedo, MementoChain, TypeOK
<1>5. ASSUME NEW value \in 0 .. HardLimit, SetOffset(value) PROVE MementoChain'
  BY <1>5, <1>t DEF SetOffset, MementoChain, TypeOK
<1>6. CASE Clear
  BY <1>6 DEF Clear, MementoChain
<1>7. ASSUME NEW value \in 1 .. HardLimit, SetSoftLimit(value) PROVE MementoChain'
  <2>1. commands' = commands
    BY <1>7, <1>t DEF SetSoftLimit, TypeOK, Ownership
  <2> QED BY <1>7, <2>1 DEF SetSoftLimit, MementoChain
<1>8. CASE Destroy
  BY <1>8 DEF Destroy, MementoChain
<1>9. CASE UNCHANGED vars
  BY <1>9 DEF vars, stackVars, MementoChain
<1> QED
  BY <1>1, <1>2, <1>3, <1>4, <1>5, <1>6, <1>7, <1>8, <1>9 DEF Next

-----------------------------------------------------------------------------
(* Why a clean stack shows the saved document: the dirty flag says whether  *)
(* the cursor has left the bottom, and the bottom is the saved document     *)
(* until an eviction raises it.                                            *)
DirtyAboveBottom == created => (isDirty <=> currentIndex # 0)

BottomIsSaved ==
  created /\ ~evicted =>
    IF numCommands > 0 THEN before[commands[0]] = savedDoc ELSE doc = savedDoc

Anchored == DirtyAboveBottom /\ BottomIsSaved

LEMMA CleanFromAnchor == Shape /\ MementoChain /\ Anchored => CleanMeansSaved
BY HardLimitAssumption DEF Shape, TypeOK, MementoChain, Anchored, DirtyAboveBottom, BottomIsSaved, CleanMeansSaved, Slots

LEMMA PushAnchored ==
  ASSUME Shape, MementoChain, Anchored, NEW c \in Commands, NEW d \in Documents, PushCommand(c, d)
  PROVE  Anchored'
<1> USE HardLimitAssumption DEF Slots
<1>t. TypeOK
  BY DEF Shape
<1>1. DirtyAboveBottom'
  BY <1>t DEF PushCommand, UpdateDirty, DirtyAboveBottom, TypeOK
<1>2. before'[c] = doc /\ savedDoc' = savedDoc /\ created /\ created' = created
  BY <1>t DEF PushCommand, CanPush, TypeOK
<1>3. numCommands > 0 => before'[commands[0]] = before[commands[0]]
  BY <1>t, PushKeepsMementos DEF TypeOK
<1>4. CASE PushOverTail(c)
  <2>1. currentIndex = 0 => doc = before[commands[0]]
    BY <1>4, <1>t DEF PushOverTail, MementoChain, TypeOK
  <2>2. BottomIsSaved'
    BY <1>2, <1>3, <1>4, <1>t, <2>1 DEF PushOverTail, Anchored, BottomIsSaved, TypeOK
  <2> QED BY <1>1, <2>2 DEF Anchored
<1>5. CASE PushOverOldest(c)
  <2>1. BottomIsSaved'
    BY <1>5 DEF PushOverOldest, BottomIsSaved
  <2> QED BY <1>1, <2>1 DEF Anchored
<1>6. CASE PushOnTop(c)
  <2>1. BottomIsSaved'
    BY <1>2, <1>3, <1>6, <1>t DEF PushOnTop, Anchored, BottomIsSaved, TypeOK
  <2> QED BY <1>1, <2>1 DEF Anchored
<1> QED BY <1>4, <1>5, <1>6 DEF PushCommand

LEMMA StepAnchored == Shape /\ MementoChain /\ Anchored /\ [Next]_vars => Anchored'
<1> SUFFICES ASSUME Shape, MementoChain, Anchored, [Next]_vars PROVE Anchored'
  OBVIOUS
<1>t. TypeOK /\ Ownership
  BY DEF Shape
<1> USE HardLimitAssumption DEF Slots, Anchored, DirtyAboveBottom, BottomIsSaved
<1>1. ASSUME NEW limit \in 1 .. HardLimit, Create(limit) PROVE Anchored'
  BY <1>1 DEF Create
<1>2. ASSUME NEW c \in Commands, NEW d \in Documents, PushCommand(c, d) PROVE Anchored'
  BY <1>2, PushAnchored
<1>0. ASSUME savedIndex' = savedIndex, UpdateDirty(currentIndex') PROVE DirtyAboveBottom'
  BY <1>0, <1>t DEF UpdateDirty, TypeOK
<1>3. CASE Undo
  <2>1. DirtyAboveBottom'
    BY <1>0, <1>3 DEF Undo
  <2>2. BottomIsSaved'
    BY <1>3, <1>t DEF Undo, CanUndo, MementoChain, TypeOK
  <2> QED BY <2>1, <2>2
<1>4. CASE Redo
  <2>1. DirtyAboveBottom'
    BY <1>0, <1>4 DEF Redo
  <2>2. BottomIsSaved'
    BY <1>4, <1>t DEF Redo, CanRedo, MementoChain, TypeOK
  <2> QED BY <2>1, <2>2
<1>5. ASSUME NEW value \in 0 .. HardLimit, SetOffset(value) PROVE Anchored'
  <2>1. DirtyAboveBottom'
    BY <1>0, <1>5 DEF SetOffset
  <2>2. BottomIsSaved'
    BY <1>5, <1>t DEF SetOffset, MementoChain, TypeOK
  <2> QED BY <2>1, <2>2
<1>6. CASE Clear
  BY <1>6 DEF Clear
<1>7. ASSUME NEW value \in 1 .. HardLimit, SetSoftLimit(value) PROVE Anchored'
  <2>1. commands' = commands
    BY <1>7, <1>t DEF SetSoftLimit, TypeOK, Ownership
  <2> QED BY <1>7, <2>1 DEF SetSoftLimit
<1>8. CASE Destroy
  BY <1>8 DEF Destroy
<1>9. CASE UNCHANGED vars
  BY <1>9 DEF vars, stackVars
<1> QED
  BY <1>1, <1>2, <1>3, <1>4, <1>5, <1>6, <1>7, <1>8, <1>9 DEF Next

-----------------------------------------------------------------------------
IInv == Shape /\ MementoChain /\ Anchored

LEMMA InitIInv == Init => IInv
<1> SUFFICES ASSUME Init PROVE IInv
  OBVIOUS
<1>1. Shape
  BY InitShape
<1>2. MementoChain
  BY HardLimitAssumption DEF Init, MementoChain, Slots
<1>3. Anchored
  BY DEF Init, Anchored, DirtyAboveBottom, BottomIsSaved
<1> QED BY <1>1, <1>2, <1>3 DEF IInv

LEMMA Inductive == Spec => []IInv
<1>1. IInv /\ [Next]_vars => IInv'
  BY StepShape, StepChain, StepAnchored DEF IInv
<1> QED BY <1>1, InitIInv, PTL DEF Spec

(* Every field keeps its type and the cursor its place (undo.c never reads  *)
(* outside commands[0 .. num_commands - 1]).                               *)
THEOREM TypeCorrectness == Spec => []TypeOK
BY Inductive, PTL DEF IInv, Shape

(* The stack owns exactly the allocated commands: nothing dangles, nothing  *)
(* is destroyed twice, nothing leaks.                                      *)
THEOREM OwnershipHolds == Spec => []Ownership
BY Inductive, PTL DEF IInv, Shape

(* Undo and redo restore the document that was there.                      *)
THEOREM MementoChainHolds == Spec => []MementoChain
BY Inductive, PTL DEF IInv

(* A clean stack without an eviction shows the saved document.             *)
THEOREM CleanMeansSavedHolds == Spec => []CleanMeansSaved
<1>1. IInv => CleanMeansSaved
  BY CleanFromAnchor DEF IInv
<1> QED BY <1>1, Inductive, PTL
=============================================================================
