------------------------------ MODULE MCRedoLog ------------------------------
(* Model checking of the redo log: up to three commands of the model and    *)
(* two of the camera on stacks of one or two, and at most two crashes.      *)
EXTENDS RedoLog

CONSTANTS b1, b2, b3, c1, c2

ThreeModelCommands == {b1, b2, b3}
OneModelCommand == {b1}
OneProjectCommand == {c1}
TwoProjectCommands == {c1, c2}

(* Commands of one owner are interchangeable.                              *)
MCSymmetry == Permutations(ModelCommands) \cup Permutations(ProjectCommands)

OnlyCommands == {}
Saving == {"save"}
Everything == {"save", "open", "edit", "interrupt"}
=============================================================================
