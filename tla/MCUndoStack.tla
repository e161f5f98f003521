----------------------------- MODULE MCUndoStack -----------------------------
(* Model checking of the undo stack: a hard limit of three commands, one    *)
(* command more than fit so that eviction always finds a new one.          *)
EXTENDS UndoStack

CONSTANTS c1, c2, c3, c4, d1, d2

MCCommands == {c1, c2, c3, c4}
MCDocuments == {d1, d2}
=============================================================================
