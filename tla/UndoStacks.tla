------------------------------ MODULE UndoStacks ------------------------------
(***************************************************************************)
(* An undo_stack_t as the application sees it: the commands it holds and    *)
(* how many of them are done (dependencies/undo/undo.c).  Module UndoStack  *)
(* has the library in full, slots, indices and ownership included; this    *)
(* one gives the modules that use several stacks its operations.           *)
(***************************************************************************)
EXTENDS Integers, Sequences

CONSTANT Limit   (* the soft limit of every undo stack *)

ASSUME LimitAssumption == Limit \in Nat \ {0}

EmptyStack == [commands |-> <<>>, current |-> 0]

(* Mutant of Pushed: a full stack is recognised one command too late.       *)
PushedPastLimit(s, c) ==
  LET kept == SubSeq(s.commands, 1, s.current)
  IN IF s.current > Limit
     THEN [s EXCEPT !.commands = Append(Tail(kept), c)]
     ELSE [commands |-> Append(kept, c), current |-> s.current + 1]

(* Mutant of Pushed: the commands that were undone stay above the new one.  *)
PushedKeepingRest(s, c) ==
  LET kept == SubSeq(s.commands, 1, s.current)
      rest == SubSeq(s.commands, s.current + 2, Len(s.commands))
  IN IF s.current = Limit
     THEN [s EXCEPT !.commands = Append(Tail(kept), c)]
     ELSE [commands |-> Append(kept, c) \o rest, current |-> s.current + 1]

Pushed(s, c) ==
  LET kept == SubSeq(s.commands, 1, s.current)
  IN IF s.current = Limit
     THEN [s EXCEPT !.commands = Append(Tail(kept), c)]
     ELSE [commands |-> Append(kept, c), current |-> s.current + 1]

Below(s) == s.commands[s.current]
Above(s) == s.commands[s.current + 1]
CanUndo(s) == s.current > 0
CanRedo(s) == s.current < Len(s.commands)
Undone(s) == [s EXCEPT !.current = @ - 1]
Redone(s) == [s EXCEPT !.current = @ + 1]

(* undoStackSetOffset, whose forward loop goes one command too far.        *)
Moved(s, value) ==
  LET forward == IF value + 1 < Len(s.commands) THEN value + 1 ELSE Len(s.commands)
  IN CASE value > s.current -> [s EXCEPT !.current = forward]
       [] value < s.current -> [s EXCEPT !.current = value]
       [] OTHER -> s

Done(s) == SubSeq(s.commands, 1, s.current)
Taken(s) == SubSeq(s.commands, s.current + 1, Len(s.commands))
=============================================================================
