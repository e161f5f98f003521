----------------------------- MODULE UndoHistory -----------------------------
(***************************************************************************)
(* What an undo stack promises its user (docs/menu.rst, "undo" and         *)
(* "redo"): the last commands done, at most limit of them, can be undone    *)
(* in reverse order and redone in order; doing another command forgets     *)
(* the undone ones, and a full history forgets its oldest command.         *)
(***************************************************************************)
EXTENDS Integers, Sequences

CONSTANT Commands
VARIABLES past, future, limit

vars == <<past, future, limit>>

Init == past = <<>> /\ future = <<>> /\ limit \in Nat \ {0}

(* A history whose limit is 0 takes no command.                            *)
Do(c) ==
  /\ limit > 0
  /\ past' = IF Len(past) = limit THEN Append(Tail(past), c) ELSE Append(past, c)
  /\ future' = <<>>
  /\ limit' = limit

(* Moves n commands from the past to the future, in their order.           *)
Back(n) ==
  /\ past' = SubSeq(past, 1, Len(past) - n)
  /\ future' = SubSeq(past, Len(past) - n + 1, Len(past)) \o future
  /\ limit' = limit

(* Moves n commands from the future to the past, in their order.           *)
Forward(n) ==
  /\ past' = past \o SubSeq(future, 1, n)
  /\ future' = SubSeq(future, n + 1, Len(future))
  /\ limit' = limit

Forget == past' = <<>> /\ future' = <<>> /\ limit' \in Nat

(* The limit may be changed to any value the kept commands fit in.         *)
ChangeLimit ==
  /\ limit' \in Nat
  /\ Len(past) + Len(future) <= limit'
  /\ UNCHANGED <<past, future>>

Next ==
  \/ \E n \in 1 .. Len(past) : Back(n)
  \/ \E n \in 1 .. Len(future) : Forward(n)
  \/ Forget
  \/ ChangeLimit
  \/ \E c \in Commands : Do(c)

Spec == Init /\ [][Next]_vars
=============================================================================
