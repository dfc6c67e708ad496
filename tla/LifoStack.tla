------------------------------ MODULE LifoStack ------------------------------
(***************************************************************************)
(* What TStack promises to its users: a push() or a pop() takes effect at  *)
(* one moment, and pop() takes what was pushed last.                       *)
(***************************************************************************)
EXTENDS Sequences

CONSTANT Node
VARIABLE items   \* the nodes on the stack, the top first

Init == items = <<>>

Push == \E n \in Node : items' = <<n>> \o items
Pop  == items # <<>> /\ items' = Tail(items)

Spec == Init /\ [][Push \/ Pop]_items
=============================================================================
