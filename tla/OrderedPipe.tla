------------------------------ MODULE OrderedPipe ------------------------------
(***************************************************************************)
(* What a pane's input queue and its terminal-reply queue promise: bytes   *)
(* that were accepted reach the pty in the order they were accepted, none  *)
(* of them twice.  A chunk whose write fails is lost alone; a queue that   *)
(* stops loses what is still behind, never something in the middle.        *)
(***************************************************************************)
EXTENDS Naturals, Sequences

CONSTANT Chunk

VARIABLES todo,     \* accepted, not yet written: the oldest first
          out       \* written to the pty

Init == todo = <<>> /\ out = <<>>

Accept == \E c \in Chunk : todo' = Append(todo, c) /\ UNCHANGED out

Deliver ==
  /\ todo # <<>>
  /\ out' = Append(out, Head(todo))
  /\ todo' = Tail(todo)

LoseHead == todo # <<>> /\ todo' = Tail(todo) /\ UNCHANGED out

Truncate ==
  /\ \E n \in 0..Len(todo) : todo' = SubSeq(todo, 1, n)
  /\ UNCHANGED out

Next == Accept \/ Deliver \/ LoseHead \/ Truncate

Spec == Init /\ [][Next]_<<todo, out>>
=============================================================================
