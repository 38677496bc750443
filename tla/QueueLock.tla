----------------------------- MODULE QueueLock -----------------------------
(***************************************************************************)
(* What a queue-based lock promises: whoever stands in line gets it in the *)
(* order of arrival, and the one at the head has it alone.                 *)
(***************************************************************************)
EXTENDS Sequences, SequencesExt

CONSTANT Thread

VARIABLE line   \* the threads in line, the owner first

Init == line = <<>>

InLine(t) == t \in ToSet(line)
Owns(t) == line # <<>> /\ Head(line) = t

Join(t) ==
  /\ ~InLine(t)
  /\ line' = Append(line, t)

Leave(t) ==
  /\ Owns(t)
  /\ line' = Tail(line)

Next == \E t \in Thread : Join(t) \/ Leave(t)

Spec == Init /\ [][Next]_line

=============================================================================
