---------------------------- MODULE MCLogBuffer ----------------------------
(***************************************************************************)
(* Two log buffers in which the code does not do what it says.             *)
(***************************************************************************)
EXTENDS LogBuffer

Quiet == [full |-> FALSE, waits |-> FALSE, commit |-> {1}, size |-> {2}]

\* Records of the greatest length, three blocks; and a buffer that fills up while other
\* transactions wait for log space.
LongSet == {[at |-> 21, todo |-> <<1, 1>>, world |-> [Quiet EXCEPT !.size = {6}]]}
SharedSet == {[at |-> 9, todo |-> <<2, 2>>, world |-> [Quiet EXCEPT !.waits = TRUE]]}
=============================================================================
