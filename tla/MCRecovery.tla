---------------------------- MODULE MCRecovery ----------------------------
(***************************************************************************)
(* Workloads for Recovery.  The log starts with the three records of the   *)
(* first checkpoint; an update, its commit and the end take three more, an *)
(* update and its rollback four, a checkpoint three or four.               *)
(***************************************************************************)
EXTENDS Recovery

CONSTANTS x1, x2, p1, p2

Load(a, b, len, chkpts, n) ==
  [pages |-> [x \in Xct |-> IF x = x1 THEN a ELSE b], log |-> len, chkpts |-> chkpts, crashes |-> n]

\* Two transactions on a page; one on two pages, or twice on a page, with two crashes;
\* one with a checkpoint that is taken meanwhile.
Mixed == { Load(<<p1>>, <<p1>>, 9, 0, 1),
           Load(<<p1, p2>>, << >>, 10, 0, 2),
           Load(<<p1, p1>>, << >>, 10, 0, 2),
           Load(<<p1>>, << >>, 11, 1, 1),
           Load(<<p1, p1>>, << >>, 9, 1, 1) }

\* One transaction with two updates of a page, and a checkpoint.
Fuzzy == {Load(<<p1, p1>>, << >>, 11, 1, 1)}

=============================================================================
