----------------------------- MODULE LockModes -----------------------------
(***************************************************************************)
(* The lock modes of the storage manager and the two tables the lock core  *)
(* decides with: which requested mode may join which granted mode, and the *)
(* mode that a group of requests amounts to.                               *)
(***************************************************************************)

Mode == {"NL", "IS", "IX", "SH", "SIX", "UD", "EX"}

(***************************************************************************)
(* compat[r] is the row of the compatibility table for the requested mode  *)
(* r: the granted modes that r may join.  The table is not symmetric: UD   *)
(* may join SH, but SH may not join UD.                                    *)
(***************************************************************************)
compat ==
  [ NL  |-> Mode,
    IS  |-> {"NL", "IS", "IX", "SH", "SIX"},
    IX  |-> {"NL", "IS", "IX"},
    SH  |-> {"NL", "IS", "SH"},
    SIX |-> {"NL", "IS"},
    UD  |-> {"NL", "SH"},
    EX  |-> {"NL"} ]

\* The supremum table (the lock conversion matrix).
supr ==
  [ NL  |-> [NL |-> "NL",  IS |-> "IS",  IX |-> "IX",  SH |-> "SH",
             SIX |-> "SIX", UD |-> "UD",  EX |-> "EX"],
    IS  |-> [NL |-> "IS",  IS |-> "IS",  IX |-> "IX",  SH |-> "SH",
             SIX |-> "SIX", UD |-> "UD",  EX |-> "EX"],
    IX  |-> [NL |-> "IX",  IS |-> "IX",  IX |-> "IX",  SH |-> "SIX",
             SIX |-> "SIX", UD |-> "EX",  EX |-> "EX"],
    SH  |-> [NL |-> "SH",  IS |-> "SH",  IX |-> "SIX", SH |-> "SH",
             SIX |-> "SIX", UD |-> "UD",  EX |-> "EX"],
    SIX |-> [NL |-> "SIX", IS |-> "SIX", IX |-> "SIX", SH |-> "SIX",
             SIX |-> "SIX", UD |-> "SIX", EX |-> "EX"],
    UD  |-> [NL |-> "UD",  IS |-> "UD",  IX |-> "EX",  SH |-> "UD",
             SIX |-> "SIX", UD |-> "UD",  EX |-> "EX"],
    EX  |-> [NL |-> "EX",  IS |-> "EX",  IX |-> "EX",  SH |-> "EX",
             SIX |-> "EX",  UD |-> "EX",  EX |-> "EX"] ]

\* a is absorbed by b.
Leq(a, b) == supr[a][b] = b

(***************************************************************************)
(* The mode of a group whose members hold the modes S.  The code folds     *)
(* supr over the members in queue order; the table is not associative, so  *)
(* the order could matter (IX, UD, SH gives SIX or EX).  Among modes that  *)
(* are granted together it does not, which GroupModeIsFold checks, and so  *)
(* the fold is taken in the order of the modes.                            *)
(***************************************************************************)
GroupMode(S) ==
  LET in(m) == IF m \in S THEN m ELSE "NL"
  IN  supr[in("EX")][supr[in("UD")][supr[in("SIX")]
        [supr[in("SH")][supr[in("IX")][in("IS")]]]]]

=============================================================================
