----------------------------- MODULE ChkptSizes -----------------------------
(***************************************************************************)
(* The sizes that checkpoints and their log space depend on.               *)
(***************************************************************************)
EXTENDS Integers

CONSTANTS
  Capacity,   \* log space
  Max_chkpt,  \* max_chkpt_size
  Partition   \* recoverable_space(1)

\* _set_size refuses partitions that hold less than what is set aside, which is two of the
\* largest checkpoints; one will do here.
ASSUME SizesAssumption ==
  /\ {Capacity, Max_chkpt, Partition} \subseteq Nat
  /\ Max_chkpt > 0 /\ Partition >= Max_chkpt /\ Capacity >= 2 * Max_chkpt
=============================================================================
