----------------------------- MODULE ChkptSpace -----------------------------
(***************************************************************************)
(* The log space set aside for checkpoints: two of the largest, so that a  *)
(* full log can still be reclaimed.  A checkpoint draws on it, looks at it *)
(* before it starts and, when it has reclaimed partitions, tops it up.     *)
(*                                                                         *)
(* Transactions are what takes and returns space meanwhile; LogSpace has   *)
(* how.  That the log spans two partitions when it is nearly full is taken *)
(* for granted: take() ends the process otherwise.                         *)
(***************************************************************************)
EXTENDS ChkptSizes, FiniteSetsExt

VARIABLES
  free,      \* _space_available
  set_aside,  \* _space_rsvd_for_chkpt
  taken,      \* reserved by transactions, or in the log
  reclaimed,  \* local of scavenge
  size,       \* what the checkpoint in progress has logged
  at          \* where the checkpoint thread is

chkptVars == <<free, set_aside, taken, reclaimed, size, at>>

ChkptInit ==
  /\ free = Capacity - 2 * Max_chkpt /\ set_aside = 2 * Max_chkpt
  /\ taken = 0 /\ reclaimed = 0 /\ size = 0
  /\ at = "idle"
-----------------------------------------------------------------------------
Reserve ==
  /\ \E n \in 1..free : free' = free - n /\ taken' = taken + n
  /\ UNCHANGED <<set_aside, reclaimed, size, at>>

Return ==
  /\ \E n \in 1..taken : free' = free + n /\ taken' = taken - n
  /\ UNCHANGED <<set_aside, reclaimed, size, at>>
-----------------------------------------------------------------------------
(***************************************************************************)
(* verify_chkpt_reservation, by take (at = "take") and by scavenge.  Where *)
(* it goes with either answer.                                             *)
(***************************************************************************)
Verifying == at \in {"take", "scavenge"}

VerifyYes ==
  /\ Verifying /\ set_aside >= 2 * Max_chkpt
  /\ at' = IF at = "take" THEN "log" ELSE "release"
  /\ UNCHANGED <<free, set_aside, taken, reclaimed, size>>

VerifyReserve ==
  /\ Verifying /\ set_aside < 2 * Max_chkpt /\ free >= Max_chkpt
  /\ free' = free - Max_chkpt /\ set_aside' = set_aside + Max_chkpt
  /\ UNCHANGED <<taken, reclaimed, size, at>>

\* Slip: less than one checkpoint is as good as less than two.
VerifyNo_AnyAmount ==
  /\ Verifying /\ set_aside < 2 * Max_chkpt /\ free < Max_chkpt
  /\ at' = IF at = "take" THEN "log" ELSE IF reclaimed > 0 THEN "skim" ELSE "release"
  /\ UNCHANGED <<free, set_aside, taken, reclaimed, size>>

\* Enough for one: take goes on, for what it does about it is lost with the variable it
\* declares for it; scavenge takes from what it has reclaimed.
VerifyNo ==
  /\ Verifying /\ set_aside < 2 * Max_chkpt /\ free < Max_chkpt /\ set_aside >= Max_chkpt
  /\ at' = IF at = "take" THEN "log" ELSE IF reclaimed > 0 THEN "skim" ELSE "release"
  /\ UNCHANGED <<free, set_aside, taken, reclaimed, size>>

VerifyFatal ==
  /\ Verifying /\ free < Max_chkpt /\ set_aside < Max_chkpt
  /\ at' = "fatal"
  /\ UNCHANGED <<free, set_aside, taken, reclaimed, size>>
-----------------------------------------------------------------------------
Take ==
  /\ at = "idle"
  /\ at' = "take" /\ size' = 0
  /\ UNCHANGED <<free, set_aside, taken, reclaimed>>

\* LOG_INSERT: the record is in the log, then it is charged.
LogInsert ==
  /\ at = "log"
  /\ \E n \in 1..(Max_chkpt - size) :
       /\ size' = size + n
       /\ IF set_aside >= n THEN set_aside' = set_aside - n /\ taken' = taken + n /\ UNCHANGED at
                       ELSE at' = "fatal" /\ UNCHANGED <<set_aside, taken>>
  /\ UNCHANGED <<free, reclaimed>>

\* The checkpoint is complete; scavenge destroys the partitions that nobody needs now.
Complete ==
  /\ at = "log" /\ size > 0
  /\ \E count \in 0..(taken \div Partition) :
       /\ reclaimed' = count * Partition
       /\ taken' = taken - count * Partition
       /\ at' = IF count > 0 THEN "scavenge" ELSE "idle"
  /\ UNCHANGED <<free, set_aside, size>>

\* Slip: everything goes back first, to be taken by whoever comes.
Skim_ReleaseFirst ==
  /\ at = "skim"
  /\ free' = free + reclaimed /\ reclaimed' = 0
  /\ at' = "release"
  /\ UNCHANGED <<set_aside, taken, size>>

Skim ==
  /\ at = "skim"
  /\ LET skimmed == Min({Max_chkpt, reclaimed})
     IN  set_aside' = set_aside + skimmed /\ reclaimed' = reclaimed - skimmed
  /\ at' = "scavenge"
  /\ UNCHANGED <<free, taken, size>>

Release ==
  /\ at = "release"
  /\ free' = free + reclaimed /\ reclaimed' = 0
  /\ at' = "idle"
  /\ UNCHANGED <<set_aside, taken, size>>

Verify == VerifyYes \/ VerifyReserve \/ VerifyNo \/ VerifyFatal

ChkptNext ==
  \/ at # "fatal" /\ (Reserve \/ Return)
  \/ Verify \/ Take \/ LogInsert \/ Complete \/ Skim \/ Release
  \/ at = "fatal" /\ UNCHANGED chkptVars

ChkptSpec == ChkptInit /\ [][ChkptNext]_chkptVars
-----------------------------------------------------------------------------
\* No byte is made or lost on the way between the two accounts.
AccountsConserved == free + set_aside + taken + reclaimed = Capacity

\* A checkpoint that has started can be completed whatever the transactions do: LOG_INSERT
\* never finds the account empty.
CheckpointCovered == at = "log" => set_aside >= Max_chkpt - size

\* Every time partitions are reclaimed the account is full again, before anybody else gets
\* at what they held.
ToppedUp == [][at = "release" /\ at' = "idle" => set_aside' >= 2 * Max_chkpt]_chkptVars

\* chkpt.cpp, take(): these rules guarantee the ability to reclaim log space if the log
\* becomes full.  They do not when the account is looked at only after a checkpoint has
\* drawn on its second half.
NeverWedged == at # "fatal"

=============================================================================
