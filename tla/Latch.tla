------------------------------- MODULE Latch -------------------------------
(***************************************************************************)
(* latch_t: a page latch, which is a reader-writer lock together with a    *)
(* thread-local record (latch_holder_t) of the mode and the number of      *)
(* times in which this thread has it, so that a thread may latch a page    *)
(* again without a thought about who waits for it meanwhile.               *)
(*                                                                         *)
(* The mode of the record is looked at by its own thread only; the lock    *)
(* word and the total count are shared.                                    *)
(***************************************************************************)
EXTENDS McsRwLock

CONSTANT MaxCount   \* bound on the acquires of one thread

VARIABLES
  mode,   \* thread -> _mode of its record
  count,  \* thread -> _count of its record
  total,  \* _total_count
  doing   \* thread -> the latch call it is in

latchVars == <<mode, count, total, doing>>
pageVars == <<rwVars, latchVars>>

Doing == {"none", "acquire", "upgrade", "release"}

LatchInit ==
  /\ RwInit
  /\ mode = [t \in Thread |-> "NL"]
  /\ count = [t \in Thread |-> 0]
  /\ total = 0
  /\ doing = [t \in Thread |-> "none"]

Does(t, d) == doing' = [doing EXCEPT ![t] = d]
Free(t) == doing[t] = "none"
Returned(t) == where[t] = "idle"

Bump(f, t, n) == [f EXCEPT ![t] = @ + n]
-----------------------------------------------------------------------------
\* Once a thread has the latch in EX, what it asks for is EX.
Asked(t, m) == IF mode[t] = "EX" THEN "EX" ELSE m

\* latch_acquire of a latch in hand, in the mode it is held in: the lock is left alone.
Again(t, m) ==
  /\ Free(t) /\ mode[t] # "NL" /\ mode[t] = Asked(t, m)
  /\ count[t] < MaxCount
  /\ count' = Bump(count, t, 1) /\ total' = total + 1
  /\ UNCHANGED <<rwVars, mode, doing>>

\* Any timeout but WAIT_IMMEDIATE is for ever.
AcquireShare(t, wait) ==
  /\ Free(t) /\ mode[t] = "NL"
  /\ BeginRead(t, wait)
  /\ Does(t, "acquire")
  /\ UNCHANGED <<mode, count, total>>

AcquireExclusive(t, wait) ==
  /\ Free(t) /\ mode[t] = "NL"
  /\ IF wait THEN BeginWrite(t) ELSE BeginTry(t)
  /\ Does(t, "acquire")
  /\ UNCHANGED <<mode, count, total>>

\* A reader asks for EX: by latch_acquire, with any timeout, or by upgrade_if_not_block,
\* which does nothing for a thread that has EX.
AskUpgrade(t) ==
  /\ Free(t) /\ mode[t] = "SH"
  /\ BeginTry(t)
  /\ \/ Does(t, "upgrade")
     \/ count[t] < MaxCount /\ Does(t, "acquire")
  /\ UNCHANGED <<mode, count, total>>

Won(t) == held[t] = op[t].mode

Acquired(t) ==
  /\ doing[t] = "acquire" /\ Returned(t) /\ Won(t)
  /\ mode' = [mode EXCEPT ![t] = op[t].mode]
  /\ count' = Bump(count, t, 1) /\ total' = total + 1
  /\ Does(t, "none")
  /\ UNCHANGED rwVars

\* The acquire under it raises both counts and upgrade_if_not_block lowers them again.
Upgraded(t) ==
  /\ doing[t] = "upgrade" /\ Returned(t) /\ Won(t)
  /\ mode' = [mode EXCEPT ![t] = "EX"]
  /\ Does(t, "none")
  /\ UNCHANGED <<rwVars, count, total>>

\* Slip: the mode is set before the outcome is known.
Failed_ModeSet(t) ==
  /\ doing[t] \in {"acquire", "upgrade"} /\ Returned(t) /\ ~Won(t)
  /\ mode' = [mode EXCEPT ![t] = op[t].mode]
  /\ Does(t, "none")
  /\ UNCHANGED <<rwVars, count, total>>

\* stTIMEOUT, or stINUSE for an upgrade: what was held is held.
Failed(t) ==
  /\ doing[t] \in {"acquire", "upgrade"} /\ Returned(t) /\ ~Won(t)
  /\ Does(t, "none")
  /\ UNCHANGED <<rwVars, mode, count, total>>

\* latch_release: the counts go down first.
LatchRelease(t) ==
  /\ Free(t) /\ count[t] > 0
  /\ count' = Bump(count, t, -1) /\ total' = total - 1
  /\ IF count[t] = 1 THEN Does(t, "release") ELSE UNCHANGED doing
  /\ UNCHANGED <<rwVars, mode>>

Released(t) ==
  /\ doing[t] = "release"
  /\ IF mode[t] = "SH" THEN ReleaseRead(t) ELSE ReleaseWrite(t)
  /\ mode' = [mode EXCEPT ![t] = "NL"]
  /\ Does(t, "none")
  /\ UNCHANGED <<count, total>>

LatchDowngrade(t) ==
  /\ Free(t) /\ mode[t] = "EX"
  /\ Downgrade(t)
  /\ mode' = [mode EXCEPT ![t] = "SH"]
  /\ UNCHANGED <<count, total, doing>>

InLock(t) == Progress(t) /\ UNCHANGED latchVars

Finish(t) == Acquired(t) \/ Upgraded(t) \/ Failed(t) \/ Released(t)

LatchNext ==
  \E t \in Thread :
    \/ \E m \in {"SH", "EX"} : Again(t, m)
    \/ \E wait \in BOOLEAN : AcquireShare(t, wait) \/ AcquireExclusive(t, wait)
    \/ AskUpgrade(t)
    \/ LatchRelease(t)
    \/ LatchDowngrade(t)
    \/ Finish(t)
    \/ InLock(t)

LatchSpec == LatchInit /\ [][LatchNext]_pageVars
-----------------------------------------------------------------------------
\* The record of a thread between two calls says what the lock word says: mode() ==
\* me->_mode, which _acquire asserts before it trusts the record instead of the lock.  The
\* lock below is let go with the last release for an acquire, not before, and not later.
RecordTrue ==
  \A t \in Thread : Free(t) =>
    /\ mode[t] = held[t]
    /\ mode[t] # "NL" => LockMode = mode[t]
    /\ mode[t] = "EX" => \A s \in Thread \ {t} : held[s] = "NL"
    /\ count[t] > 0 <=> held[t] # "NL"

=============================================================================
