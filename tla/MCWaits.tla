------------------------------ MODULE MCWaits ------------------------------
(***************************************************************************)
(* The mcs_lock, the occ_rwlock, and the log buffer, checked in one run: a *)
(* behaviour uses one of them and leaves the others as they were made.     *)
(***************************************************************************)
EXTENDS McsLock, OccRwLock

VARIABLES
  used,                                   \* the part of this behaviour
  slots, info, turn, expose, buf, cur, old, start, end, bytes, clr, flag, my, dpc, fl,
  flushing, durable, kept, world,         \* as in LogBuffer
  log_tail, at                            \* its tail and pc

\* A buffer that fills up at the end of a partition; a committer and an insert that may find
\* no space for the rest of one; three in a group.
Alone == [full |-> FALSE, waits |-> FALSE, commit |-> {}, size |-> {1}]
LoadSet ==
  {[at |-> 13, todo |-> <<2, 1, 0>>, world |-> [Alone EXCEPT !.size = {2}]],
   [at |-> 13, todo |-> <<1, 1, 0>>, world |-> [Alone EXCEPT !.full = TRUE, !.commit = {1}]],
   [at |-> 13, todo |-> <<1, 1, 1>>, world |-> Alone]}

Log == INSTANCE LogBuffer WITH
         tail <- log_tail, pc <- at,
         Block <- 2, Seg <- 8, Data <- 16, Slots <- 5, Active <- 1, Loads <- LoadSet

logVars == <<slots, info, turn, expose, buf, cur, old, start, end, bytes, clr, flag, my, dpc,
             fl, flushing, durable, kept, world, log_tail, at>>
all     == <<used, vars, occVars, logVars>>

\* The log buffer that is left alone is the same one in all behaviours.
AllInit ==
  /\ Init /\ OccInit /\ Log!Init
  /\ used \in {"mcs", "occ", "log"}
  /\ used # "log" => world = Alone

Mcs_(A) == used = "mcs" /\ A /\ UNCHANGED <<used, occVars, logVars>>
Occ_(A) == used = "occ" /\ A /\ UNCHANGED <<used, vars, logVars>>
Log_(A) == used = "log" /\ A /\ UNCHANGED <<used, vars, occVars>>

AllNext == Mcs_(Next) \/ Occ_(OccNext) \/ Log_(Log!Next)

\* LiveSpec of each module.
AllSpec ==
  /\ AllInit /\ [][AllNext]_all
  /\ \A t \in Thread :
       /\ WF_all(Mcs_(Progress(t)))
       /\ SF_all(Occ_(OccProgress(t)))
       /\ WF_all(Log_(Log!Progress(t)))
  /\ WF_all(Log_(Log!Daemon))

\* McsLock's EveryoneServed, OccRwLock's WriterServed (the threads are alike, the writers
\* too) and LogBuffer's CallsEnd: whoever waits is served.
FirstServed == Served(1)
WriterServed == OccServed(2)
CallsEnd == Log!CallsEnd
=============================================================================
