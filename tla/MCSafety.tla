------------------------------ MODULE MCSafety ------------------------------
(***************************************************************************)
(* Log reservations, the log space of checkpoints, the log buffer, a page  *)
(* latch, and the buffer pool, each by itself: a behaviour uses one of     *)
(* them and leaves the others as they were made.                           *)
(***************************************************************************)
EXTENDS LogSpace, ChkptSpace, Latch, BufferPool, TLC

VARIABLES
  part,                                             \* what this behaviour uses
  slots, info, inserting, expose, buf, cur, old_epoch, tail, start, end, bytes, clr, wanted,
  ppc, locals, dpc, fl, flushing, durable, kept, world   \* of LogBuffer

\* Once around the buffer; the end of a partition, with and without space for its rest, and
\* with the flag used by others; three in a group.
Quiet == [full |-> FALSE, waits |-> FALSE, commit |-> {1}, size |-> {2}]
LoadSet ==
  {[at |-> 9, todo |-> <<1, 3, 0>>, world |-> Quiet],
   [at |-> 13, todo |-> <<1, 1, 0>>, world |-> [Quiet EXCEPT !.full = TRUE]],
   [at |-> 13, todo |-> <<1, 1, 0>>, world |-> [Quiet EXCEPT !.full = TRUE, !.waits = TRUE]],
   [at |-> 13, todo |-> <<1, 1, 1>>, world |-> [Quiet EXCEPT !.commit = {}, !.size = {1}]]}

Buffer == INSTANCE LogBuffer WITH
            turn <- inserting, old <- old_epoch, flag <- wanted, pc <- ppc, my <- locals, Thread <- 1..3,
            Block <- 2, Seg <- 8, Data <- 16, Slots <- 5, Active <- 1, Loads <- LoadSet

\* Three pages; a bucket holds one, and each page has two buckets.  Two threads that update any
\* page, and a cleaner; three that want one of two pages when there is no room in the table;
\* one that updates a page twice, and two cleaners.
PoolHash == << <<1, 1, 2>>, <<3, 2, 2>> >>
PoolTransit == [p \in Page |-> p % 2]
PoolMutex == [p \in Page |-> p]
Each(a, b) == [t \in Thread |-> IF t = Scavenger THEN b ELSE a]
PoolLoads ==
  {[hot |-> <<1, 3, NoOne>>, free |-> {}, todo |-> Each(1, 1),
    may |-> Each(Page \X {"EX"}, Page \X {"clean"})],
   [hot |-> <<NoOne, 1, NoOne>>, free |-> {1, 3}, todo |-> Each(1, 1),
    may |-> Each({<<2, "SH">>}, {<<3, "SH">>})],
   [hot |-> <<2, NoOne, NoOne>>, free |-> {2}, todo |-> Each(1, 2),
    may |-> Each({<<2, "clean">>}, {<<2, "EX">>})]}

ASSUME PoolConstants
ASSUME Buffer!BufferConstants

bufferVars ==
  <<slots, info, inserting, expose, buf, cur, old_epoch, tail, start, end, bytes, clr, wanted,
    ppc, locals, dpc, fl, flushing, durable, kept, world>>
all == <<part, vars, chkptVars, pageVars, bufferVars, poolVars>>

\* A log buffer that is not used is not there.
NoBuffer ==
  /\ slots = 0 /\ info = 0 /\ inserting = 0 /\ expose = 0 /\ buf = 0 /\ cur = 0
  /\ old_epoch = 0 /\ tail = 0 /\ start = 0 /\ end = 0 /\ bytes = 0 /\ clr = 0 /\ wanted = 0
  /\ ppc = 0 /\ locals = 0 /\ dpc = 0 /\ fl = 0 /\ flushing = 0 /\ durable = 0 /\ kept = 0
  /\ world = 0

\* A pool that is not used has nothing in its table, and nobody is in it.
NoPool ==
  /\ table = [b \in Bucket |-> [count |-> 0]] /\ place = [t \in Thread |-> "out"]
  /\ disk = [p \in Page |-> 0] /\ latest = disk
  /\ cb = 0 /\ unused = 0 /\ transit = 0 /\ tb = 0 /\ writer = 0 /\ may = 0 /\ my = 0

AllInit ==
  /\ part \in {"log", "chkpt", "page", "buffer", "pool"}
  /\ Init /\ ChkptInit /\ LatchInit
  /\ IF part = "buffer" THEN Buffer!Init ELSE NoBuffer
  /\ IF part = "pool" THEN PoolInit ELSE NoPool

Log_(A) == part = "log" /\ A /\ UNCHANGED <<part, chkptVars, pageVars, bufferVars, poolVars>>
Chkpt_(A) == part = "chkpt" /\ A /\ UNCHANGED <<part, vars, pageVars, bufferVars, poolVars>>
Page_(A) == part = "page" /\ A /\ UNCHANGED <<part, vars, chkptVars, bufferVars, poolVars>>
Buffer_(A) == part = "buffer" /\ A /\ UNCHANGED <<part, vars, chkptVars, pageVars, poolVars>>
Pool_(A) == part = "pool" /\ A /\ UNCHANGED <<part, vars, chkptVars, pageVars, bufferVars>>

AllNext ==
  \/ Log_(Next) \/ Chkpt_(ChkptNext) \/ Page_(LatchNext) \/ Buffer_(Buffer!Next)
  \/ Pool_(PoolNext)

AllSpec == AllInit /\ [][AllNext]_all

\* Which transaction is which makes no difference.
Alike == Permutations(Xct)

\* LogBuffer's: a flush reads what was inserted, to the last byte, and it stays so meanwhile;
\* flushes leave nothing out; and the epochs move in the order of the log, whoever moves them.
FlushStable ==
  part = "buffer" => Buffer!FlushStable /\ Buffer!Unbroken /\ Buffer!EpochsInOrder

\* LogBuffer's: a record that may be compensated is found, and what was compensated is so on
\* disk.
CompensationKept == part = "buffer" => Buffer!CompensationKept

\* LogBuffer's: nothing that is not on disk yet is overwritten.
NoOverwrite == Buffer!NoOverwrite

\* LogBuffer's: flush returns when the record is durable.
FlushKept == Buffer!FlushKept
=============================================================================
