----------------------------- MODULE McsRwLock -----------------------------
(***************************************************************************)
(* mcs_rwlock: many readers or one writer in one word, twice the number of *)
(* readers plus a writer bit, with a queue-based lock behind it for those  *)
(* who must wait.  A step is one atomic instruction or one read of the     *)
(* word.  The queue-based lock is taken at what QueueLock promises, which  *)
(* McsLock is shown to keep.                                               *)
(*                                                                         *)
(* The partitioned mode of a latch (set_plp) bypasses the lock and is left *)
(* out.                                                                    *)
(***************************************************************************)
EXTENDS Integers, Sequences, Threads

VARIABLES
  holders,  \* _holders
  queue,    \* the parent lock's line
  held,     \* thread -> the mode in which it has the lock
  where,    \* thread -> where its call is
  op        \* thread -> its call: mode wanted, whether it waits, the word it read

rwVars == <<holders, queue, held, where, op>>

Parent == INSTANCE QueueLock WITH line <- queue
Lock == INSTANCE RwLock

WRITER == 1
READER == 2

Op == [mode : {"SH", "EX"}, wait : BOOLEAN, old : Nat]
NoOp == [mode |-> "SH", wait |-> FALSE, old |-> 0]

RwPC == {"idle", "cas", "join", "line", "add", "drain", "try", "swap", "exit"}

HasWriter == holders % 2 = 1
HasReader == holders \div 2 > 0

\* mode(): with a writer's bit beside readers it is the readers who have the lock.
LockMode == IF holders = WRITER THEN "EX" ELSE IF holders > 0 THEN "SH" ELSE "NL"

Goes(t, p) == where' = [where EXCEPT ![t] = p]
Has(t, m) == held' = [held EXCEPT ![t] = m]
Asks(t, m, w, v) == op' = [op EXCEPT ![t] = [mode |-> m, wait |-> w, old |-> v]]

RwInit ==
  /\ holders = 0
  /\ queue = <<>>
  /\ held = [t \in Thread |-> "NL"]
  /\ where = [t \in Thread |-> "idle"]
  /\ op = [t \in Thread |-> NoOp]
-----------------------------------------------------------------------------
Refused(t, w) == Goes(t, IF w THEN "join" ELSE "idle")

\* Slip: the word's bit is not looked at, only whether the word changes.
BeginRead_Barges(t, w) ==
  /\ where[t] = "idle" /\ held[t] = "NL"
  /\ Asks(t, "SH", w, holders)
  /\ Goes(t, "cas")
  /\ UNCHANGED <<holders, queue, held>>

\* attempt_read, alone or as the first try of acquire_read: the word is read.
BeginRead(t, w) ==
  /\ where[t] = "idle" /\ held[t] = "NL"
  /\ Asks(t, "SH", w, holders)
  /\ IF HasWriter THEN Refused(t, w) ELSE Goes(t, "cas")
  /\ UNCHANGED <<holders, queue, held>>

\* A reader is counted unless the word has changed, be it by another reader.
CasRead(t) ==
  /\ where[t] = "cas"
  /\ IF holders = op[t].old
       THEN holders' = holders + READER /\ Has(t, "SH") /\ Goes(t, "idle")
       ELSE Refused(t, op[t].wait) /\ UNCHANGED <<holders, held>>
  /\ UNCHANGED <<queue, op>>

BeginWrite(t) ==
  /\ where[t] = "idle" /\ held[t] = "NL"
  /\ Asks(t, "EX", TRUE, 0)
  /\ Goes(t, "join")
  /\ UNCHANGED <<holders, queue, held>>

JoinLine(t) ==
  /\ where[t] = "join"
  /\ Parent!Join(t)
  /\ Goes(t, "line")
  /\ UNCHANGED <<holders, held, op>>

\* _add_when_writer_leaves, by the owner of the parent lock.
SpinOnWriter(t) ==
  /\ where[t] = "line" /\ Parent!Owns(t)
  /\ ~HasWriter
  /\ Goes(t, "add")
  /\ UNCHANGED <<holders, queue, held, op>>

AddToWord(t) ==
  /\ where[t] = "add"
  /\ IF op[t].mode = "SH"
       THEN holders' = holders + READER /\ Has(t, "SH") /\ Goes(t, "exit")
       ELSE holders' = holders + WRITER /\ Goes(t, "drain") /\ UNCHANGED held
  /\ UNCHANGED <<queue, op>>

SpinOnReaders(t) ==
  /\ where[t] = "drain" /\ ~HasReader
  /\ Has(t, "EX") /\ Goes(t, "exit")
  /\ UNCHANGED <<holders, queue, op>>

\* attempt_write of a thread that holds nothing, attempt_upgrade of a reader.
Expected(t) == IF held[t] = "SH" THEN READER ELSE 0

BeginTry(t) ==
  /\ where[t] = "idle" /\ held[t] # "EX"
  /\ Asks(t, "EX", FALSE, Expected(t))
  /\ IF holders = Expected(t) THEN Goes(t, "try") ELSE UNCHANGED where
  /\ UNCHANGED <<holders, queue, held>>

TryLine(t) ==
  /\ where[t] = "try"
  /\ IF queue = <<>> THEN Parent!Join(t) /\ Goes(t, "swap")
                    ELSE Goes(t, "idle") /\ UNCHANGED queue
  /\ UNCHANGED <<holders, held, op>>

\* Slip: the word was looked at already.
TrySwap_Store(t) ==
  /\ where[t] = "swap"
  /\ holders' = WRITER /\ Has(t, "EX")
  /\ Goes(t, "exit")
  /\ UNCHANGED <<queue, op>>

TrySwap(t) ==
  /\ where[t] = "swap"
  /\ IF holders = op[t].old THEN holders' = WRITER /\ Has(t, "EX")
                            ELSE UNCHANGED <<holders, held>>
  /\ Goes(t, "exit")
  /\ UNCHANGED <<queue, op>>

ExitLine(t) ==
  /\ where[t] = "exit"
  /\ Parent!Leave(t)
  /\ Goes(t, "idle")
  /\ UNCHANGED <<holders, held, op>>

ReleaseRead(t) ==
  /\ where[t] = "idle" /\ held[t] = "SH"
  /\ holders' = holders - READER
  /\ Has(t, "NL")
  /\ UNCHANGED <<queue, where, op>>

ReleaseWrite(t) ==
  /\ where[t] = "idle" /\ held[t] = "EX"
  /\ holders' = 0
  /\ Has(t, "NL")
  /\ UNCHANGED <<queue, where, op>>

Downgrade(t) ==
  /\ where[t] = "idle" /\ held[t] = "EX"
  /\ holders' = READER
  /\ Has(t, "SH")
  /\ UNCHANGED <<queue, where, op>>
-----------------------------------------------------------------------------
Progress(t) ==
  \/ CasRead(t)
  \/ JoinLine(t)
  \/ SpinOnWriter(t)
  \/ AddToWord(t)
  \/ SpinOnReaders(t)
  \/ TryLine(t)
  \/ TrySwap(t)
  \/ ExitLine(t)

LetGo(t) == ReleaseRead(t) \/ ReleaseWrite(t)

BeginCall(t) ==
  \/ \E w \in BOOLEAN : BeginRead(t, w)
  \/ BeginWrite(t)
  \/ BeginTry(t)
  \/ Downgrade(t)

RwNext == \E t \in Thread : BeginCall(t) \/ Progress(t) \/ LetGo(t)

RwSpec == RwInit /\ [][RwNext]_rwVars

\* A call runs on, and every holder lets go in the end: it may upgrade, downgrade and
\* fail to upgrade for a while, but not for ever.
RwLiveSpec ==
  RwSpec /\ \A t \in Thread : WF_rwVars(Progress(t)) /\ SF_rwVars(LetGo(t))
-----------------------------------------------------------------------------
TypeOK ==
  /\ holders \in Nat
  /\ queue \in Seq(Thread)
  /\ held \in [Thread -> Lock!Mode]
  /\ where \in [Thread -> RwPC]
  /\ op \in [Thread -> Op]

\* Once a writer has set its bit no reader gets past it, upgrade or not.
WriterShutsDoor ==
  [][held' # held =>
       \A w \in Thread : where[w] = "drain" =>
         \A t \in Thread \ {w} : held'[t] \in {held[t], "NL"}]_rwVars

\* Every step is one of a reader-writer lock, seen from the modes that threads hold.
ImplementsRwLock == Lock!Spec

\* A thread that waits gets the lock, in either mode.
EveryoneServed == \A t \in Thread : where[t] = "join" ~> held[t] = op[t].mode

=============================================================================
