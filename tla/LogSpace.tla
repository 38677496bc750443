------------------------------ MODULE LogSpace ------------------------------
(***************************************************************************)
(* Log reservations.  A transaction buys log space before it logs: for the *)
(* record, for its undo, which may log three times as much, and for the    *)
(* record that ends it.  Space comes back when a transaction ends and when *)
(* old partitions are reclaimed; those who find none wait in line, and who *)
(* brings some back serves the line first.                                 *)
(*                                                                         *)
(* The unit is the largest log record.  A line entry points at a local     *)
(* variable of the waiting call and at its condition variable; it stays in *)
(* line when the call gives up.  The flag _waiting_for_space says that     *)
(* there is a line, but the log buffer uses the same flag for itself.      *)
(***************************************************************************)
EXTENDS Integers, Sequences, FiniteSetsExt, Functions, Threads

CONSTANTS
  Xct,
  Scavenger,  \* the checkpoint thread, which reclaims partitions
  Total,      \* log space, without what is set aside for checkpoints
  Ask,        \* what a caller of wait_for_log_space asks for
  MaxUndo,    \* bound on the records that a transaction has yet to undo
  MaxLine     \* bound on the entries in line when a call finds the log full

ASSUME NamesAssumption == Scavenger \notin Xct /\ NoThread \notin Xct \union {Scavenger}
ASSUME SpaceAssumption == {Total, Ask, MaxUndo, MaxLine} \subseteq Nat /\ Ask > 0

VARIABLES
  avail,   \* _space_available
  flag,    \* _waiting_for_space
  line,    \* _log_space_waiters
  lock,    \* who serves the line, under _space_lock
  turn,    \* who is in emergency_log_flush_mutex
  ready,   \* xct -> _log_bytes_ready
  rsvd,    \* xct -> _log_bytes_rsvd
  used,    \* xct -> its bytes in the log
  undo,    \* xct -> bytes in the log that it would have to undo
  old,     \* bytes in the log of transactions that ended
  pc,      \* thread -> where it is
  call,    \* xct -> locals of the call it is in
  rel,     \* thread -> amount it is about to give back
  leaked,  \* bytes written to variables that are no more
  dropped  \* bytes that a call got and returned without

books == <<ready, rsvd, used, undo, old>>
lost == <<leaked, dropped>>
vars == <<avail, flag, line, lock, turn, books, pc, call, rel, lost>>

Caller == Xct \union {Scavenger}

UNDO_FUDGE_FACTOR(n) == 3 * n
MIN_BYTES_READY == 2 + UNDO_FUDGE_FACTOR(1)
MIN_BYTES_RSVD == 1

(***************************************************************************)
(* A call wants an amount and still needs some of it; tries is what is     *)
(* left of the three of get_logbuf, 0 for wait_for_log_space.  Where an    *)
(* entry points: to the wait in progress, to an earlier wait of the same   *)
(* call, to a call that is gone, or nowhere.                               *)
(***************************************************************************)
Call == [want : 0..Total, need : 0..Total, tries : 0..3, forever : BOOLEAN, signalled : BOOLEAN]
NewCall(n, tries, forever) ==
  [want |-> n, need |-> n, tries |-> tries, forever |-> forever, signalled |-> FALSE]
NoCall == NewCall(0, 0, FALSE)
Entry == [who : Xct, at : {"now", "before", "gone", "null"}]

PC == {"out", "active", "abort", "queue", "try", "wait", "asleep", "back", "last", "giveup",
       "read", "serve", "add"}

Init ==
  /\ avail = Total
  /\ flag = FALSE /\ line = <<>> /\ lock = NoThread /\ turn = NoThread
  /\ ready = [x \in Xct |-> 0] /\ rsvd = [x \in Xct |-> 0]
  /\ used = [x \in Xct |-> 0] /\ undo = [x \in Xct |-> 0]
  /\ old = 0
  /\ pc = [t \in Caller |-> "out"]
  /\ call = [x \in Xct |-> NoCall]
  /\ rel = [t \in Caller |-> 0]
  /\ leaked = 0 /\ dropped = 0

Go(t, p) == pc' = [pc EXCEPT ![t] = p]
Plus(f, x, n) == [f EXCEPT ![x] = @ + n]
Running(x) == pc[x] = "active"

\* The entries of x that are at one of the places now point there.
Moves(x, places, there) ==
  line' = [i \in DOMAIN line |->
             IF line[i].who = x /\ line[i].at \in places THEN [line[i] EXCEPT !.at = there]
                                                         ELSE line[i]]

-----------------------------------------------------------------------------
(***************************************************************************)
(* A transaction logs.                                                     *)
(***************************************************************************)
Begin(x) ==
  /\ pc[x] = "out"
  /\ Go(x, "active")
  /\ UNCHANGED <<avail, flag, line, lock, turn, books, call, rel, lost>>

\* Slip: the record that ends the transaction is not paid for.
Insert_NoTopUp(x, r) ==
  /\ ready' = [ready EXCEPT ![x] = r - 1 - UNDO_FUDGE_FACTOR(1)]
  /\ rsvd' = Plus(rsvd, x, UNDO_FUDGE_FACTOR(1))
  /\ used' = Plus(used, x, 1) /\ undo' = Plus(undo, x, 1)
  /\ UNCHANGED old

\* With r bytes ready: the reserve is topped up from them, the record goes into the log
\* and its undo into the reserve.
Insert(x, r) ==
  LET topUp == IF rsvd[x] < MIN_BYTES_RSVD THEN MIN_BYTES_RSVD ELSE 0
  IN  /\ ready' = [ready EXCEPT ![x] = r - topUp - 1 - UNDO_FUDGE_FACTOR(1)]
      /\ rsvd' = Plus(rsvd, x, topUp + UNDO_FUDGE_FACTOR(1))
      /\ used' = Plus(used, x, 1) /\ undo' = Plus(undo, x, 1)
      /\ UNCHANGED old

\* get_logbuf with enough at hand, or with enough to be had at once.
Log(x) ==
  /\ Running(x) /\ undo[x] < MaxUndo
  /\ \/ /\ ready[x] >= MIN_BYTES_READY
        /\ Insert(x, ready[x])
        /\ UNCHANGED avail
     \/ /\ ready[x] < MIN_BYTES_READY /\ avail >= MIN_BYTES_READY
        /\ avail' = avail - MIN_BYTES_READY
        /\ Insert(x, ready[x] + MIN_BYTES_READY)
  /\ UNCHANGED <<flag, line, lock, turn, pc, call, rel, lost>>

\* Log full.  A transaction in the way of the reclaiming is turned down at once; another
\* lets a checkpoint finish first.
LogFull(x) ==
  /\ Running(x) /\ undo[x] < MaxUndo
  /\ ready[x] < MIN_BYTES_READY /\ avail < MIN_BYTES_READY
  /\ Len(line) <= MaxLine
  /\ call' = [call EXCEPT ![x] = NewCall(MIN_BYTES_READY, 3, FALSE)]
  /\ Go(x, "queue")
  /\ UNCHANGED <<avail, flag, line, lock, turn, books, rel, lost>>

EnterEmergency(x) ==
  /\ pc[x] = "queue" /\ turn = NoThread
  /\ turn' = x
  /\ Go(x, "try")
  /\ UNCHANGED <<avail, flag, line, lock, books, call, rel, lost>>

\* Before the third try the pages that hold up the log are forced, which may fail.
Try(x) ==
  /\ pc[x] = "try"
  /\ \/ /\ Go(x, "wait") /\ UNCHANGED <<line, turn, call, dropped>>
     \/ /\ call[x].tries = 1
        /\ Go(x, "active")
        /\ turn' = NoThread
        /\ dropped' = dropped + call[x].want - call[x].need
        /\ call' = [call EXCEPT ![x] = NoCall]
        /\ Moves(x, {"now", "before"}, "gone")
  /\ UNCHANGED <<avail, flag, lock, books, rel, leaked>>
-----------------------------------------------------------------------------
(***************************************************************************)
(* wait_for_space.                                                         *)
(***************************************************************************)

\* wait_for_log_space: reserves for later, and waits without end if nothing was logged.
AskSpace(x) ==
  /\ Running(x) /\ ready[x] + Ask <= Total /\ Len(line) <= MaxLine
  /\ IF avail >= Ask
       THEN avail' = avail - Ask /\ ready' = Plus(ready, x, Ask) /\ UNCHANGED <<pc, call>>
       ELSE /\ call' = [call EXCEPT ![x] = NewCall(Ask, 0, used[x] = 0)]
            /\ Go(x, "wait")
            /\ UNCHANGED <<avail, ready>>
  /\ UNCHANGED <<flag, line, lock, turn, rsvd, used, undo, old, rel, lost>>

\* Slip: the last entry is this wait's own.
Trim_Last(s) == SubSeq(s, 1, Len(s) - 1)

\* Null entries at the end of the line.
Trim(s) ==
  LET kept == {i \in DOMAIN s : s[i].at # "null"}
  IN  SubSeq(s, 1, IF kept = {} THEN 0 ELSE Max(kept))

\* The reserve has what is needed: the entry of this wait is nullified.
Reserved(x, s) ==
  /\ avail >= call[x].need
  /\ avail' = avail - call[x].need
  /\ call' = [call EXCEPT ![x].need = 0]
  /\ line' = Trim([i \in DOMAIN s |-> IF s[i].who = x /\ s[i].at = "now"
                                      THEN [s[i] EXCEPT !.at = "null"] ELSE s[i]])
  /\ Go(x, "back")

\* In line; then a look at what may have come back meanwhile.
BeginWait(x) ==
  /\ pc[x] = "wait" /\ lock = NoThread
  /\ flag' = TRUE
  /\ LET s == Append(line, [who |-> x, at |-> "now"])
     IN  \/ Reserved(x, s)
         \/ /\ avail < call[x].need
            /\ line' = s
            /\ call' = [call EXCEPT ![x].signalled = FALSE]
            /\ Go(x, "asleep")
            /\ UNCHANGED avail
  /\ UNCHANGED <<lock, turn, books, rel, lost>>

\* Out of pthread_cond_wait by a signal or by none.
Awake(x) ==
  /\ pc[x] = "asleep" /\ lock = NoThread
  /\ \/ /\ call[x].need = 0
        /\ Moves(x, {"now"}, "before")
        /\ Go(x, "back")
        /\ UNCHANGED <<avail, call>>
     \/ /\ call[x].need > 0
        /\ Reserved(x, line)
     \/ /\ avail < call[x].need
        /\ call' = [call EXCEPT ![x].signalled = FALSE]
        /\ UNCHANGED <<avail, line, pc>>
  /\ UNCHANGED <<flag, lock, turn, books, rel, lost>>

SignalledAwake(x) == call[x].signalled /\ Awake(x)
SpuriousAwake(x) == ~call[x].signalled /\ Awake(x)

\* 100 ms are over: the wait ends, with no more look at the reserve and the entry in line.
TimedOut(x) ==
  /\ pc[x] = "asleep" /\ lock = NoThread /\ ~call[x].forever
  /\ Moves(x, {"now"}, "before")
  /\ Go(x, "back")
  /\ UNCHANGED <<avail, flag, lock, turn, books, call, rel, lost>>

\* The call is over, its frame with it.
Returns(x, p) ==
  /\ call' = [call EXCEPT ![x] = NoCall]
  /\ Moves(x, {"now", "before"}, "gone")
  /\ Go(x, p)

\* Back in wait_for_log_space, or in get_logbuf with all it needs, or with less.
BackInAsk(x) ==
  /\ pc[x] = "back" /\ turn # x
  /\ ready' = Plus(ready, x, call[x].want - call[x].need)
  /\ Returns(x, "active")
  /\ UNCHANGED <<avail, flag, lock, turn, rsvd, used, undo, old, rel, lost>>

BackServed(x) ==
  /\ pc[x] = "back" /\ turn = x /\ call[x].need = 0
  /\ Insert(x, ready[x] + call[x].want)
  /\ Returns(x, "active")
  /\ turn' = NoThread
  /\ UNCHANGED <<avail, flag, lock, rel, lost>>

BackShort(x) ==
  /\ pc[x] = "back" /\ turn = x /\ call[x].need > 0
  /\ Go(x, IF call[x].tries > 1 THEN "try" ELSE "last")
  /\ call' = [call EXCEPT ![x].tries = @ - 1]
  /\ UNCHANGED <<avail, flag, line, lock, turn, books, rel, lost>>

\* One more look.  reserve_space(0) is a refusal.
LastLook(x) ==
  /\ pc[x] = "last"
  /\ IF call[x].need > 0 /\ avail >= call[x].need
       THEN /\ avail' = avail - call[x].need
            /\ Insert(x, ready[x] + call[x].want)
            /\ Returns(x, "active")
            /\ turn' = NoThread
       ELSE Go(x, "giveup") /\ UNCHANGED <<avail, books, call, line, turn>>
  /\ UNCHANGED <<flag, lock, rel, lost>>

\* Slip: a partial fill is forgotten when the call fails.
GiveUp_Forgets(x) ==
  /\ pc[x] = "giveup"
  /\ Returns(x, "read")
  /\ UNCHANGED <<avail, flag, lock, turn, books, rel, lost>>

\* What came in by and by is given back.  From here on nobody looks at the variable that
\* the entries in line point to, and the first to be served may be the caller's own.
GiveUp(x) ==
  /\ pc[x] = "giveup"
  /\ rel' = [rel EXCEPT ![x] = call[x].want - call[x].need]
  /\ Returns(x, "read")
  /\ UNCHANGED <<avail, flag, lock, turn, books, lost>>
-----------------------------------------------------------------------------
(***************************************************************************)
(* A transaction undoes what it did, or ends.                              *)
(***************************************************************************)

\* Of one record, in a rollback to a savepoint or of everything: what the undo logs, from
\* nothing to three times the record, is paid from the reserve.
Undo(x) ==
  /\ pc[x] \in {"active", "abort"} /\ undo[x] > 0
  /\ \E b \in {0, UNDO_FUDGE_FACTOR(1)} : rsvd' = Plus(rsvd, x, -b) /\ used' = Plus(used, x, b)
  /\ undo' = Plus(undo, x, -1)
  /\ UNCHANGED <<avail, flag, line, lock, turn, ready, old, pc, call, rel, lost>>

\* The end of a nested top action: the records since its anchor need no undo any more.
\* If the last one cannot be changed in the log buffer, a record says so.
Compensate(x) ==
  /\ Running(x)
  /\ \E u \in 0..(undo[x] - 1) : undo' = [undo EXCEPT ![x] = u]
  /\ \E b \in 0..1 : rsvd' = Plus(rsvd, x, -b) /\ used' = Plus(used, x, b)
  /\ UNCHANGED <<avail, flag, line, lock, turn, ready, old, pc, call, rel, lost>>

BeginAbort(x) ==
  /\ Running(x)
  /\ Go(x, "abort")
  /\ UNCHANGED <<avail, flag, line, lock, turn, books, call, rel, lost>>

\* The last record, if there was one before, and _teardown: what is left is given back.
End(x) ==
  /\ Running(x) \/ (pc[x] = "abort" /\ undo[x] = 0)
  /\ LET last == IF used[x] > 0 THEN 1 ELSE 0
         rest == ready[x] + rsvd[x] - last
     IN  /\ old' = old + used[x] + last
         /\ rel' = [rel EXCEPT ![x] = rest]
         /\ Go(x, IF rest > 0 THEN "read" ELSE "out")
  /\ ready' = [ready EXCEPT ![x] = 0] /\ rsvd' = [rsvd EXCEPT ![x] = 0]
  /\ used' = [used EXCEPT ![x] = 0] /\ undo' = [undo EXCEPT ![x] = 0]
  /\ UNCHANGED <<avail, flag, line, lock, turn, call, lost>>

\* Partitions that only ended transactions need are destroyed.
Scavenge ==
  /\ pc[Scavenger] = "out" /\ old > 0
  /\ rel' = [rel EXCEPT ![Scavenger] = old] /\ old' = 0
  /\ Go(Scavenger, "read")
  /\ UNCHANGED <<avail, flag, line, lock, turn, ready, rsvd, used, undo, call, lost>>
-----------------------------------------------------------------------------
(***************************************************************************)
(* release_space.                                                          *)
(***************************************************************************)

\* The flag is read without the mutex.
ReadFlag(t) ==
  /\ pc[t] = "read"
  /\ Go(t, IF flag THEN "serve" ELSE "add")
  /\ UNCHANGED <<avail, flag, line, lock, turn, books, call, rel, lost>>

Serving(t) == pc[t] = "serve" /\ lock \in {NoThread, t}
MoreToServe(t) == rel[t] > 0 /\ line # <<>>

ServeNull(t) ==
  /\ Serving(t) /\ MoreToServe(t) /\ Head(line).at = "null"
  /\ lock' = t
  /\ line' = Tail(line)
  /\ UNCHANGED <<avail, flag, turn, books, pc, call, rel, lost>>

\* The frame is gone: whatever is there now goes down by what there is to give, and if it
\* is nil then, the entry goes.
ServeGone(t) ==
  /\ Serving(t) /\ MoreToServe(t) /\ Head(line).at = "gone"
  /\ lock' = t
  /\ \E n \in 0..rel[t] :
       /\ rel' = Plus(rel, t, -n)
       /\ leaked' = leaked + n
       /\ line' = Tail(line) \/ (n = rel[t] /\ UNCHANGED line)
  /\ UNCHANGED <<avail, flag, turn, books, pc, call, dropped>>

\* Slip: nobody is signalled.
ServeWaiter_NoSignal(t) ==
  /\ Serving(t) /\ MoreToServe(t) /\ Head(line).at \in {"now", "before"}
  /\ lock' = t
  /\ LET x == Head(line).who
         n == Min({rel[t], call[x].need})
     IN  /\ rel' = Plus(rel, t, -n)
         /\ call' = [call EXCEPT ![x].need = @ - n]
         /\ line' = IF n = call[x].need THEN Tail(line) ELSE line
  /\ UNCHANGED <<avail, flag, turn, books, pc, lost>>

\* The call gets what there is.  If that is all it needs, its entry goes and the condition
\* variable of that entry is signalled, on which nobody waits if the wait was an earlier one.
ServeWaiter(t) ==
  /\ Serving(t) /\ MoreToServe(t) /\ Head(line).at \in {"now", "before"}
  /\ lock' = t
  /\ LET x == Head(line).who
         n == Min({rel[t], call[x].need})
         all == n = call[x].need
     IN  /\ rel' = Plus(rel, t, -n)
         /\ call' = [call EXCEPT ![x].need = @ - n,
                                 ![x].signalled = @ \/ (all /\ Head(line).at = "now")]
         /\ line' = IF all THEN Tail(line) ELSE line
  /\ UNCHANGED <<avail, flag, turn, books, pc, lost>>

Served(t) ==
  /\ Serving(t) /\ ~MoreToServe(t)
  /\ flag' = (flag /\ line # <<>>)
  /\ lock' = NoThread
  /\ Go(t, "add")
  /\ UNCHANGED <<avail, line, turn, books, call, rel, lost>>

\* Nobody's, for all to reserve.  The caller goes on: from a failed get_logbuf, or out.
Add(t) ==
  /\ pc[t] = "add"
  /\ avail' = avail + rel[t]
  /\ rel' = [rel EXCEPT ![t] = 0]
  /\ Go(t, IF turn = t THEN "active" ELSE "out")
  /\ turn' = IF turn = t THEN NoThread ELSE turn
  /\ UNCHANGED <<flag, line, lock, books, call, lost>>
-----------------------------------------------------------------------------
(***************************************************************************)
(* The log buffer's use of the flag.                                       *)
(***************************************************************************)

\* An inserter finds the buffer full.
BufferFull ==
  /\ flag' = TRUE
  /\ UNCHANGED <<avail, line, lock, turn, books, pc, call, rel, lost>>

\* The flush daemon has written something.
BufferFlushed ==
  /\ flag /\ flag' = FALSE
  /\ UNCHANGED <<avail, line, lock, turn, books, pc, call, rel, lost>>
-----------------------------------------------------------------------------
\* wait_for_space(amt) with w_assert0(amt > 0): the process is no more.
AsksForNothing(x) == pc[x] = "wait" /\ call[x].need = 0
Dead == \E x \in Xct : AsksForNothing(x)

Waiting(x) ==
  \/ Try(x) \/ BeginWait(x) \/ SignalledAwake(x) \/ TimedOut(x)
  \/ BackInAsk(x) \/ BackServed(x) \/ BackShort(x) \/ LastLook(x) \/ GiveUp(x)

Giving(t) ==
  ReadFlag(t) \/ ServeNull(t) \/ ServeGone(t) \/ ServeWaiter(t) \/ Served(t) \/ Add(t)

Working(x) ==
  \/ Begin(x) \/ Log(x) \/ LogFull(x) \/ AskSpace(x)
  \/ Undo(x) \/ Compensate(x) \/ BeginAbort(x) \/ End(x)

Next ==
  \/ ~Dead /\ \E x \in Xct : Working(x) \/ EnterEmergency(x) \/ Waiting(x) \/ SpuriousAwake(x)
  \/ ~Dead /\ \E t \in Caller : Giving(t)
  \/ ~Dead /\ (Scavenge \/ BufferFull \/ BufferFlushed)
  \/ Dead /\ UNCHANGED vars

Spec == Init /\ [][Next]_vars

\* Threads run and get a mutex that is free again and again; nobody is obliged to log, to
\* end, to reclaim or to flush.
LiveSpec ==
  /\ Spec
  /\ \A x \in Xct : SF_vars(EnterEmergency(x) \/ Waiting(x) \/ Giving(x))
  /\ SF_vars(Giving(Scavenger))
-----------------------------------------------------------------------------
\* What a transaction has: at hand, put aside, in the log, and come in for its call.
Account == [x \in Xct |-> ready[x] + rsvd[x] + used[x] + call[x].want - call[x].need]

\* Every byte is in one place: free, with a transaction as ready, reserved or come in for a
\* call in progress, in the log, on its way back, or lost where the code loses it.
Conserved ==
  avail + old + leaked + dropped + SumFunction(Account) + SumFunction(rel) = Total

\* A transaction that has logged can undo it all, three times the bytes, and log its end:
\* _log_bytes_rsvd >= bytes_used when it does, which _flush_logbuf asserts.
RollbackPaid ==
  \A x \in Xct :
    /\ ready[x] >= 0
    /\ used[x] > 0 => rsvd[x] >= UNDO_FUDGE_FACTOR(undo[x]) + MIN_BYTES_RSVD

\* Who sleeps for space is in line with the entry of this very wait, so that the next
\* release under the mutex finds it, whatever was cleaned up around it.
SleeperListed ==
  \A x \in Xct : pc[x] = "asleep" /\ call[x].need > 0 =>
    \E i \in DOMAIN line : line[i] = [who |-> x, at |-> "now"]

\* Who waits without end and has been given all it needs was told.
ForeverSignalled ==
  \A x \in Xct : pc[x] = "asleep" /\ call[x].forever /\ call[x].need = 0 => call[x].signalled

\* A call that finds the log full and gets its turn returns, served or not, unless an
\* assertion ends the process.
LogCallsEnd == \A x \in Xct : turn = x ~> (turn # x \/ Dead)

\* log_core.cpp, release_space: a waiter that times out leaves an entry that says so.
NothingLeaked == leaked = 0

\* xct.cpp, get_logbuf: a call that fails gives back what it got.
NothingDropped == dropped = 0

\* log_core.cpp, wait_for_space: w_assert0(amt > 0).
AsksForSomething == \A x \in Xct : ~AsksForNothing(x)

\* log_core.cpp, release_space: waiters that fall through the cracks are saved by a timeout.
NobodyStuck ==
  \A x \in Xct :
    pc[x] = "asleep" /\ avail >= call[x].need ~> pc[x] # "asleep" \/ avail < call[x].need

=============================================================================
