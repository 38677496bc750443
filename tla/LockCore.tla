------------------------------ MODULE LockCore ------------------------------
(***************************************************************************)
(* The lock table of the storage manager: lock heads with their request    *)
(* queues (lock_head_t), the per-transaction part of deadlock detection    *)
(* (xct_lock_info_t), and the threads that run acquire_lock,               *)
(* _check_deadlock, release_lock and wakeup_waiters over them.             *)
(*                                                                         *)
(* One thread is attached to each transaction, as lock_core_m requires of  *)
(* everything but waiting.  A transaction number is its tid, so the        *)
(* smaller number is the older transaction.  A step runs from one point at *)
(* which another thread could look to the next; the queue walks of         *)
(* _check_deadlock and wakeup_waiters take one step per request, because   *)
(* other heads' deadlock detectors read what they are changing.            *)
(*                                                                         *)
(* Left out here: speculative lock inheritance (off unless a program       *)
(* enables it), several threads in one transaction, and freeing an empty   *)
(* lock head, whose successor starts in the same state.                    *)
(***************************************************************************)
EXTENDS Integers, Sequences, SequencesExt, LockModes

CONSTANTS
  Xct,         \* transactions, numbered by age
  Lock,        \* lock names
  AskModes,    \* modes that transactions ask for
  MaxCount,    \* bound on the acquires of one lock by one transaction
  Durations,   \* durations asked for: TRUE is t_long, FALSE a shorter one
  Patience,    \* the max_count of a wait: 10 ms naps, or Forever
  Poisonable,  \* transactions that a checkpoint may find too old
  Spurious     \* pthread_cond_timedwait may return without a reason

Forever == -1
NoXct == 0

ASSUME LockAssumption == Lock # {}
ASSUME XctAssumption == Xct \subseteq Nat \ {NoXct}
ASSUME AskAssumption == AskModes \subseteq Mode \ {"NL"}
ASSUME CountAssumption == MaxCount \in Nat \ {0}
ASSUME DurationAssumption == Durations \subseteq BOOLEAN
ASSUME PatienceAssumption == Patience \subseteq (Nat \ {0}) \union {Forever}
ASSUME PoisonAssumption == Poisonable \subseteq Xct
ASSUME SpuriousAssumption == Spurious \in BOOLEAN

VARIABLES
  queue,    \* lock -> transactions with a request, in arrival order
  req,      \* lock -> transaction -> its request
  gmode,    \* lock -> granted_mode of the head
  waiting,  \* lock -> the head's flag "there is a wait group"
  owner,    \* lock -> holder of head_mutex
  pc,       \* transaction -> where its thread is
  call,     \* transaction -> the locals of the call it is in
  leaving,  \* transaction -> committing or aborting
  wmap,     \* transaction -> _wait_map
  noblock,  \* transaction -> _noblock, set by a checkpoint
  sig,      \* transaction -> what smthread_block will return
  fatal     \* a W_COERCE met an error: the process is gone

headVars == <<queue, req, gmode, waiting>>
infoVars == <<leaving, wmap, noblock>>
vars == <<headVars, owner, pc, call, infoVars, sig, fatal>>

Status == {"none", "granted", "waiting", "converting"}
Request == [st : Status, mode : Mode, cmode : Mode, cnt : 0..MaxCount, long : BOOLEAN]
NoReq == [st |-> "none", mode |-> "NL", cmode |-> "NL", cnt |-> 0, long |-> FALSE]

\* lock: the head; pos: place in its queue; left: naps to go; long: duration is t_long.
Call == [lock : Lock, pos : Nat, left : Nat \union {Forever}, long : BOOLEAN]
NoCall == [lock |-> CHOOSE l \in Lock : TRUE, pos |-> 1, left |-> 0, long |-> FALSE]

Signal == {"none", "ok", "dead", "timeout"}

\* The thread holds the head mutex of the lock it works on.
InHead == {"dld", "kill", "scan"}
\* The transaction has a waiting_request().
Awaiting == {"dld", "kill", "prep", "blocked", "woken"}
PC == {"idle"} \union InHead \union Awaiting

Held == {"granted", "converting"}
Pending == {"waiting", "converting"}
-----------------------------------------------------------------------------
\* smthread_t::_waiting: an unblock is accepted.
Unblockable(x) == pc[x] = "blocked"

\* waiting_request_is_blocking().  The flag falls a little after the thread wakes, which
\* nobody can tell: an unblock is refused by then.
Blocking(x) == pc[x] \in {"prep", "blocked"}

\* Slip: the walk stops at the first request that is not granted, an upgrade included.
GrantedModeOther_StopAtUpgrade(q, r, x) ==
  GroupMode({r[q[i]].mode : i \in {k \in 1..Len(q) :
               q[k] # x /\ \A j \in 1..k : r[q[j]].st = "granted"}})

\* granted_mode_other: the requests ahead of the first waiter, x's left out.
GrantedModeOther(q, r, x) ==
  GroupMode({r[q[i]].mode : i \in {k \in 1..Len(q) :
               q[k] # x /\ \A j \in 1..k : r[q[j]].st # "waiting"}})

\* rlink.detach(): x's request leaves the queue.
Detach(q, x) == RemoveAt(q, CHOOSE i \in 1..Len(q) : q[i] = x)

\* What a conversion to mode is tested against: a cheap test, then the full one.
OthersMode(l, x, mode) ==
  LET all == supr[gmode[l]][mode]
  IN  IF all \in compat[mode] THEN all
      ELSE GrantedModeOther(queue[l], req[l], x)

\* Label success: count the acquire and raise the duration.
Counted(r, d) == [r EXCEPT !.cnt = @ + 1, !.long = @ \/ d]

\* smthread_unblock(e), with eNOTBLOCKED swallowed by the caller.
Unblock(y, e) == sig' = IF Unblockable(y) THEN [sig EXCEPT ![y] = e] ELSE sig

At(x, p) == ~fatal /\ pc[x] = p
Go(x, p) == pc' = [pc EXCEPT ![x] = p]
SetReq(l, x, r) == req' = [req EXCEPT ![l][x] = r]
-----------------------------------------------------------------------------
Init ==
  /\ queue   = [l \in Lock |-> <<>>]
  /\ req     = [l \in Lock |-> [x \in Xct |-> NoReq]]
  /\ gmode   = [l \in Lock |-> "NL"]
  /\ waiting = [l \in Lock |-> FALSE]
  /\ owner   = [l \in Lock |-> NoXct]
  /\ pc      = [x \in Xct |-> "idle"]
  /\ call    = [x \in Xct |-> NoCall]
  /\ leaving = [x \in Xct |-> FALSE]
  /\ wmap    = [x \in Xct |-> {}]
  /\ noblock = [x \in Xct |-> FALSE]
  /\ sig     = [x \in Xct |-> "none"]
  /\ fatal   = FALSE
-----------------------------------------------------------------------------
(***************************************************************************)
(* acquire_lock up to the point where it succeeds or must wait.  The head  *)
(* mutex is taken and, on success, given back within the step.  A request  *)
(* with timeout WAIT_IMMEDIATE that would have to wait returns             *)
(* eLOCKTIMEOUT with nothing changed: a stuttering step.                   *)
(***************************************************************************)
CanAsk(x, l) ==
  /\ At(x, "idle") /\ ~leaving[x]
  /\ owner[l] = NoXct
  /\ req[l][x].cnt < MaxCount

NewMode(l, x, m) == supr[m][req[l][x].mode]

\* The transaction holds an equal or stronger lock already.
Reacquire(x, l, m, d) ==
  /\ CanAsk(x, l)
  /\ req[l][x].st # "none"
  /\ NewMode(l, x, m) = req[l][x].mode
  /\ SetReq(l, x, Counted(req[l][x], d))
  /\ UNCHANGED <<queue, gmode, waiting, owner, pc, call, infoVars, sig, fatal>>

\* A conversion that the other holders tolerate: no wait, whoever else waits.
Upgrade(x, l, m, d) ==
  LET mode == NewMode(l, x, m)
      others == OthersMode(l, x, mode)
  IN  /\ CanAsk(x, l)
      /\ req[l][x].st # "none"
      /\ mode # req[l][x].mode
      /\ others \in compat[mode]
      /\ SetReq(l, x, Counted([req[l][x] EXCEPT !.mode = mode], d))
      /\ gmode' = [gmode EXCEPT ![l] = supr[others][mode]]
      /\ UNCHANGED <<queue, waiting, owner, pc, call, infoVars, sig, fatal>>

\* Slip: an arriving request does not care that others wait.
Joins_NoFlag(l, m) == gmode[l] \in compat[m]

Joins(l, m) == ~waiting[l] /\ gmode[l] \in compat[m]

\* A new request that joins the granted group.
Grant(x, l, m, d) ==
  /\ CanAsk(x, l)
  /\ req[l][x].st = "none"
  /\ Joins(l, m)
  /\ SetReq(l, x, Counted([NoReq EXCEPT !.st = "granted", !.mode = m], d))
  /\ queue' = [queue EXCEPT ![l] = Append(@, x)]
  /\ gmode' = [gmode EXCEPT ![l] = supr[m][@]]
  /\ UNCHANGED <<waiting, owner, pc, call, infoVars, sig, fatal>>

StartWait(x, l, d, p) ==
  /\ waiting' = [waiting EXCEPT ![l] = TRUE]
  /\ owner' = [owner EXCEPT ![l] = x]
  /\ call' = [call EXCEPT ![x] = [lock |-> l, pos |-> 1, left |-> p, long |-> d]]
  /\ Go(x, "dld")
  /\ UNCHANGED <<gmode, infoVars, sig, fatal>>

AwaitUpgrade(x, l, m, d, p) ==
  LET mode == NewMode(l, x, m)
  IN  /\ CanAsk(x, l)
      /\ req[l][x].st # "none"
      /\ mode # req[l][x].mode
      /\ OthersMode(l, x, mode) \notin compat[mode]
      /\ SetReq(l, x, [req[l][x] EXCEPT !.st = "converting", !.cmode = mode])
      /\ StartWait(x, l, d, p)
      /\ UNCHANGED queue

AwaitGrant(x, l, m, d, p) ==
  /\ CanAsk(x, l)
  /\ req[l][x].st = "none"
  /\ ~Joins(l, m)
  /\ SetReq(l, x, [NoReq EXCEPT !.st = "waiting", !.mode = m, !.long = d])
  /\ queue' = [queue EXCEPT ![l] = Append(@, x)]
  /\ StartWait(x, l, d, p)
-----------------------------------------------------------------------------
(***************************************************************************)
(* wakeup_waiters: one pass over the queue, which ends at the first new    *)
(* request that must go on waiting.  Whoever dropped a request starts it.  *)
(***************************************************************************)
Return(x) ==
  /\ Go(x, "idle")
  /\ call' = [call EXCEPT ![x] = NoCall]
  /\ sig' = [sig EXCEPT ![x] = "none"]

\* The start of wakeup_waiters by x, which is the holder of l's head mutex in this step.
StartScan(x, l) ==
  \/ /\ waiting[l]
     /\ waiting' = [waiting EXCEPT ![l] = FALSE]
     /\ owner' = [owner EXCEPT ![l] = x]
     /\ call' = [call EXCEPT ![x] = [NoCall EXCEPT !.lock = l]]
     /\ Go(x, "scan")
     /\ UNCHANGED sig
  \/ /\ ~waiting[l]
     /\ owner' = [owner EXCEPT ![l] = NoXct]
     /\ Return(x)
     /\ UNCHANGED waiting

\* The next request in the queue that x's walk has not passed and that waits.
NextPending(x, i) ==
  LET q == queue[call[x].lock]
      pending(j) == j >= call[x].pos /\ req[call[x].lock][q[j]].st \in Pending
  IN  /\ At(x, "scan")
      /\ i \in 1..Len(q) /\ pending(i)
      /\ \A j \in 1..(i - 1) : ~pending(j)

\* cvt_pending: an upgrade passed earlier in this walk could not be granted.
CvtPending(x) ==
  LET q == queue[call[x].lock]
  IN  \E j \in 1..Len(q) : j < call[x].pos /\ req[call[x].lock][q[j]].st = "converting"

\* Slip: the walk tests the mode held instead of the one wanted.
CanConvert_HeldMode(x, y) ==
  LET l == call[x].lock
  IN  /\ req[l][y].st = "converting"
      /\ GrantedModeOther(queue[l], req[l], y) \in compat[req[l][y].mode]

\* The request y asks to convert, or to join, and may.
CanConvert(x, y) ==
  LET l == call[x].lock
  IN  /\ req[l][y].st = "converting"
      /\ GrantedModeOther(queue[l], req[l], y) \in compat[req[l][y].cmode]

CanJoin(x, y) ==
  LET l == call[x].lock
  IN  /\ req[l][y].st = "waiting"
      /\ ~CvtPending(x)
      /\ gmode[l] \in compat[req[l][y].mode]

WantedMode(r) == IF r.st = "converting" THEN r.cmode ELSE r.mode

\* The request is granted and its thread is told.
ScanGrant(x) ==
  \E i \in 1..Len(queue[call[x].lock]) :
    LET l == call[x].lock
        y == queue[l][i]
        mode == WantedMode(req[l][y])
    IN  /\ NextPending(x, i)
        /\ CanConvert(x, y) \/ CanJoin(x, y)
        /\ SetReq(l, y, [req[l][y] EXCEPT !.st = "granted", !.mode = mode, !.cmode = "NL"])
        /\ gmode' = [gmode EXCEPT ![l] = supr[mode][@]]
        /\ Unblock(y, "ok")
        /\ call' = [call EXCEPT ![x].pos = i + 1]
        /\ UNCHANGED <<queue, waiting, owner, pc, infoVars, fatal>>

\* Slip: the walk goes on past a new request that cannot join.
ScanPass_Waiters(x) ==
  \E i \in 1..Len(queue[call[x].lock]) :
    LET y == queue[call[x].lock][i]
    IN  /\ NextPending(x, i)
        /\ ~CanConvert(x, y) /\ ~CanJoin(x, y)
        /\ call' = [call EXCEPT ![x].pos = i + 1]
        /\ UNCHANGED <<headVars, owner, pc, infoVars, sig, fatal>>

\* An upgrade that must go on waiting; the walk goes on for other upgrades.
ScanPass(x) ==
  \E i \in 1..Len(queue[call[x].lock]) :
    LET y == queue[call[x].lock][i]
    IN  /\ NextPending(x, i)
        /\ req[call[x].lock][y].st = "converting" /\ ~CanConvert(x, y)
        /\ call' = [call EXCEPT ![x].pos = i + 1]
        /\ UNCHANGED <<headVars, owner, pc, infoVars, sig, fatal>>

\* Slip: an upgrade that was passed over does not set the head's flag again.
ScanEnd_NoCvt(x) ==
  LET l == call[x].lock
      stopped == \E i \in 1..Len(queue[l]) :
                   /\ NextPending(x, i)
                   /\ req[l][queue[l][i]].st = "waiting"
                   /\ ~CanJoin(x, queue[l][i])
  IN  /\ At(x, "scan")
      /\ stopped \/ \A i \in 1..Len(queue[l]) : ~NextPending(x, i)
      /\ waiting' = [waiting EXCEPT ![l] = stopped]
      /\ owner' = [owner EXCEPT ![l] = NoXct]
      /\ Return(x)
      /\ UNCHANGED <<queue, req, gmode, infoVars, fatal>>

\* The queue is through, or its next request is a new one that must go on waiting.
ScanEnd(x) ==
  LET l == call[x].lock
      stopped == \E i \in 1..Len(queue[l]) :
                   /\ NextPending(x, i)
                   /\ req[l][queue[l][i]].st = "waiting"
                   /\ ~CanJoin(x, queue[l][i])
  IN  /\ At(x, "scan")
      /\ stopped \/ \A i \in 1..Len(queue[l]) : ~NextPending(x, i)
      /\ waiting' = [waiting EXCEPT ![l] = stopped \/ CvtPending(x)]
      /\ owner' = [owner EXCEPT ![l] = NoXct]
      /\ Return(x)
      /\ UNCHANGED <<queue, req, gmode, infoVars, fatal>>
-----------------------------------------------------------------------------
(***************************************************************************)
(* A wait that failed with e: an upgrade is undone, a new request removed, *)
(* and the others get their chance.  A deadlock victim goes on to abort.   *)
(***************************************************************************)
\* Slip: a wait that failed wakes nobody.
Deny_NoWakeup(x, e) ==
  LET l == call[x].lock
      new == req[l][x].st = "waiting"
      q == IF new THEN Detach(queue[l], x) ELSE queue[l]
  IN  /\ SetReq(l, x, IF new THEN NoReq
                      ELSE [req[l][x] EXCEPT !.st = "granted", !.cmode = "NL"])
      /\ queue' = [queue EXCEPT ![l] = q]
      /\ wmap' = [wmap EXCEPT ![x] = {}]
      /\ leaving' = [leaving EXCEPT ![x] = e = "dead"]
      /\ owner' = [owner EXCEPT ![l] = NoXct]
      /\ Return(x)
      /\ UNCHANGED <<gmode, waiting, noblock, fatal>>

\* Slip: a refused upgrade takes the held lock with it.
Deny_LosesLock(x, e) ==
  LET l == call[x].lock
      q == Detach(queue[l], x)
  IN  /\ SetReq(l, x, NoReq)
      /\ queue' = [queue EXCEPT ![l] = q]
      /\ gmode' = [gmode EXCEPT ![l] = GrantedModeOther(q, req[l], x)]
      /\ wmap' = [wmap EXCEPT ![x] = {}]
      /\ leaving' = [leaving EXCEPT ![x] = e = "dead"]
      /\ StartScan(x, l)
      /\ UNCHANGED <<noblock, fatal>>

Deny(x, e) ==
  LET l == call[x].lock
      new == req[l][x].st = "waiting"
      q == IF new THEN Detach(queue[l], x) ELSE queue[l]
  IN  /\ SetReq(l, x, IF new THEN NoReq
                      ELSE [req[l][x] EXCEPT !.st = "granted", !.cmode = "NL"])
      /\ queue' = [queue EXCEPT ![l] = q]
      /\ gmode' = [gmode EXCEPT ![l] = IF e = "dead" /\ q = <<>> THEN "NL" ELSE @]
      /\ wmap' = [wmap EXCEPT ![x] = {}]
      /\ leaving' = [leaving EXCEPT ![x] = e = "dead"]
      /\ StartScan(x, l)
      /\ UNCHANGED <<noblock, fatal>>

(***************************************************************************)
(* _check_deadlock: walk the queue, merge into our wait map the maps of    *)
(* those we wait for, and find a deadlock when such a map contains ours.   *)
(***************************************************************************)
\* Does x wait for the request at position i?  A new request only looks ahead of itself.
WaitsFor(x, i) ==
  LET q == queue[call[x].lock]
      r == req[call[x].lock]
      his == r[q[i]]
      want == WantedMode(r[x])
      ahead == \A j \in 1..i : q[j] # x
      first == \A j \in 1..(i - 1) : r[q[j]].st = "granted"
  IN  /\ q[i] # x
      /\ ahead \/ r[x].st = "converting"
      /\ \/ want \notin compat[his.mode]
         \/ ahead /\ his.st \in Pending /\ first
         \/ ahead /\ his.st = "converting" /\ want \notin compat[his.cmode]

\* The next request that x waits for and its walk has not passed.
NextAwaited(x, i) ==
  /\ At(x, "dld")
  /\ i \in 1..Len(queue[call[x].lock]) /\ i >= call[x].pos /\ WaitsFor(x, i)
  /\ \A j \in 1..(i - 1) : j < call[x].pos \/ ~WaitsFor(x, j)

\* x's own map, or its thread's fingerprint while that is empty.
MyMap(x) == IF wmap[x] = {} THEN {x} ELSE wmap[x]

\* Slip: the other's map is read but not merged.
DldMerge_OwnOnly(x) ==
  \E i \in 1..Len(queue[call[x].lock]) :
    LET y == queue[call[x].lock][i]
    IN  /\ NextAwaited(x, i)
        /\ ~(MyMap(x) \subseteq wmap[y])
        /\ wmap' = [wmap EXCEPT ![x] = MyMap(x)]
        /\ call' = [call EXCEPT ![x].pos = i + 1]
        /\ UNCHANGED <<headVars, owner, pc, leaving, noblock, sig, fatal>>

\* Slip: only the other itself is merged, not whom it waits for.
DldMerge_Neighbour(x) ==
  \E i \in 1..Len(queue[call[x].lock]) :
    LET y == queue[call[x].lock][i]
    IN  /\ NextAwaited(x, i)
        /\ ~(MyMap(x) \subseteq wmap[y])
        /\ wmap' = [wmap EXCEPT ![x] = MyMap(x) \union {y}]
        /\ call' = [call EXCEPT ![x].pos = i + 1]
        /\ UNCHANGED <<headVars, owner, pc, leaving, noblock, sig, fatal>>

DldMerge(x) ==
  \E i \in 1..Len(queue[call[x].lock]) :
    LET y == queue[call[x].lock][i]
    IN  /\ NextAwaited(x, i)
        /\ ~(MyMap(x) \subseteq wmap[y])
        /\ wmap' = [wmap EXCEPT ![x] = MyMap(x) \union wmap[y]]
        /\ call' = [call EXCEPT ![x].pos = i + 1]
        /\ UNCHANGED <<headVars, owner, pc, leaving, noblock, sig, fatal>>

\* The other is in a wait and seems to be blocked.
Killable(y) ==
  /\ pc[y] \in Awaiting
  /\ req[call[y].lock][y].st \in Pending
  /\ Blocking(y)

SkipQueue(x) == call' = [call EXCEPT ![x].pos = Len(queue[call[x].lock]) + 1]

\* The other is older: x is the victim.
DldSelf(x) ==
  \E i \in 1..Len(queue[call[x].lock]) :
    LET y == queue[call[x].lock][i]
    IN  /\ NextAwaited(x, i)
        /\ MyMap(x) \subseteq wmap[y]
        /\ y < x
        /\ Deny(x, "dead")

\* The other is younger: it is the victim, if it can be unblocked.
DldOther(x) ==
  \E i \in 1..Len(queue[call[x].lock]) :
    LET y == queue[call[x].lock][i]
    IN  /\ NextAwaited(x, i)
        /\ MyMap(x) \subseteq wmap[y]
        /\ x < y
        /\ wmap' = [wmap EXCEPT ![x] = {}]
        /\ \/ Killable(y) /\ Go(x, "kill") /\ call' = [call EXCEPT ![x].pos = i]
           \/ ~Killable(y) /\ SkipQueue(x) /\ UNCHANGED pc
        /\ UNCHANGED <<headVars, owner, leaving, noblock, sig, fatal>>

\* The victim may have gone on to another wait by now, which the unblock then ends.
DldKill(x) ==
  /\ At(x, "kill")
  /\ Unblock(queue[call[x].lock][call[x].pos], "dead")
  /\ SkipQueue(x)
  /\ Go(x, "dld")
  /\ UNCHANGED <<headVars, owner, infoVars, fatal>>

\* Slip: the count goes on below zero, past the value that stands for ever.
DldDone_CountForever(x) ==
  /\ At(x, "dld") /\ \A i \in 1..Len(queue[call[x].lock]) : ~NextAwaited(x, i)
  /\ call' = [call EXCEPT ![x].left = @ - 1]
  /\ owner' = [owner EXCEPT ![call[x].lock] = NoXct]
  /\ Go(x, "prep")
  /\ UNCHANGED <<headVars, infoVars, sig, fatal>>

\* Slip: the naps are not counted.
DldDone_NoCount(x) ==
  /\ At(x, "dld") /\ \A i \in 1..Len(queue[call[x].lock]) : ~NextAwaited(x, i)
  /\ owner' = [owner EXCEPT ![call[x].lock] = NoXct]
  /\ Go(x, "prep")
  /\ UNCHANGED <<headVars, call, infoVars, sig, fatal>>

\* No deadlock, or another is its victim: give up the mutexes and go to block.
DldDone(x) ==
  /\ At(x, "dld") /\ \A i \in 1..Len(queue[call[x].lock]) : ~NextAwaited(x, i)
  /\ call' = [call EXCEPT ![x].left = IF @ > 0 THEN @ - 1 ELSE @]
  /\ owner' = [owner EXCEPT ![call[x].lock] = NoXct]
  /\ Go(x, "prep")
  /\ UNCHANGED <<headVars, infoVars, sig, fatal>>
-----------------------------------------------------------------------------
(***************************************************************************)
(* smthread_block for a nap.  At "prep" the mutexes are free and the       *)
(* thread not yet asleep: an unblock is refused before _waiting is set,    *)
(* and forgotten after that until sthread_t::_block clears its flag.       *)
(***************************************************************************)
Nap(x) ==
  /\ At(x, "prep")
  /\ IF noblock[x]
     THEN Go(x, "woken") /\ sig' = [sig EXCEPT ![x] = "dead"]
     ELSE Go(x, "blocked") /\ UNCHANGED sig
  /\ UNCHANGED <<headVars, owner, call, infoVars, fatal>>

\* The thread was unblocked, or its 10 ms are over: a timeout hides an unblock that came
\* while pthread_cond_timedwait was on its way back.  After a spurious wakeup block()
\* returns the code of an earlier unblock, which may be any.
NapEnds(x) ==
  {"timeout"} \union ({sig[x]} \ {"none"}) \union (IF Spurious THEN {"ok", "dead"} ELSE {})

\* Slip: a nap that is over looks like an unblock.
EndNap_TimeoutIsOk(x) ==
  /\ At(x, "blocked")
  /\ \E e \in (NapEnds(x) \ {"timeout"}) \union {"ok"} : sig' = [sig EXCEPT ![x] = e]
  /\ Go(x, "woken")
  /\ UNCHANGED <<headVars, owner, call, infoVars, fatal>>

EndNap(x) ==
  /\ At(x, "blocked")
  /\ \E e \in NapEnds(x) : sig' = [sig EXCEPT ![x] = e]
  /\ Go(x, "woken")
  /\ UNCHANGED <<headVars, owner, call, infoVars, fatal>>
-----------------------------------------------------------------------------
(***************************************************************************)
(* The thread is awake and takes the head mutex again: to look for a       *)
(* deadlock once more, to give up, or to return with the lock.             *)
(***************************************************************************)
Retakes(x) == At(x, "woken") /\ owner[call[x].lock] = NoXct

MyStatus(x) == req[call[x].lock][x].st

TryAgain(x) ==
  /\ Retakes(x)
  /\ sig[x] = "timeout" /\ MyStatus(x) # "granted" /\ call[x].left # 0
  /\ owner' = [owner EXCEPT ![call[x].lock] = x]
  /\ call' = [call EXCEPT ![x].pos = 1]
  /\ sig' = [sig EXCEPT ![x] = "none"]
  /\ Go(x, "dld")
  /\ UNCHANGED <<headVars, infoVars, fatal>>

GiveUp(x) ==
  /\ Retakes(x)
  /\ MyStatus(x) # "granted"
  /\ sig[x] = "dead" \/ (sig[x] = "timeout" /\ call[x].left = 0)
  /\ Deny(x, sig[x])

\* The request was granted, or the thread believes so.
Granted(x) ==
  LET l == call[x].lock
  IN  /\ Retakes(x)
      /\ MyStatus(x) = "granted" \/ sig[x] = "ok"
      /\ SetReq(l, x, Counted(req[l][x], call[x].long))
      /\ wmap' = [wmap EXCEPT ![x] = {}]
      /\ Return(x)
      /\ UNCHANGED <<queue, gmode, waiting, owner, leaving, noblock, fatal>>
-----------------------------------------------------------------------------
(***************************************************************************)
(* release_lock and _release_lock.  A transaction that ends releases all   *)
(* it holds by force (release_duration), in an order left open here.       *)
(***************************************************************************)
CanRelease(x, l) ==
  /\ At(x, "idle")
  /\ owner[l] = NoXct
  /\ req[l][x].st # "none"

Kept(x, l) == ~leaving[x] /\ (req[l][x].long \/ req[l][x].cnt > 1)

\* A lock of long duration, or acquired more than once, is kept until the end.
Uncount(x, l) ==
  /\ CanRelease(x, l) /\ Kept(x, l)
  /\ req[l][x].cnt > 1
  /\ SetReq(l, x, [req[l][x] EXCEPT !.cnt = @ - 1])
  /\ UNCHANGED <<queue, gmode, waiting, owner, pc, call, infoVars, sig, fatal>>

\* Slip: granted_mode is not computed anew.
Release_StaleMode(x, l) ==
  LET r == [req[l] EXCEPT ![x] = NoReq]
  IN  /\ CanRelease(x, l) /\ ~Kept(x, l)
      /\ req' = [req EXCEPT ![l] = r]
      /\ queue' = [queue EXCEPT ![l] = Detach(@, x)]
      /\ StartScan(x, l)
      /\ UNCHANGED <<gmode, infoVars, fatal>>

Release(x, l) ==
  LET q == Detach(queue[l], x)
      r == [req[l] EXCEPT ![x] = NoReq]
  IN  /\ CanRelease(x, l) /\ ~Kept(x, l)
      /\ req' = [req EXCEPT ![l] = r]
      /\ queue' = [queue EXCEPT ![l] = q]
      /\ gmode' = [gmode EXCEPT ![l] = GrantedModeOther(q, r, NoXct)]
      /\ StartScan(x, l)
      /\ UNCHANGED <<infoVars, fatal>>

End(x) ==
  /\ At(x, "idle") /\ ~leaving[x]
  /\ leaving' = [leaving EXCEPT ![x] = TRUE]
  /\ UNCHANGED <<headVars, owner, pc, call, wmap, noblock, sig, fatal>>
-----------------------------------------------------------------------------
(***************************************************************************)
(* set_nonblocking: a checkpoint tells a transaction that is too old not   *)
(* to wait.  It holds lock_info_mutex, which the thread gives up while it  *)
(* naps; an unblock that is refused is an error, with which W_COERCE ends  *)
(* the process.                                                            *)
(***************************************************************************)
Poison(x) ==
  /\ ~fatal /\ ~noblock[x]
  /\ pc[x] \notin InHead
  /\ noblock' = [noblock EXCEPT ![x] = TRUE]
  /\ fatal' \in CASE pc[x] = "woken" -> {TRUE}
                  [] pc[x] = "prep"  -> BOOLEAN
                  [] OTHER           -> {FALSE}
  /\ Unblock(x, "dead")
  /\ UNCHANGED <<headVars, owner, pc, call, leaving, wmap>>

Finished ==
  /\ \A x \in Xct : pc[x] = "idle" /\ leaving[x] /\ \A l \in Lock : req[l][x].st = "none"
  /\ UNCHANGED vars

Crashed == fatal /\ UNCHANGED vars
-----------------------------------------------------------------------------
Ask(x) ==
  \E l \in Lock, m \in AskModes, d \in Durations :
    \/ Reacquire(x, l, m, d)
    \/ Upgrade(x, l, m, d)
    \/ Grant(x, l, m, d)
    \/ \E p \in Patience : AwaitUpgrade(x, l, m, d, p) \/ AwaitGrant(x, l, m, d, p)

Detect(x) == DldMerge(x) \/ DldSelf(x) \/ DldOther(x) \/ DldKill(x) \/ DldDone(x)
Sleep(x)  == Nap(x) \/ EndNap(x)
Wake(x)   == TryAgain(x) \/ GiveUp(x) \/ Granted(x)
Free(x)   == \E l \in Lock : Uncount(x, l) \/ Release(x, l)
Scan(x)   == ScanGrant(x) \/ ScanPass(x) \/ ScanEnd(x)

Next ==
  \/ \E x \in Xct : Ask(x) \/ Detect(x) \/ Sleep(x) \/ Wake(x) \/ Free(x) \/ Scan(x) \/ End(x)
  \/ \E x \in Poisonable : Poison(x)
  \/ Finished
  \/ Crashed

(***************************************************************************)
(* Threads run, so a step that stays possible is taken; the head mutex is  *)
(* a queue-based lock, so who waits for it gets it although others come    *)
(* and go.  Nobody is obliged to ask for a lock or to end.                 *)
(***************************************************************************)
Fairness ==
  \A x \in Xct :
    /\ WF_vars(Detect(x))
    /\ WF_vars(Sleep(x))
    /\ SF_vars(Wake(x))
    /\ WF_vars(Scan(x))

Spec == Init /\ [][Next]_vars
FairSpec == Spec /\ Fairness

(***************************************************************************)
(* The same when threads are prompt: 10 ms are long enough for every       *)
(* thread that is awake to finish what it does, so that a nap times out    *)
(* only when all others sleep too, or are not in the lock manager, and no  *)
(* timeout hides an unblock.                                               *)
(***************************************************************************)
Prompt ==
  \A x \in Xct :
    pc[x] = "blocked" /\ sig'[x] = "timeout" =>
      sig[x] = "none" /\ \A y \in Xct \ {x} : pc[y] \in {"idle", "blocked"}

PromptSpec == Init /\ [][Next /\ Prompt]_vars /\ Fairness

-----------------------------------------------------------------------------
\* The state is well typed, and who holds a head mutex works on that head.
TypeOK ==
  /\ queue \in [Lock -> Seq(Xct)]
  /\ req \in [Lock -> [Xct -> Request]]
  /\ gmode \in [Lock -> Mode]
  /\ waiting \in [Lock -> BOOLEAN]
  /\ owner \in [Lock -> Xct \union {NoXct}]
  /\ pc \in [Xct -> PC]
  /\ call \in [Xct -> Call]
  /\ leaving \in [Xct -> BOOLEAN]
  /\ wmap \in [Xct -> SUBSET Xct]
  /\ noblock \in [Xct -> BOOLEAN]
  /\ sig \in [Xct -> Signal]
  /\ fatal \in BOOLEAN

Holds(l, x) == req[l][x].st \in Held
HeldMode(l, x) == req[l][x].mode

Tolerates(a, b) == b \in compat[a] \/ a \in compat[b]

\* Two transactions never hold a lock in modes that exclude each other, through
\* conversions, wakeups, timeouts and victims.  The one pair let through is UD with IS,
\* which GrantedGroupCompatible is about.
NoConflictingGrants ==
  \A l \in Lock, x, y \in Xct :
    x # y /\ Holds(l, x) /\ Holds(l, y) =>
      \/ Tolerates(HeldMode(l, x), HeldMode(l, y))
      \/ {HeldMode(l, x), HeldMode(l, y)} = {"UD", "IS"}

\* The comment in granted_mode_other: a granted request is compatible with all the other
\* granted modes, in one direction at least.
GrantedGroupCompatible ==
  \A l \in Lock, x, y \in Xct :
    x # y /\ Holds(l, x) /\ Holds(l, y) => Tolerates(HeldMode(l, x), HeldMode(l, y))

\* granted_mode is what a walk of the whole queue in its order computes, although most
\* changes update it by one table lookup; the walk's early end and the order do not matter.
GroupModeIsFold ==
  \A l \in Lock :
    LET walk[i \in 0..Len(queue[l])] ==
          IF i = 0 THEN "NL"
          ELSE IF Holds(l, queue[l][i]) THEN supr[HeldMode(l, queue[l][i])][walk[i - 1]]
          ELSE walk[i - 1]
    IN  gmode[l] = walk[Len(queue[l])]

\* Holders stand ahead of waiters: granted_mode_other may stop at the first waiter, and
\* nobody who came later was let in first.
HoldersFirst ==
  \A l \in Lock : \A i, j \in 1..Len(queue[l]) :
    i < j /\ Holds(l, queue[l][j]) => Holds(l, queue[l][i])

\* Whenever the head is free, its flag tells exactly whether somebody waits: an arriving
\* request that trusts it does not overtake, and a release that trusts it wakes everybody.
FlagTellsWaiters ==
  \A l \in Lock :
    owner[l] = NoXct =>
      (waiting[l] <=> \E x \in Xct : req[l][x].st \in Pending)

Grantable(l, x) ==
  \/ /\ req[l][x].st = "converting"
     /\ GrantedModeOther(queue[l], req[l], x) \in compat[req[l][x].cmode]
  \/ /\ req[l][x].st = "waiting"
     /\ gmode[l] \in compat[req[l][x].mode]
     /\ \A i, j \in 1..Len(queue[l]) :
          i < j /\ queue[l][j] = x => req[l][queue[l][i]].st = "granted"

\* No request is left waiting that could be granted: every release, denial and timeout
\* passes the lock on.  UD is the exception, because a conversion, which wakes nobody, can
\* make room where UD is concerned: from IS to SH for UD, from UD to SIX for IS.
NobodyForgotten ==
  \A l \in Lock, x \in Xct :
    owner[l] = NoXct /\ Grantable(l, x) =>
      "UD" \in AskModes /\ WantedMode(req[l][x]) \in {"UD", "IS"}

\* A thread that was told it has the lock has it; a late victim's signal, a timeout or the
\* previous wait's unblock is never taken for a grant.
AwakeMeansGranted ==
  \A x \in Xct :
    pc[x] = "woken" /\ sig[x] = "ok" => req[call[x].lock][x].st = "granted"

\* Only its own transaction weakens or drops a lock: others' denials, kills and wakeups
\* leave what is held at least as strong, and a refused upgrade leaves the old mode.
HoldersKeepTheirs ==
  [][\A l \in Lock, x \in Xct :
       Holds(l, x) =>
         \/ Holds(l, x)' /\ Leq(HeldMode(l, x), HeldMode(l, x)')
         \/ Release(x, l)]_vars

\* A request that waits is granted only after those that waited before it: no step grants
\* it while an earlier new request goes on waiting.
NoOvertaking ==
  [][\A l \in Lock : \A i, j \in 1..Len(queue[l]) :
       i < j /\ req[l][queue[l][i]].st = "waiting" /\ req'[l][queue[l][i]].st = "waiting"
         => req'[l][queue[l][j]].st \notin Held]_vars

\* Comment in _check_deadlock: "Whenever we stop blocking, we clean our wait map and
\* restart the DLD".
MapCleanedOnRestart ==
  [][\A x \in Xct : pc[x] = "woken" /\ pc'[x] = "dld" => wmap'[x] = {}]_vars

\* Comment in set_nonblocking: "nothing should be able to go wrong".
NothingGoesWrong == ~fatal

\* With a finite timeout every wait ends, with the lock or without.
WaitsEnd ==
  \A x \in Xct :
    pc[x] \in Awaiting /\ call[x].left # Forever ~> pc[x] \notin Awaiting \/ fatal

\* What callers may rely on: the lock core implements the lock service.
Service ==
  INSTANCE LockService WITH
    held <- [l \in Lock |-> [x \in Xct |->
               IF Holds(l, x) THEN HeldMode(l, x) ELSE "NL"]],
    want <- [l \in Lock |-> [x \in Xct |->
               IF req[l][x].st \in Pending THEN WantedMode(req[l][x]) ELSE "NL"]]

\* Every step of the lock core grants, refuses, gives up or changes nothing as LockService
\* allows: no conflicting grant, no lock taken from its holder, no wait with another end.
ImplementsService == Service!Spec

\* x waits for y, which holds the lock in a mode that excludes what x wants.
StuckBehind(x, y) ==
  LET l == call[x].lock
  IN  /\ x # y /\ pc[x] \in Awaiting /\ req[l][x].st \in Pending
      /\ Holds(l, y) /\ WantedMode(req[l][x]) \notin compat[HeldMode(l, y)]

\* Every member of S waits for another one.
Deadlocked(S) == \A x \in S : \E y \in S : StuckBehind(x, y)

=============================================================================
