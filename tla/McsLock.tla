------------------------------ MODULE McsLock ------------------------------
(***************************************************************************)
(* mcs_lock: the queuing spinlock under latches and the hot critical       *)
(* sections.  Each thread brings a queue node on its stack; the lock is a  *)
(* pointer to the last one.  A step is one atomic instruction, or one read *)
(* or write of a word that another thread may write.                       *)
(*                                                                         *)
(* A node stands for the call that owns it: it is on the stack only while  *)
(* that call is in progress.                                               *)
(***************************************************************************)
EXTENDS Naturals, Sequences, FiniteSets, Threads

VARIABLES
  tail,     \* _tail
  next,     \* thread -> _next of its node
  waiting,  \* thread -> _waiting of its node
  pred,     \* thread -> what the swap of _tail returned to it
  pc        \* thread -> where it is

vars == <<tail, next, waiting, pred, pc>>

Node == Thread \union {NoThread}
PC == {"idle", "link", "spin", "crit", "swap", "await", "hand"}

Go(t, p) == pc' = [pc EXCEPT ![t] = p]

Init ==
  /\ tail = NoThread
  /\ next = [t \in Thread |-> NoThread]
  /\ waiting = [t \in Thread |-> FALSE]
  /\ pred = [t \in Thread |-> NoThread]
  /\ pc = [t \in Thread |-> "idle"]
-----------------------------------------------------------------------------
\* Slip: the node is taken as it was left, and its flag is down.
Ready_FlagDown(t) ==
  /\ next' = [next EXCEPT ![t] = NoThread]
  /\ UNCHANGED waiting

\* The node is made ready before anybody can see it.
Ready(t) ==
  /\ next' = [next EXCEPT ![t] = NoThread]
  /\ waiting' = [waiting EXCEPT ![t] = TRUE]

Attempt(t) ==
  /\ pc[t] = "idle"
  /\ Ready(t)
  /\ IF tail = NoThread THEN tail' = t /\ Go(t, "crit")
                        ELSE UNCHANGED <<tail, pc>>
  /\ UNCHANGED pred

BeginAcquire(t) ==
  /\ pc[t] = "idle"
  /\ Ready(t)
  /\ tail' = t
  /\ pred' = [pred EXCEPT ![t] = tail]
  /\ Go(t, IF tail = NoThread THEN "crit" ELSE "link")

Link(t) ==
  /\ pc[t] = "link"
  /\ next' = [next EXCEPT ![pred[t]] = t]
  /\ Go(t, "spin")
  /\ UNCHANGED <<tail, waiting, pred>>

SpinOnWaiting(t) ==
  /\ pc[t] = "spin" /\ ~waiting[t]
  /\ Go(t, "crit")
  /\ UNCHANGED <<tail, next, waiting, pred>>

\* release: is there a successor?
BeginRelease(t) ==
  /\ pc[t] = "crit"
  /\ Go(t, IF next[t] = NoThread THEN "swap" ELSE "hand")
  /\ UNCHANGED <<tail, next, waiting, pred>>

\* Slip: the lock is let go without a look at who queued meanwhile.
Uncontended_BlindStore(t) ==
  /\ pc[t] = "swap"
  /\ tail' = NoThread /\ Go(t, "idle")
  /\ UNCHANGED <<next, waiting, pred>>

\* None seen: the lock is free again unless one has queued meanwhile.
Uncontended(t) ==
  /\ pc[t] = "swap"
  /\ IF tail = t THEN tail' = NoThread /\ Go(t, "idle")
                 ELSE Go(t, "await") /\ UNCHANGED tail
  /\ UNCHANGED <<next, waiting, pred>>

\* Slip: the release returns while a successor is still linking itself.
SpinOnNext_NoWait(t) ==
  /\ pc[t] = "await"
  /\ Go(t, IF next[t] = NoThread THEN "idle" ELSE "hand")
  /\ UNCHANGED <<tail, next, waiting, pred>>

SpinOnNext(t) ==
  /\ pc[t] = "await" /\ next[t] # NoThread
  /\ Go(t, "hand")
  /\ UNCHANGED <<tail, next, waiting, pred>>

HandOver(t) ==
  /\ pc[t] = "hand"
  /\ waiting' = [waiting EXCEPT ![next[t]] = FALSE]
  /\ Go(t, "idle")
  /\ UNCHANGED <<tail, next, pred>>

Progress(t) ==
  \/ Link(t)
  \/ SpinOnWaiting(t)
  \/ BeginRelease(t)
  \/ Uncontended(t)
  \/ SpinOnNext(t)
  \/ HandOver(t)

Next == \E t \in Thread : Attempt(t) \/ BeginAcquire(t) \/ Progress(t)

Spec == Init /\ [][Next]_vars

\* A thread in the lock runs on, and its critical section ends.
LiveSpec == Spec /\ \A t \in Thread : WF_vars(Progress(t))
-----------------------------------------------------------------------------
TypeOK ==
  /\ tail \in Node
  /\ next \in [Thread -> Node]
  /\ waiting \in [Thread -> BOOLEAN]
  /\ pred \in [Thread -> Node]
  /\ pc \in [Thread -> PC]

\* Threads that have the lock, from its acquire to the last step of its release.
HasLock(t) == pc[t] \in {"crit", "swap", "await", "hand"}

\* At most one thread is in a critical section or on its way out of one.
Exclusion == \A s, t \in Thread : HasLock(s) /\ HasLock(t) => s = t

\* Nodes are on stacks: a thread still about to write into a predecessor's node, or a
\* releaser about to write into its successor's, finds the call that owns it in progress.
NodesLive ==
  \A t \in Thread :
    /\ pc[t] = "link" => pred[t] # NoThread /\ pc[pred[t]] # "idle"
    /\ pc[t] = "hand" => pc[next[t]] = "spin" /\ waiting[next[t]]

(***************************************************************************)
(* The line of threads, read off the nodes: from the last one along pred   *)
(* to the one that no longer waits.                                        *)
(***************************************************************************)
Waits(t) == pc[t] \in {"link", "spin"} /\ waiting[t]

Chain(q) ==
  /\ q[Len(q)] = tail /\ ~Waits(q[1])
  /\ \A i \in 2..Len(q) : Waits(q[i]) /\ pred[q[i]] = q[i - 1]

Line ==
  IF tail = NoThread
    THEN <<>>
    ELSE CHOOSE q \in UNION {[1..n -> Thread] : n \in 1..Cardinality(Thread)} : Chain(q)

Queue == INSTANCE QueueLock WITH line <- Line

\* The nodes implement a first-come first-served line: a swap of _tail joins it, and
\* only the head leaves it, by clearing _tail or by waking the next in line.
ImplementsLine == Queue!Spec

\* Nobody who queues is left spinning.
Served(t) == pc[t] = "link" ~> pc[t] = "crit"
EveryoneServed == \A t \in Thread : Served(t)

=============================================================================
