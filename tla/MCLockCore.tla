---------------------------- MODULE MCLockCore ----------------------------
(***************************************************************************)
(* Constants of LockCore that a configuration file cannot spell.           *)
(***************************************************************************)
EXTENDS LockCore, FiniteSets

VARIABLE load   \* the workload of a behaviour

(***************************************************************************)
(* Workloads: three transactions on one lock; two on one lock with every   *)
(* mode and duration; two that share and upgrade one lock, or take two     *)
(* locks each, with waits of one nap or without end, where a checkpoint    *)
(* poisons one of them.                                                    *)
(***************************************************************************)
Loads ==
  { [xcts |-> {1, 2, 3}, locks |-> {1}, modes |-> {"SH", "EX"},
     durations |-> {FALSE}, patience |-> {1}, count |-> <<2, 1, 1>>, poisoned |-> {}],
    [xcts |-> {1, 2}, locks |-> {1}, modes |-> AskModes,
     durations |-> BOOLEAN, patience |-> {1}, count |-> <<2, 2>>, poisoned |-> {}],
    [xcts |-> {1, 2}, locks |-> {1}, modes |-> {"SH", "EX"},
     durations |-> {FALSE}, patience |-> {1, Forever}, count |-> <<2, 2>>, poisoned |-> {2}],
    [xcts |-> {1, 2}, locks |-> {1, 2}, modes |-> {"EX"},
     durations |-> {FALSE}, patience |-> {1, Forever}, count |-> <<2, 2>>, poisoned |-> {2}] }

\* Ask, and Next, for the workload.
LoadAsk(x) ==
  \E l \in load.locks, m \in load.modes, d \in load.durations :
    /\ req[l][x].cnt < load.count[x]
    /\ \/ Reacquire(x, l, m, d)
       \/ Upgrade(x, l, m, d)
       \/ Grant(x, l, m, d)
       \/ \E p \in load.patience : AwaitUpgrade(x, l, m, d, p) \/ AwaitGrant(x, l, m, d, p)

LoadFinished ==
  /\ \A x \in load.xcts : pc[x] = "idle" /\ leaving[x] /\ \A l \in Lock : req[l][x].st = "none"
  /\ UNCHANGED vars

LoadNext ==
  /\ \/ \E x \in load.xcts :
          LoadAsk(x) \/ Detect(x) \/ Sleep(x) \/ Wake(x) \/ Free(x) \/ Scan(x) \/ End(x)
     \/ \E x \in load.poisoned : Poison(x)
     \/ LoadFinished
     \/ Crashed
  /\ UNCHANGED load

LoadInit == load \in Loads /\ Init
LoadSpec == LoadInit /\ [][LoadNext]_<<vars, load>>

OneOrForever == {1, Forever}

\* All there is to ask for.
All == [xcts |-> Xct, locks |-> Lock, modes |-> AskModes, durations |-> Durations,
        patience |-> Patience, count |-> [x \in Xct |-> MaxCount], poisoned |-> Poisonable]

AllInit == load = All /\ Init
AllSpec == AllInit /\ [][LoadNext]_<<vars, load>>

(***************************************************************************)
(* A ring: transaction i holds lock i and will ask for the next one.       *)
(***************************************************************************)
Ring == Cardinality(Xct)
NextInRing(i) == (i % Ring) + 1

HeldBy(m) == [NoReq EXCEPT !.st = "granted", !.mode = m, !.cnt = 1]

RingInit ==
  /\ queue   = [l \in Lock |-> <<l>>]
  /\ req     = [l \in Lock |-> [x \in Xct |-> IF x = l THEN HeldBy("EX") ELSE NoReq]]
  /\ gmode   = [l \in Lock |-> "EX"]
  /\ waiting = [l \in Lock |-> FALSE]
  /\ owner   = [l \in Lock |-> NoXct]
  /\ pc      = [x \in Xct |-> "idle"]
  /\ call    = [x \in Xct |-> NoCall]
  /\ leaving = [x \in Xct |-> FALSE]
  /\ wmap    = [x \in Xct |-> {}]
  /\ noblock = [x \in Xct |-> FALSE]
  /\ sig     = [x \in Xct |-> "none"]
  /\ fatal   = FALSE

\* It asks for no other lock, and does not end before it has asked.
AsksNext ==
  \A x \in Xct :
    pc[x] = "idle" /\ pc'[x] # "scan" =>
      \/ pc'[x] = "dld" /\ call'[x].lock = NextInRing(x)
      \/ pc'[x] = "idle" /\ (leaving'[x] => leaving[x] \/ req[NextInRing(x)][x].st # "none")

(***************************************************************************)
(* Two transactions with two locks, two that share a lock and upgrade it,  *)
(* and three in a ring.                                                    *)
(***************************************************************************)
Two(locks, modes, n) == [xcts |-> {1, 2}, locks |-> locks, modes |-> modes,
                      durations |-> {FALSE}, patience |-> {1, Forever}, count |-> <<n, n>>, poisoned |-> {}]
Pairs == {Two({1, 2}, {"EX"}, 1), Two({1}, {"SH", "EX"}, 2)}
InRing == [xcts |-> Xct, locks |-> Lock, modes |-> {"EX"},
           durations |-> {FALSE}, patience |-> {Forever}, count |-> <<1, 1, 1>>, poisoned |-> {}]

LiveInit == (load \in Pairs /\ Init) \/ (load = InRing /\ RingInit)
LiveNext == LoadNext /\ Prompt /\ (load = InRing => AsksNext)

LiveSpec == LiveInit /\ [][LiveNext]_<<vars, load>> /\ Fairness

\* Transactions that wait for each other without a timeout do not do so for ever: the wait
\* maps they merge out of each other's show one of them the cycle, wherever it was asleep,
\* awake or detecting when the others looked, and the victim is really unblocked.  A deadlock
\* of these workloads has all their transactions in it.
DeadlockBroken == Deadlocked(load.xcts) ~> ~Deadlocked(load.xcts)

=============================================================================
