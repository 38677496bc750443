------------------------------- MODULE Store -------------------------------
(***************************************************************************)
(* What logging and recovery promise: a store whose content is made of     *)
(* whole transactions.  A transaction writes items, asks to commit, and    *)
(* from some moment on is in the store for good; one that was cut off by a *)
(* crash, or gave up, never is.                                            *)
(***************************************************************************)
EXTENDS Integers, FiniteSets

CONSTANTS
  Xct,    \* transactions
  Page    \* pages

VARIABLES
  wrote,   \* transaction -> the <<page, item>> pairs it has written
  asked,   \* transactions that asked to commit
  told,    \* transactions that were told that they are committed
  lost,    \* transactions that will never be in the store
  store    \* page -> its items, were the system to stop and start again now

storeVars == <<wrote, asked, told, lost, store>>

With(S) == [p \in Page |-> store[p] \union
                {w[2] : w \in {v \in UNION {wrote[x] : x \in S} : v[1] = p}}]

In(x) == \A w \in wrote[x] : w[2] \in store[w[1]]

StoreInit ==
  /\ wrote = [x \in Xct |-> {}]
  /\ asked = {} /\ told = {} /\ lost = {}
  /\ store = [p \in Page |-> {}]

Write(x) ==
  /\ x \notin asked \union lost
  /\ \E p \in Page : \E item \in [xct : {x}, no : {Cardinality(wrote[x]) + 1}] :
       wrote' = [wrote EXCEPT ![x] = @ \union {<<p, item>>}]
  /\ UNCHANGED <<asked, told, lost, store>>

Ask(x) ==
  /\ x \notin asked \union lost
  /\ asked' = asked \union {x}
  /\ UNCHANGED <<wrote, told, lost, store>>

\* Some of those that asked enter the store, as a whole.
Keep ==
  /\ \E S \in SUBSET (asked \ lost) : store' = With(S)
  /\ UNCHANGED <<wrote, asked, told, lost>>

Tell(x) ==
  /\ x \in asked /\ In(x)
  /\ told' = told \union {x}
  /\ UNCHANGED <<wrote, asked, lost, store>>

GiveUp(x) ==
  /\ x \notin asked
  /\ lost' = lost \union {x}
  /\ UNCHANGED <<wrote, asked, told, store>>

\* A crash decides about everything that was going on.
Crash ==
  /\ \E S \in SUBSET (asked \ lost) :
       /\ store' = With(S)
       /\ lost' = lost \union {x \in Xct : wrote[x] # {} /\ ~In(x)'}
  /\ UNCHANGED <<wrote, asked, told>>

StoreNext == Keep \/ Crash \/ \E x \in Xct : Write(x) \/ Ask(x) \/ Tell(x) \/ GiveUp(x)

StoreSpec == StoreInit /\ [][StoreNext]_storeVars

=============================================================================
