---------------------------- MODULE LockService ----------------------------
(***************************************************************************)
(* What the lock core promises its callers: transactions hold locks in     *)
(* modes that tolerate each other, a wait ends with the mode asked for or  *)
(* with what was held before, and only its owner gives a lock up.  There   *)
(* are no queues, mutexes, naps, wakeups or wait maps here.                *)
(***************************************************************************)
EXTENDS LockModes

CONSTANTS Xct, Lock

VARIABLES
  held,  \* lock -> transaction -> the mode it holds, NL for none
  want   \* lock -> transaction -> the mode it waits for, NL for none

service == <<held, want>>

Nothing == [l \in Lock |-> [x \in Xct |-> "NL"]]

Init == held = Nothing /\ want = Nothing

Set(f, l, x, m) == [f EXCEPT ![l][x] = m]

\* x may hold m beside the others.  UD slips in beside IS when the strongest is SH.
Admits(l, x, m) ==
  \A y \in Xct \ {x} :
    \/ held[l][y] \in compat[m]
    \/ m = "UD" /\ held[l][y] = "IS" /\ \E z \in Xct \ {x} : held[l][z] = "SH"

Stronger(l, x, m) == m # held[l][x] /\ Leq(held[l][x], m)

\* The lock is taken, or a held one made stronger, without a wait.
Take(x, l, m) ==
  /\ want[l][x] = "NL"
  /\ Stronger(l, x, m) /\ Admits(l, x, m)
  /\ held' = Set(held, l, x, m)
  /\ UNCHANGED want

Wait(x, l, m) ==
  /\ \A k \in Lock : want[k][x] = "NL"
  /\ Stronger(l, x, m)
  /\ want' = Set(want, l, x, m)
  /\ UNCHANGED held

\* The wait ends well.
Give(x, l) ==
  /\ want[l][x] # "NL"
  /\ Admits(l, x, want[l][x])
  /\ held' = Set(held, l, x, want[l][x])
  /\ want' = Set(want, l, x, "NL")

\* A timeout, or a deadlock of which x is the victim: what was held stays held.
Refuse(x, l) ==
  /\ want[l][x] # "NL"
  /\ want' = Set(want, l, x, "NL")
  /\ UNCHANGED held

Drop(x, l) ==
  /\ held[l][x] # "NL"
  /\ \A k \in Lock : want[k][x] = "NL"
  /\ held' = Set(held, l, x, "NL")
  /\ UNCHANGED want

Next == UNCHANGED service \/
  \E x \in Xct, l \in Lock :
    \/ \E m \in Mode : Take(x, l, m) \/ Wait(x, l, m)
    \/ Give(x, l)
    \/ Refuse(x, l)
    \/ Drop(x, l)

Spec == Init /\ [][Next]_service

=============================================================================
