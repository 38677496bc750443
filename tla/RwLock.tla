------------------------------- MODULE RwLock -------------------------------
(***************************************************************************)
(* What a reader-writer lock promises: a writer is alone.  An upgrade and  *)
(* a downgrade leave no gap in which the thread holds nothing.             *)
(***************************************************************************)
CONSTANT Thread

VARIABLE held   \* thread -> the mode it holds the lock in

Mode == {"NL", "SH", "EX"}

Init == held = [t \in Thread |-> "NL"]

Others(t) == {held[s] : s \in Thread \ {t}}

Change(t, m) == held' = [held EXCEPT ![t] = m]

Read(t) == held[t] = "NL" /\ "EX" \notin Others(t) /\ Change(t, "SH")
Write(t) == held[t] = "NL" /\ Others(t) \subseteq {"NL"} /\ Change(t, "EX")
Upgrade(t) == held[t] = "SH" /\ Others(t) \subseteq {"NL"} /\ Change(t, "EX")
Downgrade(t) == held[t] = "EX" /\ Change(t, "SH")
Release(t) == held[t] # "NL" /\ Change(t, "NL")

Next ==
  \/ UNCHANGED held
  \/ \E t \in Thread : Read(t) \/ Write(t) \/ Upgrade(t) \/ Downgrade(t) \/ Release(t)

Spec == Init /\ [][Next]_held

=============================================================================
