----------------------------- MODULE OccRwLock -----------------------------
(***************************************************************************)
(* occ_rwlock: readers pay one atomic add, a writer pays a mutex and two   *)
(* condition variables.  A reader counts itself first and looks at the     *)
(* writer's bit after; if it is set it takes its count back, and may have  *)
(* sent a writer to sleep in between.  The checkpoint thread (the writer)  *)
(* and committing or preparing transactions (the readers) exclude each     *)
(* other with it.                                                          *)
(*                                                                         *)
(* A step is an atomic add, or what a thread does with the mutex in hand   *)
(* between two looks at the count.  pthread_cond_wait may return for no    *)
(* reason.                                                                 *)
(***************************************************************************)
EXTENDS Integers, FiniteSets, Threads

CONSTANT Writers   \* threads that acquire in write mode

ASSUME WritersAssumption == Writers \subseteq Thread

VARIABLES
  active,   \* _active_count: twice the readers, plus one for a writer
  mutex,    \* owner of _read_write_mutex
  onRead,   \* threads asleep on _read_cond
  onWrite,  \* threads asleep on _write_cond
  place,    \* thread -> where it is
  seen      \* thread -> the count that its last atomic add returned

occVars == <<active, mutex, onRead, onWrite, place, seen>>

WRITER == 1
READER == 2

OccPC == {"idle", "enter", "back", "bounced", "rloop", "rsleep", "reading", "left",
       "wait", "wloop", "wsleep", "drain", "dsleep", "writing"}

HasWriter == active % 2 = 1

Goes(t, p) == place' = [place EXCEPT ![t] = p]

OccInit ==
  /\ active = 0
  /\ mutex = NoThread
  /\ onRead = {} /\ onWrite = {}
  /\ place = [t \in Thread |-> "idle"]
  /\ seen = [t \in Thread |-> 0]

\* An atomic add, and the count it leaves.
AddAndSee(t, n) ==
  /\ active' = active + n
  /\ seen' = [seen EXCEPT ![t] = active']

Lock(t) == mutex = NoThread /\ mutex' = t
Unlock(t) == mutex = t /\ mutex' = NoThread

\* pthread_cond_signal: one of the sleepers, if there is one.
SignalWriter ==
  IF onWrite = {} THEN UNCHANGED onWrite
                  ELSE \E w \in onWrite : onWrite' = onWrite \ {w}

\* A sleeper that was woken, or wakes for no reason, takes the mutex again.
Wake(t, from, to) ==
  /\ place[t] = from
  /\ Lock(t)
  /\ Goes(t, to)
  /\ UNCHANGED <<active, onRead, onWrite, seen>>
-----------------------------------------------------------------------------
(***************************************************************************)
(* Readers.                                                                *)
(***************************************************************************)
BeginRead(t) ==
  /\ place[t] = "idle"
  /\ Goes(t, "enter")
  /\ UNCHANGED <<active, mutex, onRead, onWrite, seen>>

Enter(t) ==
  /\ place[t] = "enter"
  /\ AddAndSee(t, READER)
  /\ Goes(t, IF HasWriter THEN "back" ELSE "reading")
  /\ UNCHANGED <<mutex, onRead, onWrite>>

BackOut(t) ==
  /\ place[t] = "back"
  /\ AddAndSee(t, -READER)
  /\ Goes(t, "bounced")
  /\ UNCHANGED <<mutex, onRead, onWrite>>

\* Slip: a writer fooled into sleeping is not thought of.
Bounced_NoSignal(t) ==
  /\ place[t] = "bounced"
  /\ Lock(t)
  /\ Goes(t, "rloop")
  /\ UNCHANGED <<active, onRead, onWrite, seen>>

\* The last to take its count back wakes the writer.
Bounced(t) ==
  /\ place[t] = "bounced"
  /\ Lock(t)
  /\ IF seen[t] = WRITER THEN SignalWriter ELSE UNCHANGED onWrite
  /\ Goes(t, "rloop")
  /\ UNCHANGED <<active, onRead, seen>>

\* Once more from the start when the writer is gone, which may be too late again.
ReaderLoop(t) ==
  /\ place[t] = "rloop"
  /\ Unlock(t)
  /\ IF HasWriter THEN onRead' = onRead \union {t} /\ Goes(t, "rsleep")
                  ELSE Goes(t, "enter") /\ UNCHANGED onRead
  /\ UNCHANGED <<active, onWrite, seen>>

ReaderWakes(t) == t \notin onRead /\ Wake(t, "rsleep", "rloop")

ReleaseRead(t) ==
  /\ place[t] = "reading"
  /\ AddAndSee(t, -READER)
  /\ Goes(t, IF active' = WRITER THEN "left" ELSE "idle")
  /\ UNCHANGED <<mutex, onRead, onWrite>>

\* The last reader out.
Left(t) ==
  /\ place[t] = "left"
  /\ mutex = NoThread
  /\ SignalWriter
  /\ Goes(t, "idle")
  /\ UNCHANGED <<active, mutex, onRead, seen>>
-----------------------------------------------------------------------------
(***************************************************************************)
(* Writers.                                                                *)
(***************************************************************************)
BeginWrite(t) ==
  /\ place[t] = "idle" /\ t \in Writers
  /\ Goes(t, "wait")
  /\ UNCHANGED <<active, mutex, onRead, onWrite, seen>>

AcquireWrite(t) ==
  /\ place[t] = "wait"
  /\ Lock(t)
  /\ Goes(t, "wloop")
  /\ UNCHANGED <<active, onRead, onWrite, seen>>

WriterLoop(t) ==
  /\ place[t] = "wloop"
  /\ IF HasWriter
       THEN /\ Unlock(t)
            /\ onRead' = onRead \union {t} /\ Goes(t, "wsleep")
            /\ UNCHANGED <<active, seen>>
       ELSE /\ AddAndSee(t, WRITER)
            /\ Goes(t, "drain")
            /\ UNCHANGED <<mutex, onRead>>
  /\ UNCHANGED onWrite

WriterWakes(t) == t \notin onRead /\ Wake(t, "wsleep", "wloop")

\* The count tested is the one the add returned, or the one read after the last sleep;
\* the mutex does not stop readers from coming and going in between.
Drain(t) ==
  /\ place[t] = "drain"
  /\ Unlock(t)
  /\ IF seen[t] # WRITER
       THEN onWrite' = onWrite \union {t} /\ Goes(t, "dsleep")
       ELSE Goes(t, "writing") /\ UNCHANGED onWrite
  /\ UNCHANGED <<active, onRead, seen>>

\* Slip: whoever wakes the writer has seen to it that the readers are gone.
DrainWakes_NoLook(t) ==
  /\ place[t] = "dsleep" /\ t \notin onWrite
  /\ Lock(t)
  /\ seen' = [seen EXCEPT ![t] = WRITER]
  /\ Goes(t, "drain")
  /\ UNCHANGED <<active, onRead, onWrite>>

DrainWakes(t) ==
  /\ place[t] = "dsleep" /\ t \notin onWrite
  /\ Lock(t)
  /\ seen' = [seen EXCEPT ![t] = active]
  /\ Goes(t, "drain")
  /\ UNCHANGED <<active, onRead, onWrite>>

ReleaseWrite(t) ==
  /\ place[t] = "writing"
  /\ mutex = NoThread
  /\ active' = active - WRITER
  /\ onRead' = {}
  /\ Goes(t, "idle")
  /\ UNCHANGED <<mutex, onWrite, seen>>

Spurious(t) ==
  /\ t \in onRead \union onWrite
  /\ onRead' = onRead \ {t} /\ onWrite' = onWrite \ {t}
  /\ UNCHANGED <<active, mutex, place, seen>>
-----------------------------------------------------------------------------
OccProgress(t) ==
  \/ Enter(t) \/ BackOut(t) \/ Bounced(t) \/ ReaderLoop(t) \/ ReaderWakes(t)
  \/ ReleaseRead(t) \/ Left(t)
  \/ AcquireWrite(t) \/ WriterLoop(t) \/ WriterWakes(t) \/ Drain(t) \/ DrainWakes(t)
  \/ ReleaseWrite(t)

OccNext ==
  \E t \in Thread :
    BeginRead(t) \/ BeginWrite(t) \/ OccProgress(t) \/ Spurious(t)

OccSpec == OccInit /\ [][OccNext]_occVars

\* Threads run, holders let go, and a mutex that is free again and again is got.  Nobody
\* counts on spurious wakeups.
OccLiveSpec ==
  OccSpec /\ \A t \in Thread : SF_occVars(OccProgress(t))
-----------------------------------------------------------------------------
OccTypeOK ==
  /\ active \in Int
  /\ mutex \in Thread \union {NoThread}
  /\ onRead \subseteq Thread /\ onWrite \subseteq Thread
  /\ place \in [Thread -> OccPC]
  /\ seen \in [Thread -> Int]

\* The checkpoint has the log to itself: a writer is alone.
OccExclusion ==
  \A w, t \in Thread :
    place[w] = "writing" /\ t # w => place[t] \notin {"reading", "writing"}

Counted == {t \in Thread : place[t] \in {"reading", "back"}}
Marking == {t \in Thread : place[t] \in {"drain", "dsleep", "writing"}}

\* The count tells the readers, those who will have to back out among them, and the
\* one writer who has set the bit: no add is lost and none made twice.
CountTrue ==
  /\ active = READER * Cardinality(Counted) + Cardinality(Marking)
  /\ Cardinality(Marking) <= 1

\* The nasty race: a writer asleep with nobody but itself in the count has somebody on
\* the way who will signal, and those asleep on _read_cond have a writer to wait for.
WakeupComing ==
  /\ onWrite # {} /\ active = WRITER =>
       \E t \in Thread : place[t] = "left" \/ (place[t] = "bounced" /\ seen[t] = WRITER)
  /\ onRead # {} => HasWriter

\* What the checkpoint and the committing transactions rely on.
WriterAlone == OccExclusion /\ CountTrue /\ WakeupComing

\* A writer that has set its bit gets in, whatever the readers do.
OccServed(w) == place[w] = "drain" ~> place[w] = "writing"
EveryWriterServed == \A w \in Writers : OccServed(w)

=============================================================================
