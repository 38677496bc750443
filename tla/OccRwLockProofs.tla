-------------------------- MODULE OccRwLockProofs --------------------------
(***************************************************************************)
(* A writer of the occ_rwlock is alone, its count is true and the wakeups  *)
(* it needs are on their way, for any number of threads.                   *)
(***************************************************************************)
EXTENDS OccRwLock, FiniteSetTheorems, TLAPS

\* The mutex is held from a look at the count to the sleep, or to the next step, it leads to.
InMutex(t) == place[t] \in {"rloop", "wloop", "drain"}
MutexInv == \A t \in Thread : InMutex(t) <=> mutex = t

SleepInv ==
  /\ \A t \in onWrite : place[t] = "dsleep"
  /\ \A t \in onRead : place[t] \in {"rsleep", "wsleep"}
  /\ onRead # {} => HasWriter

\* A writer that found the count empty of readers keeps it so: who comes later backs out.
AloneSince(t) == place[t] = "writing" \/ (place[t] = "drain" /\ seen[t] = WRITER)
AloneInv == \A w, t \in Thread : AloneSince(w) => place[t] # "reading"

\* A writer that sleeps, or is about to, had readers in the count; the last of them to take
\* its count back knows that it must signal.
Dozes(w) == (place[w] = "dsleep" /\ w \in onWrite) \/ (place[w] = "drain" /\ seen[w] # WRITER)
WillSignal(t) == place[t] = "left" \/ (place[t] = "bounced" /\ seen[t] = WRITER)
SignalInv ==
  \A w \in Thread : Dozes(w) /\ active = WRITER => \E t \in Thread : WillSignal(t)

IInv == OccTypeOK /\ MutexInv /\ CountTrue /\ SleepInv /\ AloneInv /\ SignalInv

-----------------------------------------------------------------------------
(***************************************************************************)
(* The count.                                                              *)
(***************************************************************************)
LEMMA Subsets ==
  ASSUME IsFiniteSet(Thread), NEW S \in SUBSET Thread
  PROVE  IsFiniteSet(S) /\ Cardinality(S) \in Nat /\ (Cardinality(S) = 0 <=> S = {})
  BY FS_Subset, FS_CardinalityType, FS_EmptySet

\* Two different elements are more than one.
LEMMA AtMostOne ==
  ASSUME IsFiniteSet(Thread), NEW S \in SUBSET Thread, Cardinality(S) <= 1,
         NEW s \in S, NEW t \in S
  PROVE  s = t
<1>1. Cardinality(S \ {s}) = Cardinality(S) - 1 /\ IsFiniteSet(S \ {s})
  BY Subsets, FS_RemoveElement
<1>2. Cardinality(S \ {s}) = 0
  BY <1>1, Subsets
<1>. QED
  BY <1>1, <1>2, FS_EmptySet

LEMMA HalfAndBit ==
  ASSUME NEW a \in Nat, NEW b \in {0, 1}, NEW n, n = 2 * a + b
  PROVE  n % 2 = b /\ (n = 1 <=> b = 1 /\ a = 0)
<1>1. CASE b = 0
  BY <1>1
<1>2. CASE b = 1
  BY <1>2
<1>. QED
  BY <1>1, <1>2

\* With a true count, the parity is the writer's.
LEMMA Parity ==
  ASSUME IsFiniteSet(Thread), CountTrue
  PROVE  /\ Cardinality(Counted) \in Nat /\ Cardinality(Marking) \in {0, 1}
         /\ IsFiniteSet(Counted) /\ IsFiniteSet(Marking)
         /\ HasWriter <=> Marking # {}
         /\ active = WRITER <=> Marking # {} /\ Counted = {}
<1>1. Counted \in SUBSET Thread /\ Marking \in SUBSET Thread
  BY DEF Counted, Marking
<1>2. /\ Cardinality(Counted) \in Nat /\ Cardinality(Marking) \in {0, 1}
      /\ IsFiniteSet(Counted) /\ IsFiniteSet(Marking)
      /\ Cardinality(Counted) = 0 <=> Counted = {}
      /\ Cardinality(Marking) = 0 <=> Marking = {}
  BY <1>1, Subsets DEF CountTrue
<1>3. active = 2 * Cardinality(Counted) + Cardinality(Marking)
  BY DEF CountTrue, READER
<1>4. active % 2 = Cardinality(Marking)
  BY <1>2, <1>3
<1>. QED
  BY <1>2, <1>3, <1>4 DEF HasWriter, WRITER

\* What a step of one thread does to the two sets.
InCount(p) == IF p \in {"reading", "back"} THEN 1 ELSE 0
InMark(p) == IF p \in {"drain", "dsleep", "writing"} THEN 1 ELSE 0

LEMMA OneMoves ==
  ASSUME NEW S, IsFiniteSet(S), NEW S2, NEW t,
         \/ t \in S /\ S2 = S \ {t}
         \/ t \notin S /\ S2 = S \union {t}
         \/ S2 = S
  PROVE  Cardinality(S2) = Cardinality(S)
           + (IF t \in S2 /\ t \notin S THEN 1 ELSE 0) - (IF t \in S /\ t \notin S2 THEN 1 ELSE 0)
<1>1. Cardinality(S) \in Nat
  BY FS_CardinalityType
<1>2. CASE t \in S /\ S2 = S \ {t}
  BY <1>1, <1>2, FS_RemoveElement
<1>3. CASE t \notin S /\ S2 = S \union {t}
  BY <1>1, <1>3, FS_AddElement
<1>4. CASE S2 = S
  BY <1>1, <1>4
<1>. QED
  BY <1>2, <1>3, <1>4

LEMMA Elsewhere ==
  ASSUME NEW U, NEW S \in SUBSET U, NEW S2 \in SUBSET U, NEW t \in U,
         \A u \in U \ {t} : u \in S2 <=> u \in S
  PROVE  \/ t \in S /\ S2 = S \ {t}
         \/ t \notin S /\ S2 = S \union {t}
         \/ S2 = S
<1>1. CASE t \in S /\ t \notin S2
  <2>. S2 = S \ {t}
    BY <1>1
  <2>. QED
    BY <1>1
<1>2. CASE t \notin S /\ t \in S2
  <2>. S2 = S \union {t}
    BY <1>2
  <2>. QED
    BY <1>2
<1>3. CASE t \in S <=> t \in S2
  <2>1. \A u \in U : u \in S2 <=> u \in S
    BY <1>3
  <2>. QED
    BY <2>1
<1>. QED
  BY <1>1, <1>2, <1>3

LEMMA Moves ==
  ASSUME IsFiniteSet(Thread), OccTypeOK, CountTrue, NEW t \in Thread, NEW p \in OccPC, Goes(t, p)
  PROVE  /\ Cardinality(Counted') = Cardinality(Counted) + InCount(p) - InCount(place[t])
         /\ Cardinality(Marking') = Cardinality(Marking) + InMark(p) - InMark(place[t])
<1>1. \A u \in Thread : place'[u] = IF u = t THEN p ELSE place[u]
  BY DEF OccTypeOK, Goes
<1>2. IsFiniteSet(Counted) /\ IsFiniteSet(Marking)
  BY Parity
<1>3. Cardinality(Counted') = Cardinality(Counted) + InCount(p) - InCount(place[t])
  <2>1. t \in Counted <=> InCount(place[t]) = 1
    BY DEF Counted, InCount
  <2>2. t \in Counted' <=> InCount(p) = 1
    BY <1>1 DEF Counted, InCount
  <2>3. \A u \in Thread \ {t} : u \in Counted' <=> u \in Counted
    BY <1>1 DEF Counted
  <2>4. Counted \subseteq Thread /\ Counted' \subseteq Thread
    BY DEF Counted
  <2>5. \/ t \in Counted /\ Counted' = Counted \ {t}
        \/ t \notin Counted /\ Counted' = Counted \union {t}
        \/ Counted' = Counted
    BY <2>3, <2>4, Elsewhere, Zenon
  <2>6. Cardinality(Counted') = Cardinality(Counted)
           + (IF t \in Counted' /\ t \notin Counted THEN 1 ELSE 0)
           - (IF t \in Counted /\ t \notin Counted' THEN 1 ELSE 0)
    BY <1>2, <2>5, OneMoves, Zenon
  <2>. QED
    BY <2>1, <2>2, <2>6, Parity DEF InCount
<1>4. Cardinality(Marking') = Cardinality(Marking) + InMark(p) - InMark(place[t])
  <2>1. t \in Marking <=> InMark(place[t]) = 1
    BY DEF Marking, InMark
  <2>2. t \in Marking' <=> InMark(p) = 1
    BY <1>1 DEF Marking, InMark
  <2>3. \A u \in Thread \ {t} : u \in Marking' <=> u \in Marking
    BY <1>1 DEF Marking
  <2>4. Marking \subseteq Thread /\ Marking' \subseteq Thread
    BY DEF Marking
  <2>5. \/ t \in Marking /\ Marking' = Marking \ {t}
        \/ t \notin Marking /\ Marking' = Marking \union {t}
        \/ Marking' = Marking
    BY <2>3, <2>4, Elsewhere, Zenon
  <2>6. Cardinality(Marking') = Cardinality(Marking)
           + (IF t \in Marking' /\ t \notin Marking THEN 1 ELSE 0)
           - (IF t \in Marking /\ t \notin Marking' THEN 1 ELSE 0)
    BY <1>2, <2>5, OneMoves, Zenon
  <2>. QED
    BY <2>1, <2>2, <2>6, Parity DEF InMark
<1>. QED
  BY <1>3, <1>4

USE NoThreadAssumption

LEMMA OccStarts ==
  ASSUME IsFiniteSet(Thread)
  PROVE  OccInit => IInv
<1>. SUFFICES ASSUME OccInit PROVE IInv
  OBVIOUS
<1>1. OccTypeOK /\ MutexInv /\ SleepInv /\ AloneInv /\ SignalInv
  BY DEF OccInit, OccTypeOK, OccPC, MutexInv, InMutex, SleepInv, AloneInv, AloneSince, SignalInv, Dozes
<1>2. Counted = {} /\ Marking = {}
  BY DEF OccInit, Counted, Marking
<1>3. CountTrue
  BY <1>2, FS_EmptySet DEF OccInit, CountTrue, READER
<1>. QED
  BY <1>1, <1>3 DEF IInv

-----------------------------------------------------------------------------
(***************************************************************************)
(* What a step leaves behind, conjunct by conjunct.                        *)
(***************************************************************************)
LEMMA Went ==
  ASSUME OccTypeOK, NEW t \in Thread, NEW p \in OccPC, Goes(t, p)
  PROVE  /\ place' \in [Thread -> OccPC] /\ place'[t] = p
         /\ \A u \in Thread \ {t} : place'[u] = place[u]
  BY DEF OccTypeOK, Goes

LEMMA Saw ==
  ASSUME OccTypeOK, NEW t \in Thread, NEW n \in Int, AddAndSee(t, n)
  PROVE  /\ active' = active + n /\ active' \in Int
         /\ seen' \in [Thread -> Int] /\ seen'[t] = active'
         /\ \A u \in Thread \ {t} : seen'[u] = seen[u]
  BY DEF OccTypeOK, AddAndSee

\* The parity again, for the state that a step leads to.
LEMMA ParityAfter ==
  ASSUME IsFiniteSet(Thread), CountTrue'
  PROVE  /\ HasWriter' <=> Marking' # {}
         /\ active' = WRITER <=> Marking' # {} /\ Counted' = {}
<1>1. Counted' \in SUBSET Thread /\ Marking' \in SUBSET Thread
  BY DEF Counted, Marking
<1>2. /\ Cardinality(Counted') \in Nat /\ Cardinality(Marking') \in Nat
      /\ Cardinality(Counted') = 0 <=> Counted' = {}
      /\ Cardinality(Marking') = 0 <=> Marking' = {}
  BY <1>1, Subsets
<1>3. active' = 2 * Cardinality(Counted') + Cardinality(Marking') /\ Cardinality(Marking') <= 1
  BY DEF CountTrue, READER
<1>4. Cardinality(Marking') \in {0, 1}
  BY <1>2, <1>3
<1>5. active' % 2 = Cardinality(Marking')
  BY <1>2, <1>3, <1>4, HalfAndBit
<1>6. HasWriter' <=> Marking' # {}
  BY <1>2, <1>4, <1>5 DEF HasWriter
<1>7. active' = 1 <=> Cardinality(Marking') = 1 /\ Cardinality(Counted') = 0
  BY <1>2, <1>3, <1>4, HalfAndBit, Zenon
<1>8. Cardinality(Marking') = 1 <=> Marking' # {}
  BY <1>2, <1>4
<1>. QED
  BY <1>2, <1>6, <1>7, <1>8 DEF WRITER

\* Only one writer has set the bit.
LEMMA OneMarks ==
  ASSUME IsFiniteSet(Thread), CountTrue, NEW v \in Marking, NEW w \in Marking
  PROVE  v = w
  BY AtMostOne DEF Marking, CountTrue

\* A step that adds to the count what its thread's move is worth keeps the count true.
LEMMA CountKept ==
  ASSUME IsFiniteSet(Thread), OccTypeOK, CountTrue, NEW t \in Thread, NEW p \in OccPC, Goes(t, p),
         active' = active + 2 * (InCount(p) - InCount(place[t])) + (InMark(p) - InMark(place[t])),
         InMark(p) = 1 => InMark(place[t]) = 1 \/ ~HasWriter
  PROVE  CountTrue'
<1>1. /\ Cardinality(Counted') = Cardinality(Counted) + InCount(p) - InCount(place[t])
      /\ Cardinality(Marking') = Cardinality(Marking) + InMark(p) - InMark(place[t])
  BY Moves
<1>2. /\ Cardinality(Counted) \in Nat /\ Cardinality(Marking) \in {0, 1}
      /\ active = 2 * Cardinality(Counted) + Cardinality(Marking)
  BY Parity DEF CountTrue, READER
<1>3. ~HasWriter => Cardinality(Marking) = 0
  BY Parity, FS_EmptySet
<1>4. InCount(p) \in {0, 1} /\ InCount(place[t]) \in {0, 1} /\ InMark(p) \in {0, 1} /\ InMark(place[t]) \in {0, 1}
  BY DEF InCount, InMark
<1>5. Cardinality(Marking') <= 1
  BY <1>1, <1>2, <1>3, <1>4
<1>6. active' = 2 * Cardinality(Counted') + Cardinality(Marking')
  BY <1>1, <1>2, <1>4
<1>. QED
  BY <1>5, <1>6 DEF CountTrue, READER

\* A step that moves nobody in or out of the count.
LEMMA CountStays ==
  ASSUME CountTrue, UNCHANGED <<active, place>>
  PROVE  CountTrue'
  BY DEF CountTrue, Counted, Marking

\* The last reader out, or the last to back out, finds one sleeper at most, and nobody about
\* to sleep: after its signal no writer sleeps.
LEMMA SignalClears ==
  ASSUME IsFiniteSet(Thread), IInv, mutex = NoThread, SignalWriter
  PROVE  /\ onWrite' = {}
         /\ \A w \in Thread : place[w] # "drain"
<1>1. \A w \in Thread : place[w] # "drain"
  BY DEF IInv, MutexInv, InMutex
<1>2. onWrite \subseteq Marking
  BY DEF IInv, OccTypeOK, SleepInv, Marking
<1>3. \A v, w \in onWrite : v = w
  BY <1>2, OneMarks DEF IInv
<1>4. onWrite' = {}
  BY <1>3 DEF SignalWriter
<1>. QED
  BY <1>1, <1>4
-----------------------------------------------------------------------------
(***************************************************************************)
(* Readers.                                                                *)
(***************************************************************************)
\* A thread that starts, or takes the mutex to look at the count, disturbs nobody.
LEMMA Strolls ==
  ASSUME IsFiniteSet(Thread), IInv, NEW t \in Thread, t \notin onRead, ~WillSignal(t),
         place[t] \in {"idle", "wait", "bounced", "rsleep", "wsleep", "rloop"},
         NEW p \in {"enter", "wait", "rloop", "wloop"}, Goes(t, p), MutexInv',
         mutex' \in Thread \union {NoThread}, UNCHANGED <<active, onRead, onWrite, seen>>
  PROVE  IInv'
<1>. USE DEF IInv
<1>1. p \in OccPC
  BY DEF OccPC
<1>2. /\ place' \in [Thread -> OccPC] /\ place'[t] = p
      /\ \A u \in Thread \ {t} : place'[u] = place[u]
  BY <1>1, Went
<1>3. OccTypeOK'
  BY <1>2 DEF OccTypeOK
<1>4. CountTrue'
  <2>. active' = active + 2 * (InCount(p) - InCount(place[t])) + (InMark(p) - InMark(place[t]))
    BY DEF InCount, InMark, OccTypeOK
  <2>. QED
    BY <1>1, CountKept DEF InMark
<1>5. SleepInv'
  BY <1>2 DEF SleepInv, HasWriter, OccTypeOK
<1>6. AloneInv'
  BY <1>2 DEF AloneInv, AloneSince
<1>7. SignalInv'
  BY <1>2 DEF SignalInv, Dozes, WillSignal
<1>. QED
  BY <1>3, <1>4, <1>5, <1>6, <1>7

\* Sleepers of the reader's side, and those with the mutex to come, are in no list.
LEMMA Awake ==
  ASSUME IInv, NEW t \in Thread, place[t] \notin {"rsleep", "wsleep"}
  PROVE  t \notin onRead
  BY DEF IInv, SleepInv

LEMMA BeginKeeps ==
  ASSUME IsFiniteSet(Thread), IInv, NEW t \in Thread, BeginRead(t) \/ BeginWrite(t)
  PROVE  IInv'
<1>1. MutexInv'
  BY DEF IInv, OccTypeOK, MutexInv, InMutex, BeginRead, BeginWrite, Goes
<1>2. mutex' \in Thread \union {NoThread}
  BY DEF IInv, OccTypeOK, BeginRead, BeginWrite
<1>3. place[t] = "idle" /\ t \notin onRead /\ ~WillSignal(t)
  BY Awake DEF BeginRead, BeginWrite, WillSignal
<1>. QED
  BY <1>1, <1>2, <1>3, Strolls DEF BeginRead, BeginWrite

\* Sleepers that wake, and a writer that comes for the mutex.
LEMMA LockKeeps ==
  ASSUME IsFiniteSet(Thread), IInv, NEW t \in Thread,
         ReaderWakes(t) \/ WriterWakes(t) \/ AcquireWrite(t)
  PROVE  IInv'
<1>1. /\ place[t] \in {"wait", "rsleep", "wsleep"} /\ Lock(t)
      /\ Goes(t, "rloop") \/ Goes(t, "wloop")
      /\ UNCHANGED <<active, onRead, onWrite, seen>>
  BY DEF ReaderWakes, WriterWakes, AcquireWrite, Wake
<1>2. t \notin onRead
  BY Awake DEF ReaderWakes, WriterWakes, AcquireWrite
<1>3. MutexInv' /\ mutex' \in Thread \union {NoThread}
  BY <1>1 DEF IInv, OccTypeOK, MutexInv, InMutex, Lock, Goes
<1>. QED
  BY <1>1, <1>2, <1>3, Strolls DEF WillSignal

LEMMA EnterKeeps ==
  ASSUME IsFiniteSet(Thread), IInv, NEW t \in Thread, Enter(t)
  PROVE  IInv'
<1>. USE DEF IInv
<1>. DEFINE p == IF HasWriter THEN "back" ELSE "reading"
<1>1. place[t] = "enter" /\ p \in OccPC /\ Goes(t, p)
  BY DEF Enter, OccPC
<1>. HIDE DEF p
<1>2. /\ place' \in [Thread -> OccPC] /\ place'[t] = p
      /\ \A u \in Thread \ {t} : place'[u] = place[u]
  BY <1>1, Went
<1>3. UNCHANGED <<mutex, onRead, onWrite>>
  BY DEF Enter
<1>4. /\ active' = active + 2 /\ active' \in Int
      /\ seen' \in [Thread -> Int] /\ \A u \in Thread \ {t} : seen'[u] = seen[u]
  BY Saw DEF Enter, READER
<1>5. p \in {"back", "reading"} /\ (p = "reading" => ~HasWriter)
  BY DEF p
<1>6. HasWriter' <=> HasWriter
  BY <1>4 DEF HasWriter, OccTypeOK
<1>7. OccTypeOK'
  BY <1>2, <1>3, <1>4 DEF OccTypeOK
<1>8. MutexInv'
  BY <1>1, <1>2, <1>3, <1>5 DEF MutexInv, InMutex
<1>9. CountTrue'
  <2>. active' = active + 2 * (InCount(p) - InCount(place[t])) + (InMark(p) - InMark(place[t]))
    BY <1>1, <1>4, <1>5 DEF InCount, InMark, OccTypeOK
  <2>. QED
    BY <1>1, <1>5, CountKept DEF InMark
<1>10. SleepInv'
  BY <1>1, <1>2, <1>3, <1>6 DEF SleepInv, OccTypeOK
<1>11. AloneInv'
  <2>1. \A w \in Thread : AloneSince(w)' => w \in Marking'
    BY DEF AloneSince, Marking
  <2>2. p = "reading" => \A w \in Thread : ~AloneSince(w)'
    BY <1>5, <1>6, <1>9, <2>1, ParityAfter
  <2>3. \A w \in Thread : AloneSince(w)' => AloneSince(w)
    BY <1>1, <1>2, <1>4, <1>5 DEF AloneSince
  <2>. QED
    BY <1>2, <2>2, <2>3 DEF AloneInv
<1>12. SignalInv'
  <2>. active' # WRITER
    <3>. active >= 0
      BY Parity DEF CountTrue, READER
    <3>. QED
      BY <1>4 DEF WRITER, OccTypeOK
  <2>. QED
    BY DEF SignalInv
<1>. QED
  BY <1>7, <1>8, <1>9, <1>10, <1>11, <1>12

LEMMA BackOutKeeps ==
  ASSUME IsFiniteSet(Thread), IInv, NEW t \in Thread,
         BackOut(t) \/ ReleaseRead(t)
  PROVE  IInv'
<1>. USE DEF IInv
<1>. DEFINE p == IF place[t] = "back" THEN "bounced" ELSE IF active' = WRITER THEN "left" ELSE "idle"
<1>1. place[t] \in {"back", "reading"} /\ p \in OccPC /\ Goes(t, p)
  BY DEF BackOut, ReleaseRead, OccPC
<1>2. p \in {"bounced", "left", "idle"} /\ (p = "idle" => active' # WRITER)
  BY <1>1 DEF BackOut, ReleaseRead
<1>. HIDE DEF p
<1>3. /\ place' \in [Thread -> OccPC] /\ place'[t] = p
      /\ \A u \in Thread \ {t} : place'[u] = place[u]
  BY <1>1, Went
<1>4. UNCHANGED <<mutex, onRead, onWrite>>
  BY DEF BackOut, ReleaseRead
<1>5. /\ active' = active - 2 /\ active' \in Int
      /\ seen' \in [Thread -> Int] /\ seen'[t] = active'
      /\ \A u \in Thread \ {t} : seen'[u] = seen[u]
  BY Saw DEF BackOut, ReleaseRead, READER, OccTypeOK
<1>6. HasWriter' <=> HasWriter
  BY <1>5 DEF HasWriter, OccTypeOK
<1>7. OccTypeOK'
  BY <1>3, <1>4, <1>5 DEF OccTypeOK
<1>8. MutexInv'
  BY <1>1, <1>2, <1>3, <1>4 DEF MutexInv, InMutex
<1>9. CountTrue'
  <2>. active' = active + 2 * (InCount(p) - InCount(place[t])) + (InMark(p) - InMark(place[t]))
    BY <1>1, <1>2, <1>5 DEF InCount, InMark, OccTypeOK
  <2>. QED
    BY <1>1, <1>2, CountKept DEF InMark
<1>10. SleepInv'
  BY <1>1, <1>3, <1>4, <1>6 DEF SleepInv, OccTypeOK
<1>11. AloneInv'
  <2>. \A w \in Thread : AloneSince(w)' => AloneSince(w)
    BY <1>1, <1>2, <1>3, <1>5 DEF AloneSince
  <2>. QED
    BY <1>2, <1>3 DEF AloneInv
<1>12. SignalInv'
  BY <1>2, <1>3, <1>5 DEF SignalInv, WillSignal
<1>. QED
  BY <1>7, <1>8, <1>9, <1>10, <1>11, <1>12

\* The two that wake the writer.  The guard of the signal is the promise of SignalInv kept.
LEMMA SignalKeeps ==
  ASSUME IsFiniteSet(Thread), IInv, NEW t \in Thread,
         NEW p \in {"rloop", "idle"}, place[t] \in {"bounced", "left"}, Goes(t, p),
         mutex = NoThread, mutex' = IF p = "rloop" THEN t ELSE mutex, SignalWriter,
         UNCHANGED <<active, onRead, seen>>
  PROVE  IInv'
<1>. USE DEF IInv
<1>1. onWrite' = {} /\ \A w \in Thread : place[w] # "drain"
  BY SignalClears
<1>2. p \in OccPC
  BY DEF OccPC
<1>3. /\ place' \in [Thread -> OccPC] /\ place'[t] = p
      /\ \A u \in Thread \ {t} : place'[u] = place[u]
  BY <1>2, Went
<1>4. OccTypeOK'
  BY <1>1, <1>3 DEF OccTypeOK
<1>5. MutexInv'
  BY <1>3 DEF MutexInv, InMutex
<1>6. CountTrue'
  <2>. active' = active + 2 * (InCount(p) - InCount(place[t])) + (InMark(p) - InMark(place[t]))
    BY DEF InCount, InMark, OccTypeOK
  <2>. QED
    BY <1>2, CountKept DEF InMark
<1>7. SleepInv'
  BY <1>1, <1>3 DEF SleepInv, HasWriter, OccTypeOK
<1>8. AloneInv'
  BY <1>3 DEF AloneInv, AloneSince
<1>9. SignalInv'
  BY <1>1, <1>3 DEF SignalInv, Dozes
<1>. QED
  BY <1>4, <1>5, <1>6, <1>7, <1>8, <1>9

LEMMA BouncedKeeps ==
  ASSUME IsFiniteSet(Thread), IInv, NEW t \in Thread, Bounced(t)
  PROVE  IInv'
<1>1. /\ place[t] = "bounced" /\ Lock(t) /\ Goes(t, "rloop")
      /\ UNCHANGED <<active, onRead, seen>> /\ t \notin onRead
  BY Awake DEF Bounced
<1>2. CASE seen[t] = WRITER
  BY <1>1, <1>2, SignalKeeps DEF Bounced, Lock
<1>3. CASE seen[t] # WRITER
  <2>. MutexInv' /\ mutex' \in Thread \union {NoThread}
    BY <1>1 DEF IInv, OccTypeOK, MutexInv, InMutex, Lock, Goes
  <2>. QED
    BY <1>1, <1>3, Strolls DEF WillSignal, Bounced
<1>. QED
  BY <1>2, <1>3

LEMMA LeftKeeps ==
  ASSUME IsFiniteSet(Thread), IInv, NEW t \in Thread, Left(t)
  PROVE  IInv'
  BY SignalKeeps DEF Left

\* A look at the count that ends in a sleep on _read_cond, a reader's or a writer's.
LEMMA SleepKeeps ==
  ASSUME IsFiniteSet(Thread), IInv, NEW t \in Thread,
         place[t] \in {"rloop", "wloop"}, NEW p \in {"rsleep", "wsleep"}, Goes(t, p), Unlock(t),
         HasWriter, onRead' = onRead \union {t}, UNCHANGED <<active, onWrite, seen>>
  PROVE  IInv'
<1>. USE DEF IInv
<1>1. p \in OccPC
  BY DEF OccPC
<1>2. /\ place' \in [Thread -> OccPC] /\ place'[t] = p
      /\ \A u \in Thread \ {t} : place'[u] = place[u]
  BY <1>1, Went
<1>3. OccTypeOK'
  BY <1>2 DEF OccTypeOK, Unlock
<1>4. MutexInv'
  BY <1>2 DEF MutexInv, InMutex, Unlock
<1>5. CountTrue'
  <2>. active' = active + 2 * (InCount(p) - InCount(place[t])) + (InMark(p) - InMark(place[t]))
    BY DEF InCount, InMark, OccTypeOK
  <2>. QED
    BY <1>1, CountKept DEF InMark
<1>6. SleepInv'
  BY <1>2 DEF SleepInv, HasWriter, OccTypeOK
<1>7. AloneInv'
  BY <1>2 DEF AloneInv, AloneSince
<1>8. SignalInv'
  BY <1>2 DEF SignalInv, Dozes, WillSignal
<1>. QED
  BY <1>3, <1>4, <1>5, <1>6, <1>7, <1>8

LEMMA ReaderLoopKeeps ==
  ASSUME IsFiniteSet(Thread), IInv, NEW t \in Thread, ReaderLoop(t)
  PROVE  IInv'
<1>1. place[t] = "rloop" /\ Unlock(t) /\ UNCHANGED <<active, onWrite, seen>> /\ t \notin onRead
  BY Awake DEF ReaderLoop
<1>2. CASE HasWriter
  BY <1>1, <1>2, SleepKeeps DEF ReaderLoop
<1>3. CASE ~HasWriter
  <2>. MutexInv' /\ mutex' \in Thread \union {NoThread} /\ Goes(t, "enter") /\ UNCHANGED onRead
    BY <1>1, <1>3 DEF IInv, OccTypeOK, MutexInv, InMutex, Unlock, Goes, ReaderLoop
  <2>. QED
    BY <1>1, Strolls DEF WillSignal
<1>. QED
  BY <1>2, <1>3
-----------------------------------------------------------------------------
(***************************************************************************)
(* Writers.                                                                *)
(***************************************************************************)
\* The writer sets its bit: nobody else has it, and if the count is the bit alone nobody reads.
LEMMA SetBitKeeps ==
  ASSUME IsFiniteSet(Thread), IInv, NEW t \in Thread,
         WriterLoop(t), ~HasWriter
  PROVE  IInv'
<1>. USE DEF IInv
<1>1. place[t] = "wloop" /\ "drain" \in OccPC /\ Goes(t, "drain") /\ UNCHANGED <<mutex, onRead, onWrite>>
  BY DEF WriterLoop, OccPC
<1>2. /\ place' \in [Thread -> OccPC] /\ place'[t] = "drain"
      /\ \A u \in Thread \ {t} : place'[u] = place[u]
  BY <1>1, Went
<1>3. /\ active' = active + 1 /\ active' \in Int
      /\ seen' \in [Thread -> Int] /\ seen'[t] = active'
      /\ \A u \in Thread \ {t} : seen'[u] = seen[u]
  BY Saw DEF WriterLoop, WRITER
<1>4. OccTypeOK'
  BY <1>1, <1>2, <1>3 DEF OccTypeOK
<1>5. MutexInv'
  BY <1>1, <1>2 DEF MutexInv, InMutex
<1>6. CountTrue'
  <2>. active' = active + 2 * (InCount("drain") - InCount(place[t])) + (InMark("drain") - InMark(place[t]))
    BY <1>1, <1>3 DEF InCount, InMark, OccTypeOK
  <2>. QED
    BY <1>1, CountKept
<1>7. t \in Marking' /\ \A w \in Thread : w \in Marking' => w = t
  <2>. Marking = {}
    BY Parity
  <2>. QED
    BY <1>2 DEF Marking
<1>8. SleepInv'
  BY <1>1, <1>2, <1>6, <1>7, ParityAfter DEF SleepInv, OccTypeOK
<1>9. AloneInv'
  <2>. \A w \in Thread : AloneSince(w)' => active' = WRITER
    BY <1>2, <1>3, <1>7 DEF AloneSince, Marking
  <2>. \A u \in Thread : place'[u] = "reading" => u \in Counted'
    BY DEF Counted
  <2>. QED
    BY <1>6, ParityAfter DEF AloneInv
<1>10. SignalInv'
  <2>. \A w \in Thread : Dozes(w)' => w = t
    BY <1>7 DEF Dozes, Marking
  <2>. QED
    BY <1>2, <1>3 DEF SignalInv, Dozes
<1>. QED
  BY <1>4, <1>5, <1>6, <1>8, <1>9, <1>10

LEMMA WriterLoopKeeps ==
  ASSUME IsFiniteSet(Thread), IInv, NEW t \in Thread, WriterLoop(t)
  PROVE  IInv'
<1>1. CASE HasWriter
  BY <1>1, SleepKeeps DEF WriterLoop
<1>. QED
  BY <1>1, SetBitKeeps

LEMMA DrainKeeps ==
  ASSUME IsFiniteSet(Thread), IInv, NEW t \in Thread, Drain(t)
  PROVE  IInv'
<1>. USE DEF IInv
<1>. DEFINE p == IF seen[t] # WRITER THEN "dsleep" ELSE "writing"
<1>1. place[t] = "drain" /\ p \in OccPC /\ Goes(t, p) /\ Unlock(t) /\ UNCHANGED <<active, onRead, seen>>
  BY DEF Drain, OccPC
<1>2. p \in {"dsleep", "writing"} /\ (p = "dsleep" <=> seen[t] # WRITER)
  OBVIOUS
<1>3. onWrite' = IF p = "dsleep" THEN onWrite \union {t} ELSE onWrite
  BY DEF Drain
<1>. HIDE DEF p
<1>4. /\ place' \in [Thread -> OccPC] /\ place'[t] = p
      /\ \A u \in Thread \ {t} : place'[u] = place[u]
  BY <1>1, Went
<1>5. OccTypeOK'
  BY <1>1, <1>3, <1>4 DEF OccTypeOK, Unlock
<1>6. MutexInv'
  BY <1>1, <1>2, <1>4 DEF MutexInv, InMutex, Unlock
<1>7. CountTrue'
  <2>. active' = active + 2 * (InCount(p) - InCount(place[t])) + (InMark(p) - InMark(place[t]))
    BY <1>1, <1>2 DEF InCount, InMark, OccTypeOK
  <2>. QED
    BY <1>1, CountKept DEF InMark
<1>8. SleepInv'
  BY <1>1, <1>2, <1>3, <1>4 DEF SleepInv, HasWriter, OccTypeOK
<1>9. AloneInv'
  BY <1>1, <1>2, <1>4 DEF AloneInv, AloneSince
<1>10. SignalInv'
  <2>1. \A w \in Thread : Dozes(w)' => Dozes(w)
    BY <1>1, <1>2, <1>3, <1>4 DEF Dozes
  <2>2. \A u \in Thread : WillSignal(u) => WillSignal(u)'
    BY <1>1, <1>4 DEF WillSignal
  <2>. QED
    BY <1>1, <2>1, <2>2 DEF SignalInv
<1>. QED
  BY <1>5, <1>6, <1>7, <1>8, <1>9, <1>10

\* The writer that wakes looks at the count again, and trusts what it sees now.
LEMMA DrainWakesKeeps ==
  ASSUME IsFiniteSet(Thread), IInv, NEW t \in Thread, DrainWakes(t)
  PROVE  IInv'
<1>. USE DEF IInv
<1>1. /\ place[t] = "dsleep" /\ "drain" \in OccPC /\ Goes(t, "drain") /\ Lock(t)
      /\ t \notin onWrite /\ UNCHANGED <<active, onRead, onWrite>>
  BY DEF DrainWakes, OccPC
<1>2. /\ place' \in [Thread -> OccPC] /\ place'[t] = "drain"
      /\ \A u \in Thread \ {t} : place'[u] = place[u]
  BY <1>1, Went
<1>3. /\ seen' \in [Thread -> Int] /\ seen'[t] = active
      /\ \A u \in Thread \ {t} : seen'[u] = seen[u]
  BY DEF DrainWakes, OccTypeOK
<1>4. OccTypeOK'
  BY <1>1, <1>2, <1>3 DEF OccTypeOK, Lock
<1>5. MutexInv'
  BY <1>1, <1>2 DEF MutexInv, InMutex, Lock
<1>6. CountTrue'
  <2>. active' = active + 2 * (InCount("drain") - InCount(place[t])) + (InMark("drain") - InMark(place[t]))
    BY <1>1 DEF InCount, InMark, OccTypeOK
  <2>. QED
    BY <1>1, CountKept DEF InMark
<1>7. SleepInv'
  BY <1>1, <1>2 DEF SleepInv, HasWriter, OccTypeOK
<1>8. AloneInv'
  <2>1. \A w \in Thread : AloneSince(w)' => AloneSince(w) \/ active = WRITER
    BY <1>1, <1>2, <1>3 DEF AloneSince
  <2>2. active = WRITER => \A u \in Thread : place[u] # "reading"
    BY Parity DEF Counted
  <2>3. \A u \in Thread : place'[u] = "reading" => place[u] = "reading"
    BY <1>2
  <2>. QED
    BY <2>1, <2>2, <2>3 DEF AloneInv
<1>9. SignalInv'
  <2>1. \A w \in Thread : Dozes(w)' => Dozes(w) \/ active # WRITER
    BY <1>1, <1>2, <1>3 DEF Dozes
  <2>2. \A u \in Thread : WillSignal(u) => WillSignal(u)'
    BY <1>1, <1>2, <1>3 DEF WillSignal
  <2>. QED
    BY <1>1, <2>1, <2>2 DEF SignalInv
<1>. QED
  BY <1>4, <1>5, <1>6, <1>7, <1>8, <1>9

LEMMA ReleaseWriteKeeps ==
  ASSUME IsFiniteSet(Thread), IInv, NEW t \in Thread, ReleaseWrite(t)
  PROVE  IInv'
<1>. USE DEF IInv
<1>1. /\ place[t] = "writing" /\ "idle" \in OccPC /\ Goes(t, "idle") /\ active' = active - 1
      /\ onRead' = {} /\ UNCHANGED <<mutex, onWrite, seen>>
  BY DEF ReleaseWrite, OccPC, WRITER
<1>2. /\ place' \in [Thread -> OccPC] /\ place'[t] = "idle"
      /\ \A u \in Thread \ {t} : place'[u] = place[u]
  BY <1>1, Went
<1>3. OccTypeOK'
  BY <1>1, <1>2 DEF OccTypeOK
<1>4. MutexInv'
  BY <1>1, <1>2 DEF MutexInv, InMutex
<1>5. CountTrue'
  <2>. active' = active + 2 * (InCount("idle") - InCount(place[t])) + (InMark("idle") - InMark(place[t]))
    BY <1>1 DEF InCount, InMark, OccTypeOK
  <2>. QED
    BY <1>1, CountKept DEF InMark
<1>6. Marking' = {}
  <2>. t \in Marking /\ \A w \in Marking : w = t
    BY <1>1, OneMarks DEF Marking
  <2>. QED
    BY <1>2 DEF Marking
<1>7. SleepInv'
  BY <1>1, <1>2 DEF SleepInv, OccTypeOK
<1>8. AloneInv'
  BY <1>6 DEF AloneInv, AloneSince, Marking
<1>9. SignalInv'
  BY <1>6 DEF SignalInv, Dozes, Marking
<1>. QED
  BY <1>3, <1>4, <1>5, <1>7, <1>8, <1>9

LEMMA SpuriousKeeps ==
  ASSUME IInv, NEW t \in Thread, Spurious(t)
  PROVE  IInv'
<1>. USE DEF IInv
<1>1. onRead' \subseteq onRead /\ onWrite' \subseteq onWrite /\ UNCHANGED <<active, mutex, place, seen>>
  BY DEF Spurious
<1>2. OccTypeOK' /\ MutexInv' /\ AloneInv'
  BY <1>1 DEF OccTypeOK, MutexInv, InMutex, AloneInv, AloneSince
<1>3. CountTrue'
  BY <1>1, CountStays
<1>4. SleepInv'
  BY <1>1 DEF SleepInv, HasWriter
<1>5. SignalInv'
  BY <1>1 DEF SignalInv, Dozes, WillSignal
<1>. QED
  BY <1>2, <1>3, <1>4, <1>5
-----------------------------------------------------------------------------
LEMMA OccStep ==
  ASSUME IsFiniteSet(Thread), IInv, [OccNext]_occVars
  PROVE  IInv'
<1>1. ASSUME NEW t \in Thread, BeginRead(t) \/ BeginWrite(t) \/ OccProgress(t) \/ Spurious(t)
      PROVE  IInv'
  BY <1>1, BeginKeeps, EnterKeeps, BackOutKeeps, BouncedKeeps, ReaderLoopKeeps, LockKeeps,
     LeftKeeps, WriterLoopKeeps, DrainKeeps, DrainWakesKeeps, ReleaseWriteKeeps, SpuriousKeeps
     DEF OccProgress
<1>2. CASE UNCHANGED occVars
  <2>. UNCHANGED <<active, mutex, onRead, onWrite, place, seen>>
    BY <1>2 DEF occVars
  <2>. USE DEF IInv
  <2>1. OccTypeOK' /\ MutexInv' /\ SleepInv' /\ AloneInv' /\ SignalInv'
    BY DEF OccTypeOK, MutexInv, InMutex, SleepInv, HasWriter, AloneInv, AloneSince, SignalInv,
           Dozes, WillSignal
  <2>2. CountTrue'
    BY CountStays
  <2>. QED
    BY <2>1, <2>2
<1>. QED
  BY <1>1, <1>2 DEF OccNext

\* What the invariant says of the lock's users.
LEMMA OccSafe ==
  ASSUME IsFiniteSet(Thread), IInv
  PROVE  WriterAlone
<1>1. OccExclusion
  <2>. SUFFICES ASSUME NEW w \in Thread, NEW t \in Thread, place[w] = "writing", t # w
                PROVE  place[t] \notin {"reading", "writing"}
    BY DEF OccExclusion
  <2>1. place[t] # "reading"
    BY DEF IInv, AloneInv, AloneSince
  <2>2. place[t] # "writing"
    BY OneMarks DEF IInv, Marking
  <2>. QED
    BY <2>1, <2>2
<1>2. WakeupComing
  BY DEF WakeupComing, IInv, OccTypeOK, SleepInv, SignalInv, Dozes, WillSignal
<1>. QED
  BY <1>1, <1>2 DEF IInv, WriterAlone

\* For any number of threads: a writer is alone, the count is true, and a sleeping writer that
\* nobody stands in the way of has its signal on the way.
THEOREM OccWriterAlone ==
  ASSUME IsFiniteSet(Thread)
  PROVE  OccSpec => []WriterAlone
<1>1. OccInit => IInv
  BY OccStarts
<1>2. IInv /\ [OccNext]_occVars => IInv'
  BY OccStep
<1>3. IInv => WriterAlone
  BY OccSafe
<1>. QED
  BY <1>1, <1>2, <1>3, PTL DEF OccSpec
=============================================================================
