---------------------------- MODULE LatchProofs ----------------------------
(***************************************************************************)
(* A latch is a reader-writer lock, and a thread's record of it is true,   *)
(* for any number of threads.  First the lock under it, then the record.   *)
(***************************************************************************)
EXTENDS Latch, FiniteSetTheorems, TLAPS

Readers == {t \in Thread : held[t] = "SH"}
Writers == {t \in Thread : where[t] = "drain" \/ held[t] = "EX"}

\* The word tells the readers and the one writer, who has the lock or waits for readers to go.
WordInv ==
  /\ holders = READER * Cardinality(Readers) + Cardinality(Writers)
  /\ Cardinality(Writers) <= 1
  /\ Readers # {} => \A t \in Thread : held[t] # "EX"

\* The parent lock's owner.
HeadInv ==
  \A t \in Thread :
    where[t] \in {"add", "drain", "swap", "exit"} => queue # <<>> /\ Head(queue) = t

\* What a thread has while it is on its way, and what it saw of the word.
OnWay(t) ==
  /\ where[t] \in {"cas", "join", "line", "add", "drain"} => held[t] = "NL"
  /\ where[t] = "cas" => op[t].mode = "SH" /\ op[t].old % 2 = 0
  /\ where[t] = "drain" => op[t].mode = "EX"
  /\ where[t] \in {"try", "swap"} => held[t] # "EX" /\ op[t].mode = "EX" /\ op[t].old = Expected(t)
  /\ where[t] = "add" => ~HasWriter

RwInv == TypeOK /\ WordInv /\ HeadInv /\ \A t \in Thread : OnWay(t)

-----------------------------------------------------------------------------
(***************************************************************************)
(* The word.                                                               *)
(***************************************************************************)
LEMMA Subsets ==
  ASSUME IsFiniteSet(Thread), NEW S \in SUBSET Thread
  PROVE  IsFiniteSet(S) /\ Cardinality(S) \in Nat /\ (Cardinality(S) = 0 <=> S = {})
  BY FS_Subset, FS_CardinalityType, FS_EmptySet

\* Two different elements are more than one.
LEMMA AtMostOne ==
  ASSUME IsFiniteSet(Thread), NEW S \in SUBSET Thread, Cardinality(S) <= 1,
         NEW s \in S, NEW t \in S
  PROVE  s = t
<1>1. Cardinality(S \ {s}) = Cardinality(S) - 1 /\ IsFiniteSet(S \ {s})
  BY Subsets, FS_RemoveElement
<1>2. Cardinality(S \ {s}) = 0
  BY <1>1, Subsets
<1>. QED
  BY <1>1, <1>2, FS_EmptySet

\* The word, for any readers R and writers W that it tells.
LEMMA WordOf ==
  ASSUME IsFiniteSet(Thread), NEW R \in SUBSET Thread, NEW W \in SUBSET Thread, NEW n,
         n = 2 * Cardinality(R) + Cardinality(W), Cardinality(W) <= 1
  PROVE  /\ n \in Nat
         /\ n % 2 = 1 <=> W # {}
         /\ n \div 2 > 0 <=> R # {}
         /\ n = 0 <=> R = {} /\ W = {}
         /\ n = 1 <=> R = {} /\ W # {}
         /\ n > 0 <=> R # {} \/ W # {}
<1>. DEFINE r == Cardinality(R)
            w == Cardinality(W)
<1>1. r \in Nat /\ w \in {0, 1} /\ (r = 0 <=> R = {}) /\ (w = 0 <=> W = {})
  BY Subsets
<1>2. n = 2 * r + w
  OBVIOUS
<1>. HIDE DEF r, w
<1>3. CASE w = 0
  <2>1. n = 2 * r
    BY <1>1, <1>2, <1>3
  <2>2. n % 2 = 0 /\ n \div 2 = r /\ n # 1 /\ (n = 0 <=> r = 0) /\ n \in Nat /\ (n > 0 <=> r # 0)
    BY <1>1, <2>1
  <2>. QED
    BY <1>1, <1>3, <2>2
<1>4. CASE w = 1
  <2>1. n = 2 * r + 1
    BY <1>1, <1>2, <1>4
  <2>2. n % 2 = 1 /\ n \div 2 = r /\ (n = 1 <=> r = 0) /\ n # 0 /\ n \in Nat /\ n > 0
    BY <1>1, <2>1
  <2>. QED
    BY <1>1, <1>4, <2>2
<1>. QED
  BY <1>1, <1>3, <1>4

\* What the invariant says of the word.
LEMMA Word ==
  ASSUME IsFiniteSet(Thread), RwInv
  PROVE  /\ HasWriter <=> Writers # {}
         /\ HasReader <=> Readers # {}
         /\ holders = 0 <=> Readers = {} /\ Writers = {}
         /\ holders = 1 <=> Readers = {} /\ Writers # {}
         /\ holders > 0 <=> Readers # {} \/ Writers # {}
         /\ \A v, w \in Writers : v = w
<1>1. Readers \in SUBSET Thread /\ Writers \in SUBSET Thread
  BY DEF Readers, Writers
<1>2. holders = 2 * Cardinality(Readers) + Cardinality(Writers) /\ Cardinality(Writers) <= 1
  BY DEF RwInv, WordInv, READER
<1>3. \A v, w \in Writers : v = w
  BY <1>1, <1>2, AtMostOne
<1>. QED
  BY <1>1, <1>2, <1>3, WordOf DEF HasWriter, HasReader

LEMMA OneMoves ==
  ASSUME NEW S, IsFiniteSet(S), NEW S2, NEW t,
         \/ t \in S /\ S2 = S \ {t}
         \/ t \notin S /\ S2 = S \union {t}
         \/ S2 = S
  PROVE  Cardinality(S2) = Cardinality(S)
           + (IF t \in S2 /\ t \notin S THEN 1 ELSE 0) - (IF t \in S /\ t \notin S2 THEN 1 ELSE 0)
<1>1. Cardinality(S) \in Nat
  BY FS_CardinalityType
<1>2. CASE t \in S /\ S2 = S \ {t}
  BY <1>1, <1>2, FS_RemoveElement
<1>3. CASE t \notin S /\ S2 = S \union {t}
  BY <1>1, <1>3, FS_AddElement
<1>4. CASE S2 = S
  BY <1>1, <1>4
<1>. QED
  BY <1>2, <1>3, <1>4

LEMMA Elsewhere ==
  ASSUME NEW S \in SUBSET Thread, NEW S2 \in SUBSET Thread, NEW t \in Thread,
         \A u \in Thread \ {t} : u \in S2 <=> u \in S
  PROVE  \/ t \in S /\ S2 = S \ {t}
         \/ t \notin S /\ S2 = S \union {t}
         \/ S2 = S
<1>1. CASE t \in S /\ t \notin S2
  <2>. S2 = S \ {t}
    BY <1>1
  <2>. QED
    BY <1>1
<1>2. CASE t \notin S /\ t \in S2
  <2>. S2 = S \union {t}
    BY <1>2
  <2>. QED
    BY <1>2
<1>3. CASE t \in S <=> t \in S2
  <2>1. \A u \in Thread : u \in S2 <=> u \in S
    BY <1>3
  <2>. QED
    BY <2>1
<1>. QED
  BY <1>1, <1>2, <1>3

\* A step of one thread, whose share of the word changes with it.
Share(S, t) == IF t \in S THEN 1 ELSE 0

LEMMA OneCounts ==
  ASSUME IsFiniteSet(Thread), NEW S \in SUBSET Thread, NEW S2 \in SUBSET Thread, NEW t \in Thread,
         \A u \in Thread \ {t} : u \in S2 <=> u \in S
  PROVE  Cardinality(S2) = Cardinality(S) + Share(S2, t) - Share(S, t)
<1>1. Cardinality(S) \in Nat /\ IsFiniteSet(S)
  BY Subsets
<1>2. \/ t \in S /\ S2 = S \ {t}
      \/ t \notin S /\ S2 = S \union {t}
      \/ S2 = S
  BY Elsewhere, Zenon
<1>3. Cardinality(S2) = Cardinality(S)
           + (IF t \in S2 /\ t \notin S THEN 1 ELSE 0) - (IF t \in S /\ t \notin S2 THEN 1 ELSE 0)
  BY <1>1, <1>2, OneMoves, Zenon
<1>. QED
  BY <1>1, <1>3 DEF Share

\* The word is kept by a step that adds to it what its thread's share in it changes by.
LEMMA WordKept ==
  ASSUME IsFiniteSet(Thread), RwInv, NEW t \in Thread,
         where' \in [Thread -> RwPC], held' \in [Thread -> Lock!Mode],
         \A u \in Thread \ {t} : where'[u] = where[u] /\ held'[u] = held[u],
         holders' = holders + 2 * (Share(Readers', t) - Share(Readers, t))
                            + (Share(Writers', t) - Share(Writers, t)),
         t \in Writers' => t \in Writers \/ Writers = {}
  PROVE  /\ holders' = 2 * Cardinality(Readers') + Cardinality(Writers')
         /\ Cardinality(Writers') <= 1
<1>. DEFINE R == Readers
            R2 == Readers'
            W == Writers
            W2 == Writers'
<1>1. R \in SUBSET Thread /\ W \in SUBSET Thread /\ R2 \in SUBSET Thread /\ W2 \in SUBSET Thread
  BY DEF Readers, Writers
<1>2. \A u \in Thread \ {t} : (u \in R2 <=> u \in R) /\ (u \in W2 <=> u \in W)
  BY DEF Readers, Writers
<1>3. holders = 2 * Cardinality(R) + Cardinality(W) /\ Cardinality(W) <= 1
  BY DEF RwInv, WordInv, READER
<1>. HIDE DEF R, R2, W, W2
<1>4. /\ Cardinality(R2) = Cardinality(R) + Share(R2, t) - Share(R, t)
      /\ Cardinality(W2) = Cardinality(W) + Share(W2, t) - Share(W, t)
  BY <1>1, <1>2, OneCounts
<1>5. Cardinality(R) \in Nat /\ Cardinality(W) \in Nat /\ (W = {} => Cardinality(W) = 0)
  BY <1>1, Subsets
<1>6. Share(R, t) \in {0, 1} /\ Share(R2, t) \in {0, 1} /\ Share(W, t) \in {0, 1} /\ Share(W2, t) \in {0, 1}
  BY DEF Share
<1>7. holders' = holders + 2 * (Share(R2, t) - Share(R, t)) + (Share(W2, t) - Share(W, t))
  BY DEF R, R2, W, W2
<1>8. Share(W2, t) = 1 => Share(W, t) = 1 \/ Cardinality(W) = 0
  BY <1>5 DEF Share, W, W2
<1>9. Cardinality(W2) <= 1
  BY <1>3, <1>4, <1>5, <1>6, <1>8
<1>10. holders' = 2 * Cardinality(R2) + Cardinality(W2)
  BY <1>3, <1>4, <1>5, <1>6, <1>7
<1>. QED
  BY <1>9, <1>10 DEF R2, W2

-----------------------------------------------------------------------------
(***************************************************************************)
(* Every step of the lock keeps the invariant.                             *)
(***************************************************************************)
\* What is left to show of a step of thread t.
Alters(t) ==
  /\ where' \in [Thread -> RwPC] /\ held' \in [Thread -> Lock!Mode] /\ op' \in [Thread -> Op]
  /\ \A u \in Thread \ {t} : where'[u] = where[u] /\ held'[u] = held[u] /\ op'[u] = op[u]

\* The change of the word is what the thread's move is worth.
Weighs(t) ==
  /\ holders' = holders + 2 * (Share(Readers', t) - Share(Readers, t))
                        + (Share(Writers', t) - Share(Writers, t))
  /\ t \in Writers' => t \in Writers \/ Writers = {}

LEMMA StepKeeps ==
  ASSUME IsFiniteSet(Thread), RwInv, NEW t \in Thread, Alters(t), Weighs(t),
         queue' \in Seq(Thread), HeadInv', OnWay(t)',
         Readers' # {} => \A u \in Thread : held'[u] # "EX",
         \A u \in Thread \ {t} : where[u] = "add" => ~HasWriter'
  PROVE  RwInv'
<1>1. holders' = 2 * Cardinality(Readers') + Cardinality(Writers') /\ Cardinality(Writers') <= 1
  BY WordKept DEF Alters, Weighs
<1>2. holders' \in Nat
  <2>. Readers' \in SUBSET Thread /\ Writers' \in SUBSET Thread
    BY DEF Readers, Writers
  <2>. QED
    BY <1>1, WordOf
<1>3. TypeOK' /\ WordInv'
  BY <1>1, <1>2 DEF TypeOK, WordInv, Alters, READER
<1>4. ASSUME NEW u \in Thread \ {t} PROVE OnWay(u)'
  <2>1. OnWay(u)
    BY DEF RwInv
  <2>2. where'[u] = where[u] /\ held'[u] = held[u] /\ op'[u] = op[u]
    BY DEF Alters
  <2>3. where[u] = "add" => ~HasWriter'
    OBVIOUS
  <2>. QED
    BY <2>1, <2>2, <2>3 DEF OnWay, Expected
<1>. QED
  BY <1>3, <1>4 DEF RwInv

\* A step that leaves the queue alone, by a thread that does not come to its head.
LEMMA HeadStays ==
  ASSUME RwInv, NEW t \in Thread, Alters(t), queue' = queue,
         where'[t] \in {"add", "drain", "swap", "exit"} =>
           where[t] \in {"add", "drain", "swap", "exit"} \/ (queue # <<>> /\ Head(queue) = t)
  PROVE  HeadInv'
  BY DEF RwInv, HeadInv, Alters

\* A step that leaves the word and what is held alone.
LEMMA WordStays ==
  ASSUME IsFiniteSet(Thread), RwInv, NEW t \in Thread, Alters(t), holders' = holders, held' = held,
         where[t] # "drain", where'[t] # "drain", queue' \in Seq(Thread), HeadInv', OnWay(t)'
  PROVE  RwInv'
<1>1. Weighs(t)
  <2>1. (t \in Readers' <=> t \in Readers) /\ (t \in Writers' <=> t \in Writers)
    BY DEF Readers, Writers
  <2>2. holders \in Nat
    BY DEF RwInv, TypeOK
  <2>. QED
    BY <2>1, <2>2 DEF Weighs, Share
<1>2. Readers' # {} => \A u \in Thread : held'[u] # "EX"
  BY DEF RwInv, WordInv, Readers
<1>3. \A u \in Thread \ {t} : where[u] = "add" => ~HasWriter'
  BY DEF RwInv, OnWay, HasWriter
<1>. QED
  BY <1>1, <1>2, <1>3, StepKeeps

\* A call that begins.
LEMMA Calls ==
  ASSUME TypeOK, NEW t \in Thread, NEW m \in {"SH", "EX"}, NEW w \in BOOLEAN, NEW v \in Nat,
         NEW p \in RwPC, Asks(t, m, w, v), Goes(t, p) \/ (where[t] = p /\ UNCHANGED where), held' = held
  PROVE  /\ Alters(t) /\ where'[t] = p
         /\ op'[t].mode = m /\ op'[t].wait = w /\ op'[t].old = v
<1>1. op' \in [Thread -> Op] /\ op'[t] = [mode |-> m, wait |-> w, old |-> v]
  BY DEF TypeOK, Asks, Op
<1>2. \A u \in Thread \ {t} : op'[u] = op[u]
  BY DEF TypeOK, Asks
<1>3. where' \in [Thread -> RwPC] /\ where'[t] = p /\ \A u \in Thread \ {t} : where'[u] = where[u]
  BY DEF TypeOK, Goes
<1>. QED
  BY <1>1, <1>2, <1>3 DEF Alters, TypeOK

LEMMA BeginKeeps ==
  ASSUME IsFiniteSet(Thread), RwInv, NEW t \in Thread,
         BeginWrite(t) \/ BeginTry(t) \/ \E w \in BOOLEAN : BeginRead(t, w)
  PROVE  RwInv'
<1>. SUFFICES ASSUME holders' = holders, held' = held, queue' = queue, where[t] = "idle",
                     Alters(t), where'[t] \in {"idle", "cas", "join", "try"}, OnWay(t)'
              PROVE  RwInv'
  <2>1. holders' = holders /\ held' = held /\ queue' = queue /\ where[t] = "idle"
    BY DEF BeginWrite, BeginTry, BeginRead
  <2>2. CASE BeginWrite(t)
    <3>1. Alters(t) /\ where'[t] = "join"
      BY <2>1, <2>2, Calls DEF BeginWrite, RwPC, RwInv
    <3>. QED
      BY <2>1, <2>2, <3>1 DEF OnWay, BeginWrite
  <2>3. CASE BeginTry(t)
    <3>1. Expected(t) \in Nat /\ held[t] # "EX"
      BY <2>3 DEF Expected, READER, BeginTry
    <3>2. /\ Alters(t) /\ where'[t] \in {"try", "idle"}
          /\ op'[t].mode = "EX" /\ op'[t].old = Expected(t)
      <4>1. CASE holders = Expected(t)
        BY <2>1, <2>3, <3>1, <4>1, Calls DEF BeginTry, RwPC, RwInv
      <4>2. CASE holders # Expected(t)
        BY <2>1, <2>3, <3>1, <4>2, Calls DEF BeginTry, RwPC, RwInv
      <4>. QED
        BY <4>1, <4>2
    <3>3. Expected(t)' = Expected(t)
      BY <2>1 DEF Expected
    <3>4. OnWay(t)'
      BY <2>1, <3>1, <3>2, <3>3 DEF OnWay
    <3>. QED
      BY <2>1, <3>2, <3>4
  <2>4. ASSUME NEW w \in BOOLEAN, BeginRead(t, w)
        PROVE  Alters(t) /\ where'[t] \in {"idle", "cas", "join", "try"} /\ OnWay(t)'
    <3>. DEFINE p == IF HasWriter THEN IF w THEN "join" ELSE "idle" ELSE "cas"
    <3>1. p \in RwPC /\ Goes(t, p) /\ Asks(t, "SH", w, holders) /\ held[t] = "NL" /\ holders \in Nat
      BY <2>4 DEF BeginRead, Refused, RwPC, RwInv, TypeOK
    <3>2. p \in {"idle", "cas", "join"} /\ (p = "cas" => ~HasWriter)
      OBVIOUS
    <3>. HIDE DEF p
    <3>3. Alters(t) /\ where'[t] = p /\ op'[t].mode = "SH" /\ op'[t].old = holders
      BY <2>1, <3>1, Calls DEF RwInv
    <3>4. holders % 2 \in {0, 1}
      BY <3>1
    <3>. QED
      BY <2>1, <3>1, <3>2, <3>3, <3>4 DEF OnWay, HasWriter
  <2>. QED
    BY <2>1, <2>2, <2>3, <2>4
<1>1. queue' \in Seq(Thread) /\ HeadInv'
  BY HeadStays DEF RwInv, TypeOK
<1>. QED
  BY <1>1, WordStays

LEMMA JoinKeeps ==
  ASSUME IsFiniteSet(Thread), RwInv, NEW t \in Thread, JoinLine(t)
  PROVE  RwInv'
<1>1. Alters(t)
  BY DEF RwInv, TypeOK, Alters, JoinLine, Goes, RwPC
<1>2. /\ holders' = holders /\ held' = held /\ queue' = Append(queue, t) /\ op' = op
      /\ where[t] = "join" /\ where'[t] = "line"
  BY DEF RwInv, TypeOK, JoinLine, Goes, Parent!Join
<1>3. queue' \in Seq(Thread) /\ HeadInv'
  BY <1>1, <1>2 DEF RwInv, TypeOK, HeadInv, Alters
<1>4. OnWay(t)'
  BY <1>2 DEF RwInv, OnWay
<1>. QED
  BY <1>1, <1>2, <1>3, <1>4, WordStays

LEMMA SpinOnWriterKeeps ==
  ASSUME IsFiniteSet(Thread), RwInv, NEW t \in Thread, SpinOnWriter(t)
  PROVE  RwInv'
<1>1. Alters(t)
  BY DEF RwInv, TypeOK, Alters, SpinOnWriter, Goes, RwPC
<1>2. /\ holders' = holders /\ held' = held /\ queue' = queue /\ op' = op
      /\ where[t] = "line" /\ where'[t] = "add" /\ ~HasWriter
      /\ queue # <<>> /\ Head(queue) = t
  BY DEF RwInv, TypeOK, SpinOnWriter, Goes, Parent!Owns
<1>3. queue' \in Seq(Thread) /\ HeadInv'
  BY <1>1, <1>2, HeadStays DEF RwInv, TypeOK
<1>4. OnWay(t)'
  BY <1>2 DEF RwInv, OnWay, HasWriter
<1>. QED
  BY <1>1, <1>2, <1>3, <1>4, WordStays

LEMMA TryLineKeeps ==
  ASSUME IsFiniteSet(Thread), RwInv, NEW t \in Thread, TryLine(t)
  PROVE  RwInv'
<1>1. Alters(t)
  BY DEF RwInv, TypeOK, Alters, TryLine, Goes, RwPC
<1>2. /\ holders' = holders /\ held' = held /\ op' = op /\ where[t] = "try"
      /\ \/ queue = <<>> /\ queue' = Append(queue, t) /\ where'[t] = "swap"
         \/ queue' = queue /\ where'[t] = "idle"
  BY DEF RwInv, TypeOK, TryLine, Goes, Parent!Join
<1>3. queue' \in Seq(Thread) /\ HeadInv'
  BY <1>1, <1>2 DEF RwInv, TypeOK, HeadInv, Alters
<1>4. OnWay(t)'
  BY <1>2 DEF RwInv, OnWay, Expected
<1>. QED
  BY <1>1, <1>2, <1>3, <1>4, WordStays

LEMMA ExitKeeps ==
  ASSUME IsFiniteSet(Thread), RwInv, NEW t \in Thread, ExitLine(t)
  PROVE  RwInv'
<1>1. Alters(t)
  BY DEF RwInv, TypeOK, Alters, ExitLine, Goes, RwPC
<1>2. /\ holders' = holders /\ held' = held /\ op' = op /\ queue' = Tail(queue)
      /\ where[t] = "exit" /\ where'[t] = "idle" /\ queue # <<>> /\ Head(queue) = t
  BY DEF RwInv, TypeOK, ExitLine, Goes, Parent!Leave, Parent!Owns
<1>3. queue' \in Seq(Thread)
  BY <1>2 DEF RwInv, TypeOK
<1>4. HeadInv'
  <2>. \A u \in Thread : where'[u] \notin {"add", "drain", "swap", "exit"}
    BY <1>1, <1>2 DEF RwInv, HeadInv, Alters
  <2>. QED
    BY DEF HeadInv
<1>5. OnWay(t)'
  BY <1>2 DEF OnWay
<1>. QED
  BY <1>1, <1>2, <1>3, <1>4, <1>5, WordStays

-----------------------------------------------------------------------------
(***************************************************************************)
(* Steps that change the word or what a thread holds.                      *)
(***************************************************************************)
\* An owner of the parent lock is the only one past it.
LEMMA OneOwner ==
  ASSUME RwInv, NEW t \in Thread, NEW u \in Thread,
         where[t] \in {"add", "drain", "swap", "exit"}, where[u] \in {"add", "drain", "swap", "exit"}
  PROVE  t = u
  BY DEF RwInv, HeadInv

\* Adding a reader to a word with no writer's bit.
LEMMA ReadKeeps ==
  ASSUME IsFiniteSet(Thread), RwInv, NEW t \in Thread, Alters(t), held[t] = "NL",
         where[t] \in {"cas", "add"}, where'[t] \in {"idle", "exit"}, held'[t] = "SH", ~HasWriter,
         holders' = holders + READER, queue' \in Seq(Thread), HeadInv'
  PROVE  RwInv'
<1>1. Writers = {} /\ holders \in Nat
  BY Word DEF RwInv, TypeOK
<1>2. t \notin Readers /\ t \in Readers' /\ t \notin Writers /\ t \notin Writers'
  BY DEF Readers, Writers
<1>3. Weighs(t)
  BY <1>1, <1>2 DEF Weighs, Share, READER
<1>4. \A u \in Thread : held'[u] # "EX"
  BY <1>1 DEF Writers, Alters
<1>5. ~HasWriter'
  BY <1>1 DEF HasWriter, READER
<1>6. OnWay(t)'
  BY DEF OnWay
<1>. QED
  BY <1>3, <1>4, <1>5, <1>6, StepKeeps

LEMMA CasReadKeeps ==
  ASSUME IsFiniteSet(Thread), RwInv, NEW t \in Thread, CasRead(t)
  PROVE  RwInv'
<1>1. Alters(t)
  BY DEF RwInv, TypeOK, Alters, CasRead, Goes, Has, Refused, RwPC, Lock!Mode
<1>2. where[t] = "cas" /\ held[t] = "NL" /\ op[t].old % 2 = 0 /\ queue' = queue /\ op' = op
  BY DEF RwInv, OnWay, CasRead
<1>3. CASE holders = op[t].old
  <2>1. holders' = holders + READER /\ held'[t] = "SH" /\ where'[t] = "idle" /\ ~HasWriter
    BY <1>2, <1>3 DEF CasRead, Has, Goes, RwInv, TypeOK, HasWriter
  <2>2. queue' \in Seq(Thread) /\ HeadInv'
    BY <1>1, <1>2, <2>1, HeadStays DEF RwInv, TypeOK
  <2>. QED
    BY <1>1, <1>2, <2>1, <2>2, ReadKeeps
<1>4. CASE holders # op[t].old
  <2>1. holders' = holders /\ held' = held /\ where'[t] \in {"idle", "join"}
    BY <1>4 DEF CasRead, Refused, Goes, RwInv, TypeOK
  <2>2. queue' \in Seq(Thread) /\ HeadInv'
    BY <1>1, <1>2, <2>1, HeadStays DEF RwInv, TypeOK
  <2>3. OnWay(t)'
    BY <1>2, <2>1 DEF OnWay
  <2>. QED
    BY <1>1, <1>2, <2>1, <2>2, <2>3, WordStays
<1>. QED
  BY <1>3, <1>4

LEMMA AddKeeps ==
  ASSUME IsFiniteSet(Thread), RwInv, NEW t \in Thread, AddToWord(t)
  PROVE  RwInv'
<1>1. Alters(t)
  BY DEF RwInv, TypeOK, Alters, AddToWord, Goes, Has, RwPC, Lock!Mode
<1>2. where[t] = "add" /\ held[t] = "NL" /\ ~HasWriter /\ queue' = queue /\ op' = op
  BY DEF RwInv, OnWay, AddToWord
<1>3. queue' \in Seq(Thread) /\ HeadInv'
  BY <1>1, <1>2, HeadStays DEF RwInv, TypeOK
<1>4. CASE op[t].mode = "SH"
  <2>. holders' = holders + READER /\ held'[t] = "SH" /\ where'[t] = "exit"
    BY <1>4 DEF AddToWord, Has, Goes, RwInv, TypeOK
  <2>. QED
    BY <1>1, <1>2, <1>3, ReadKeeps
<1>5. CASE op[t].mode # "SH"
  <2>1. holders' = holders + WRITER /\ held' = held /\ where'[t] = "drain" /\ op[t].mode = "EX"
    BY <1>5 DEF AddToWord, Goes, RwInv, TypeOK, Op
  <2>2. Writers = {} /\ holders \in Nat
    BY <1>2, Word DEF RwInv, TypeOK
  <2>3. /\ t \in Readers' <=> t \in Readers
        /\ t \notin Writers /\ t \in Writers'
    BY <2>1, <2>2 DEF Readers, Writers
  <2>4. Weighs(t)
    BY <2>1, <2>2, <2>3 DEF Weighs, Share, WRITER
  <2>5. OnWay(t)'
    BY <1>2, <2>1 DEF OnWay
  <2>6. Readers' # {} => \A u \in Thread : held'[u] # "EX"
    BY <2>1 DEF RwInv, WordInv, Readers
  <2>7. \A u \in Thread \ {t} : where[u] # "add"
    BY <1>2, OneOwner
  <2>. QED
    BY <1>1, <1>3, <2>4, <2>5, <2>6, <2>7, StepKeeps
<1>. QED
  BY <1>4, <1>5

LEMMA SpinOnReadersKeeps ==
  ASSUME IsFiniteSet(Thread), RwInv, NEW t \in Thread, SpinOnReaders(t)
  PROVE  RwInv'
<1>1. Alters(t)
  BY DEF RwInv, TypeOK, Alters, SpinOnReaders, Goes, Has, RwPC, Lock!Mode
<1>2. /\ where[t] = "drain" /\ held[t] = "NL" /\ ~HasReader /\ queue' = queue /\ holders' = holders
      /\ held'[t] = "EX" /\ where'[t] = "exit"
  BY DEF RwInv, TypeOK, OnWay, SpinOnReaders, Has, Goes
<1>3. queue' \in Seq(Thread) /\ HeadInv'
  BY <1>1, <1>2, HeadStays DEF RwInv, TypeOK
<1>4. Readers = {} /\ holders \in Nat
  BY <1>2, Word DEF RwInv, TypeOK
<1>5. t \notin Readers /\ t \notin Readers' /\ t \in Writers /\ t \in Writers'
  BY <1>2, <1>4 DEF Readers, Writers
<1>6. Weighs(t)
  BY <1>2, <1>4, <1>5 DEF Weighs, Share
<1>7. Readers' = {}
  BY <1>1, <1>4, <1>5 DEF Readers, Alters
<1>8. OnWay(t)'
  BY <1>2 DEF OnWay
<1>9. \A u \in Thread \ {t} : where[u] # "add"
  BY <1>2, OneOwner
<1>. QED
  BY <1>1, <1>3, <1>6, <1>7, <1>8, <1>9, StepKeeps

\* The swap finds the word that the thread saw: nobody, or this thread as the only reader.
LEMMA TrySwapKeeps ==
  ASSUME IsFiniteSet(Thread), RwInv, NEW t \in Thread, TrySwap(t)
  PROVE  RwInv'
<1>1. Alters(t)
  BY DEF RwInv, TypeOK, Alters, TrySwap, Goes, Has, RwPC, Lock!Mode
<1>2. /\ where[t] = "swap" /\ where'[t] = "exit" /\ held[t] \in {"NL", "SH"} /\ op[t].old = Expected(t)
      /\ queue' = queue
  BY DEF RwInv, TypeOK, OnWay, TrySwap, Goes, Lock!Mode
<1>3. queue' \in Seq(Thread) /\ HeadInv'
  BY <1>1, <1>2, HeadStays DEF RwInv, TypeOK
<1>4. OnWay(t)'
  BY <1>2 DEF OnWay
<1>5. CASE holders = op[t].old
  <2>1. holders' = 1 /\ held'[t] = "EX"
    BY <1>5 DEF TrySwap, Has, RwInv, TypeOK, WRITER
  <2>2. holders = (IF held[t] = "SH" THEN 2 ELSE 0) /\ ~HasWriter
    BY <1>2, <1>5 DEF Expected, READER, HasWriter
  <2>3. Writers = {}
    BY <2>2, Word
  <2>4. t \notin Writers /\ t \in Writers' /\ t \notin Readers' /\ (t \in Readers <=> held[t] = "SH")
    BY <2>1, <2>3 DEF Readers, Writers
  <2>5. Weighs(t)
    BY <2>1, <2>2, <2>3, <2>4 DEF Weighs, Share
  <2>6. Readers' = {}
    <3>1. Readers' \in SUBSET Thread /\ Writers' \in SUBSET Thread
      BY DEF Readers, Writers
    <3>2. holders' = 2 * Cardinality(Readers') + Cardinality(Writers') /\ Cardinality(Writers') <= 1
      BY <1>1, <2>5, WordKept DEF Alters, Weighs
    <3>. QED
      BY <2>1, <3>1, <3>2, WordOf
  <2>7. \A u \in Thread \ {t} : where[u] # "add"
    BY <1>2, OneOwner
  <2>. QED
    BY <1>1, <1>3, <1>4, <2>5, <2>6, <2>7, StepKeeps
<1>6. CASE holders # op[t].old
  <2>. holders' = holders /\ held' = held
    BY <1>6 DEF TrySwap
  <2>. QED
    BY <1>1, <1>2, <1>3, <1>4, WordStays
<1>. QED
  BY <1>5, <1>6

LEMMA ReleaseReadKeeps ==
  ASSUME IsFiniteSet(Thread), RwInv, NEW t \in Thread, ReleaseRead(t)
  PROVE  RwInv'
<1>1. Alters(t)
  BY DEF RwInv, TypeOK, Alters, ReleaseRead, Has, Lock!Mode
<1>2. /\ where[t] = "idle" /\ where' = where /\ held[t] = "SH" /\ held'[t] = "NL" /\ queue' = queue
      /\ holders' = holders - 2 /\ holders \in Nat
  BY DEF RwInv, TypeOK, ReleaseRead, Has, READER
<1>3. queue' \in Seq(Thread) /\ HeadInv'
  BY <1>1, <1>2, HeadStays DEF RwInv, TypeOK
<1>4. t \in Readers /\ t \notin Readers' /\ t \notin Writers /\ t \notin Writers'
  BY <1>2 DEF Readers, Writers
<1>5. Weighs(t)
  BY <1>2, <1>4 DEF Weighs, Share
<1>6. \A u \in Thread : held'[u] # "EX"
  BY <1>1, <1>2, <1>4 DEF RwInv, WordInv, Alters
<1>7. HasWriter' <=> HasWriter
  BY <1>2 DEF HasWriter
<1>8. OnWay(t)'
  BY <1>2 DEF OnWay
<1>9. \A u \in Thread : where[u] = "add" => ~HasWriter
  BY DEF RwInv, OnWay
<1>. QED
  BY <1>1, <1>3, <1>5, <1>6, <1>7, <1>8, <1>9, StepKeeps

\* The writer lets go, or stays as a reader: the word was the writer's bit alone.
LEMMA WriterEnds ==
  ASSUME IsFiniteSet(Thread), RwInv, NEW t \in Thread, ReleaseWrite(t) \/ Downgrade(t)
  PROVE  RwInv'
<1>1. Alters(t)
  BY DEF RwInv, TypeOK, Alters, ReleaseWrite, Downgrade, Has, Lock!Mode
<1>2. /\ where[t] = "idle" /\ where' = where /\ held[t] = "EX" /\ queue' = queue
      /\ \/ held'[t] = "NL" /\ holders' = 0
         \/ held'[t] = "SH" /\ holders' = 2
  BY DEF RwInv, TypeOK, ReleaseWrite, Downgrade, Has, READER
<1>3. queue' \in Seq(Thread) /\ HeadInv'
  BY <1>1, <1>2, HeadStays DEF RwInv, TypeOK
<1>4. t \in Writers /\ t \notin Writers' /\ Readers = {} /\ t \notin Readers
  BY <1>2 DEF RwInv, WordInv, Readers, Writers
<1>5. holders = 1
  BY <1>4, Word
<1>6. t \in Readers' <=> held'[t] = "SH"
  BY DEF Readers
<1>7. Weighs(t)
  BY <1>2, <1>4, <1>5, <1>6 DEF Weighs, Share
<1>8. \A u \in Thread : held'[u] # "EX"
  BY <1>1, <1>2, <1>4, Word DEF Writers, Alters
<1>9. ~HasWriter'
  BY <1>2 DEF HasWriter
<1>10. OnWay(t)'
  BY <1>2 DEF OnWay
<1>. QED
  BY <1>1, <1>3, <1>7, <1>8, <1>9, <1>10, StepKeeps

LEMMA RwStarts ==
  ASSUME IsFiniteSet(Thread)
  PROVE  RwInit => RwInv
<1>. SUFFICES ASSUME RwInit PROVE RwInv
  OBVIOUS
<1>1. TypeOK /\ HeadInv /\ \A t \in Thread : OnWay(t)
  BY DEF RwInit, TypeOK, HeadInv, OnWay, RwPC, Op, NoOp, Lock!Mode
<1>2. Readers = {} /\ Writers = {}
  BY DEF RwInit, Readers, Writers
<1>3. WordInv
  BY <1>2, FS_EmptySet DEF RwInit, WordInv, READER
<1>. QED
  BY <1>1, <1>3 DEF RwInv

LEMMA RwStep ==
  ASSUME IsFiniteSet(Thread), RwInv, [RwNext]_rwVars
  PROVE  RwInv'
<1>1. ASSUME NEW t \in Thread, BeginCall(t) \/ Progress(t) \/ LetGo(t) PROVE RwInv'
  BY <1>1, BeginKeeps, WriterEnds, CasReadKeeps, JoinKeeps, SpinOnWriterKeeps, AddKeeps,
     SpinOnReadersKeeps, TryLineKeeps, TrySwapKeeps, ExitKeeps, ReleaseReadKeeps
     DEF BeginCall, Progress, LetGo
<1>2. CASE UNCHANGED rwVars
  BY <1>2 DEF rwVars, RwInv, TypeOK, WordInv, Readers, Writers, HeadInv, OnWay, Expected, HasWriter
<1>. QED
  BY <1>1, <1>2 DEF RwNext

-----------------------------------------------------------------------------
(***************************************************************************)
(* The lock is a reader-writer lock, and no reader gets past a writer.     *)
(***************************************************************************)
\* Nobody but t has the lock when neither bit nor count tells another.
LEMMA Alone ==
  ASSUME IsFiniteSet(Thread), RwInv, NEW t \in Thread, Readers \subseteq {t}, Writers \subseteq {t}
  PROVE  Lock!Others(t) \subseteq {"NL"}
  BY DEF RwInv, TypeOK, Readers, Writers, Lock!Others, Lock!Mode

LEMMA ReadMaps ==
  ASSUME IsFiniteSet(Thread), RwInv, NEW t \in Thread, held[t] = "NL", ~HasWriter, Has(t, "SH")
  PROVE  Lock!Read(t)
<1>1. Writers = {}
  BY Word
<1>2. "EX" \notin Lock!Others(t)
  BY <1>1 DEF Writers, Lock!Others
<1>. QED
  BY <1>2 DEF Lock!Read, Lock!Change, Has

LEMMA StepMaps ==
  ASSUME IsFiniteSet(Thread), RwInv, NEW t \in Thread, BeginCall(t) \/ Progress(t) \/ LetGo(t)
  PROVE  \/ UNCHANGED held
         \/ Lock!Read(t) \/ Lock!Write(t) \/ Lock!Upgrade(t) \/ Lock!Downgrade(t) \/ Lock!Release(t)
<1>1. CASE CasRead(t)
  <2>1. where[t] = "cas" /\ held[t] = "NL" /\ op[t].old % 2 = 0
    BY <1>1 DEF RwInv, OnWay, CasRead
  <2>. QED
    BY <1>1, <2>1, ReadMaps DEF CasRead, HasWriter
<1>2. CASE AddToWord(t)
  <2>1. held[t] = "NL" /\ ~HasWriter
    BY <1>2 DEF RwInv, OnWay, AddToWord
  <2>. QED
    BY <1>2, <2>1, ReadMaps DEF AddToWord
<1>3. CASE SpinOnReaders(t)
  <2>1. where[t] = "drain" /\ held[t] = "NL" /\ ~HasReader /\ Has(t, "EX")
    BY <1>3 DEF RwInv, OnWay, SpinOnReaders
  <2>2. Readers = {} /\ \A w \in Writers : w = t
    BY <2>1, Word DEF Writers
  <2>3. Lock!Others(t) \subseteq {"NL"}
    BY <2>2, Alone
  <2>. QED
    BY <2>1, <2>3 DEF Lock!Write, Lock!Change, Has
<1>4. CASE TrySwap(t)
  <2>1. /\ held[t] \in {"NL", "SH"} /\ op[t].old = Expected(t)
        /\ UNCHANGED held \/ (Has(t, "EX") /\ holders = op[t].old)
    BY <1>4 DEF RwInv, TypeOK, OnWay, TrySwap, Lock!Mode
  <2>2. CASE holders = op[t].old
    <3>1. holders = (IF held[t] = "SH" THEN 2 ELSE 0)
      BY <2>1, <2>2 DEF Expected, READER
    <3>2. Writers = {}
      BY <3>1, Word DEF HasWriter
    <3>3. Readers \subseteq {t}
      <4>1. CASE held[t] = "NL"
        BY <3>1, <4>1, Word
      <4>2. CASE held[t] = "SH"
        <5>1. holders = 2 * Cardinality(Readers) + Cardinality(Writers)
          BY DEF RwInv, WordInv, READER
        <5>2. Cardinality(Readers) \in Nat /\ Cardinality(Writers) = 0
          BY <3>2, Subsets DEF Readers, Writers
        <5>3. Cardinality(Readers) = 1
          BY <3>1, <4>2, <5>1, <5>2
        <5>4. Readers \in SUBSET Thread /\ t \in Readers
          BY <4>2 DEF Readers
        <5>. QED
          BY <5>3, <5>4, AtMostOne
      <4>. QED
        BY <2>1, <4>1, <4>2
    <3>4. Lock!Others(t) \subseteq {"NL"}
      BY <3>2, <3>3, Alone
    <3>. QED
      BY <2>1, <3>4 DEF Lock!Write, Lock!Upgrade, Lock!Change, Has
  <2>. QED
    BY <2>1, <2>2
<1>5. CASE LetGo(t) \/ Downgrade(t)
  BY <1>5 DEF LetGo, ReleaseRead, ReleaseWrite, Downgrade, Has, Lock!Release, Lock!Downgrade,
     Lock!Change
<1>6. CASE JoinLine(t) \/ SpinOnWriter(t) \/ TryLine(t) \/ ExitLine(t) \/ BeginWrite(t)
           \/ BeginTry(t) \/ \E w \in BOOLEAN : BeginRead(t, w)
  BY <1>6 DEF JoinLine, SpinOnWriter, TryLine, ExitLine, BeginWrite, BeginTry, BeginRead
<1>. QED
  BY <1>1, <1>2, <1>3, <1>4, <1>5, <1>6 DEF BeginCall, Progress

LEMMA RwMaps ==
  ASSUME IsFiniteSet(Thread), RwInv, [RwNext]_rwVars
  PROVE  [Lock!Next]_held
  BY StepMaps DEF RwNext, Lock!Next, rwVars

\* What a step does while a writer waits for the readers to go.
Door ==
  \A w \in Thread : where[w] = "drain" =>
    \A t \in Thread \ {w} : held'[t] \in {held[t], "NL"}

LEMMA DoorShut ==
  ASSUME IsFiniteSet(Thread), RwInv, NEW s \in Thread, BeginCall(s) \/ Progress(s) \/ LetGo(s)
  PROVE  Door
<1>. SUFFICES ASSUME NEW w \in Thread, where[w] = "drain", NEW t \in Thread \ {w}
              PROVE  held'[t] \in {held[t], "NL"}
  BY DEF Door
<1>1. w \in Writers
  BY DEF Writers
<1>2. HasWriter /\ \A v \in Writers : v = w
  BY <1>1, Word
<1>3. CASE CasRead(s)
  <2>. op[s].old % 2 = 0
    BY <1>3 DEF RwInv, OnWay, CasRead
  <2>. QED
    BY <1>2, <1>3 DEF CasRead, HasWriter
<1>4. CASE AddToWord(s) \/ TrySwap(s)
  <2>. where[s] \in {"add", "swap"}
    BY <1>4 DEF AddToWord, TrySwap
  <2>. QED
    BY OneOwner
<1>5. CASE SpinOnReaders(s)
  <2>. s = w
    BY <1>5, OneOwner DEF SpinOnReaders
  <2>. QED
    BY <1>5 DEF SpinOnReaders, Has, RwInv, TypeOK
<1>6. CASE Downgrade(s)
  <2>. s \in Writers /\ held[w] # "EX"
    BY <1>6 DEF Downgrade, Writers, RwInv, OnWay
  <2>. QED
    BY <1>2, <1>6 DEF Downgrade
<1>7. CASE LetGo(s)
  BY <1>7 DEF LetGo, ReleaseRead, ReleaseWrite, Has, RwInv, TypeOK
<1>8. CASE JoinLine(s) \/ SpinOnWriter(s) \/ TryLine(s) \/ ExitLine(s) \/ BeginWrite(s)
           \/ BeginTry(s) \/ \E b \in BOOLEAN : BeginRead(s, b)
  BY <1>8 DEF JoinLine, SpinOnWriter, TryLine, ExitLine, BeginWrite, BeginTry, BeginRead
<1>. QED
  BY <1>3, <1>4, <1>5, <1>6, <1>7, <1>8 DEF BeginCall, Progress

LEMMA LockInvariant ==
  ASSUME IsFiniteSet(Thread)
  PROVE  RwSpec => []RwInv
<1>1. RwInit => RwInv
  BY RwStarts
<1>2. RwInv /\ [RwNext]_rwVars => RwInv'
  BY RwStep
<1>. QED
  BY <1>1, <1>2, PTL DEF RwSpec

\* For any number of threads the lock word and its queue are a reader-writer lock: a writer is
\* alone, and an upgrade or a downgrade leaves no gap.
THEOREM IsReaderWriterLock ==
  ASSUME IsFiniteSet(Thread)
  PROVE  RwSpec => ImplementsRwLock
<1>1. RwInit => Lock!Init
  BY DEF RwInit, Lock!Init
<1>2. RwInv /\ [RwNext]_rwVars => [Lock!Next]_held
  BY RwMaps
<1>. QED
  BY <1>1, <1>2, LockInvariant, PTL DEF RwSpec, ImplementsRwLock, Lock!Spec

\* For any number of threads, from the moment a writer has set its bit nobody else gets the lock
\* or a stronger mode in it before the writer does.
THEOREM NobodyPastTheDoor ==
  ASSUME IsFiniteSet(Thread)
  PROVE  RwSpec => WriterShutsDoor
<1>1. RwInv /\ [RwNext]_rwVars => [held' # held => Door]_rwVars
  BY DoorShut DEF RwNext
<1>. QED
  BY <1>1, LockInvariant, PTL DEF RwSpec, WriterShutsDoor, Door
-----------------------------------------------------------------------------
(***************************************************************************)
(* The record.                                                             *)
(***************************************************************************)
\* Every step of a latch is a step of its lock, or leaves it alone.
LEMMA LatchSteps ==
  ASSUME [LatchNext]_pageVars
  PROVE  [RwNext]_rwVars
  BY DEF LatchNext, pageVars, Again, AcquireShare, AcquireExclusive, AskUpgrade, LatchRelease,
     LatchDowngrade, Finish, Acquired, Upgraded, Failed, Released, InLock, RwNext, BeginCall, LetGo

\* For any number of threads a latch is a reader-writer lock that shuts its door on readers.
THEOREM LatchIsALock ==
  ASSUME IsFiniteSet(Thread)
  PROVE  LatchSpec => RwSpec /\ ImplementsRwLock /\ WriterShutsDoor
<1>1. LatchInit => RwInit
  BY DEF LatchInit
<1>2. [LatchNext]_pageVars => [RwNext]_rwVars
  BY LatchSteps
<1>3. LatchSpec => RwSpec
  BY <1>1, <1>2, PTL DEF LatchSpec, RwSpec
<1>. QED
  BY <1>3, IsReaderWriterLock, NobodyPastTheDoor, PTL

\* The record and the call that a thread is in.
RecordTypes ==
  /\ mode \in [Thread -> Lock!Mode] /\ count \in [Thread -> Nat]
  /\ total \in Int /\ doing \in [Thread -> Doing]

Records(t) ==
  /\ doing[t] = "none" =>
       where[t] = "idle" /\ mode[t] = held[t] /\ (count[t] > 0 <=> held[t] # "NL")
  /\ doing[t] = "release" => where[t] = "idle" /\ mode[t] = held[t] /\ count[t] = 0 /\ held[t] # "NL"
  /\ doing[t] \in {"acquire", "upgrade"} =>
       /\ held[t] \in {mode[t], op[t].mode} /\ op[t].mode \in {"SH", "EX"}
       /\ mode[t] # "EX" /\ op[t].mode # mode[t]
       /\ count[t] > 0 <=> mode[t] # "NL"
  /\ doing[t] = "upgrade" => mode[t] = "SH" /\ op[t].mode = "EX"

LatchInv == RwInv /\ RecordTypes /\ \A t \in Thread : Records(t)

\* A step of the lock moves its own thread only, and what the thread holds to the mode it asked
\* for; nothing but a call changes what it asks for.
LEMMA LockMoves ==
  ASSUME RwInv, NEW t \in Thread, Progress(t)
  PROVE  /\ Alters(t) /\ op' = op /\ where[t] # "idle"
         /\ held'[t] \in {held[t], op[t].mode}
<1>1. CASE CasRead(t)
  BY <1>1 DEF RwInv, TypeOK, OnWay, Alters, CasRead, Goes, Has, Refused, RwPC, Lock!Mode
<1>2. CASE AddToWord(t)
  BY <1>2 DEF RwInv, TypeOK, OnWay, Alters, AddToWord, Goes, Has, RwPC, Lock!Mode
<1>3. CASE SpinOnReaders(t)
  BY <1>3 DEF RwInv, TypeOK, OnWay, Alters, SpinOnReaders, Goes, Has, RwPC, Lock!Mode
<1>4. CASE TrySwap(t)
  BY <1>4 DEF RwInv, TypeOK, OnWay, Alters, TrySwap, Goes, Has, RwPC, Lock!Mode
<1>5. CASE JoinLine(t) \/ SpinOnWriter(t) \/ TryLine(t) \/ ExitLine(t)
  BY <1>5 DEF RwInv, TypeOK, Alters, JoinLine, SpinOnWriter, TryLine, ExitLine, Goes, RwPC
<1>. QED
  BY <1>1, <1>2, <1>3, <1>4, <1>5 DEF Progress

\* Latch calls of other threads do not touch a thread's record.
LEMMA OthersKeep ==
  ASSUME NEW t \in Thread, \A u \in Thread : Records(u), Records(t)',
         \A u \in Thread \ {t} :
           /\ where'[u] = where[u] /\ held'[u] = held[u] /\ op'[u] = op[u]
           /\ mode'[u] = mode[u] /\ count'[u] = count[u] /\ doing'[u] = doing[u]
  PROVE  \A u \in Thread : Records(u)'
  BY DEF Records

LEMMA CallKeeps ==
  ASSUME LatchInv, NEW t \in Thread, NEW wait \in BOOLEAN,
         AcquireShare(t, wait) \/ AcquireExclusive(t, wait) \/ AskUpgrade(t)
  PROVE  RecordTypes' /\ \A u \in Thread : Records(u)'
<1>. USE DEF LatchInv
<1>. DEFINE m == IF AcquireShare(t, wait) THEN "SH" ELSE "EX"
<1>1. /\ doing[t] = "none" /\ where[t] = "idle" /\ mode[t] = held[t] /\ mode[t] # "EX" /\ m # mode[t]
      /\ count[t] > 0 <=> mode[t] # "NL"
      /\ UNCHANGED <<mode, count, total, held>>
  BY DEF AcquireShare, AcquireExclusive, AskUpgrade, Free, Records, BeginRead, BeginWrite, BeginTry
<1>2. Alters(t) /\ op'[t].mode = m
  <2>1. CASE AcquireShare(t, wait)
    <3>. DEFINE p == IF HasWriter THEN IF wait THEN "join" ELSE "idle" ELSE "cas"
    <3>. p \in RwPC /\ Goes(t, p) /\ Asks(t, "SH", wait, holders) /\ holders \in Nat
      BY <2>1 DEF AcquireShare, BeginRead, Refused, RwPC, RwInv, TypeOK
    <3>. HIDE DEF p
    <3>. QED
      BY <1>1, <2>1, Calls DEF RwInv
  <2>2. CASE ~AcquireShare(t, wait) /\ BeginTry(t)
    <3>1. Expected(t) \in Nat /\ Asks(t, "EX", FALSE, Expected(t)) /\ where[t] = "idle"
      BY <2>2 DEF Expected, READER, BeginTry
    <3>2. Goes(t, "try") \/ UNCHANGED where
      BY <2>2 DEF BeginTry
    <3>. QED
      BY <1>1, <2>2, <3>1, <3>2, Calls DEF RwInv, RwPC
  <2>3. CASE ~AcquireShare(t, wait) /\ BeginWrite(t)
    BY <1>1, <2>3, Calls DEF RwInv, RwPC, BeginWrite
  <2>. QED
    BY <2>1, <2>2, <2>3 DEF AcquireExclusive, AskUpgrade
<1>3. doing' \in [Thread -> Doing] /\ \A u \in Thread \ {t} : doing'[u] = doing[u]
  BY DEF RecordTypes, AcquireShare, AcquireExclusive, AskUpgrade, Does, Doing
<1>4. doing'[t] \in {"acquire", "upgrade"} /\ (doing'[t] = "upgrade" => mode[t] = "SH" /\ m = "EX")
  BY DEF RecordTypes, AcquireShare, AcquireExclusive, AskUpgrade, Does
<1>5. m \in {"SH", "EX"}
  OBVIOUS
<1>. HIDE DEF m
<1>6. RecordTypes'
  BY <1>1, <1>3 DEF RecordTypes
<1>7. Records(t)'
  BY <1>1, <1>2, <1>4, <1>5 DEF Records
<1>. QED
  BY <1>1, <1>2, <1>3, <1>6, <1>7, OthersKeep DEF Alters

LEMMA FinishKeeps ==
  ASSUME LatchInv, NEW t \in Thread, Acquired(t) \/ Upgraded(t) \/ Failed(t)
  PROVE  RecordTypes' /\ \A u \in Thread : Records(u)'
<1>. USE DEF LatchInv
<1>1. /\ doing[t] \in {"acquire", "upgrade"} /\ where[t] = "idle" /\ Records(t)
      /\ UNCHANGED <<where, held, op>> /\ Does(t, "none")
  BY DEF Acquired, Upgraded, Failed, Returned, rwVars
<1>2. doing' \in [Thread -> Doing] /\ doing'[t] = "none" /\ \A u \in Thread \ {t} : doing'[u] = doing[u]
  BY <1>1 DEF RecordTypes, Does, Doing
<1>3. CASE Acquired(t)
  <2>1. /\ mode' = [mode EXCEPT ![t] = op[t].mode] /\ count' = [count EXCEPT ![t] = @ + 1]
        /\ total' = total + 1 /\ held[t] = op[t].mode
    BY <1>3 DEF Acquired, Won, Bump
  <2>2. op[t].mode \in {"SH", "EX"}
    BY <1>1 DEF Records
  <2>3. RecordTypes'
    BY <1>2, <2>1, <2>2 DEF RecordTypes, Lock!Mode
  <2>4. Records(t)'
    BY <1>1, <1>2, <2>1, <2>2 DEF Records, RecordTypes
  <2>. QED
    BY <1>1, <1>2, <2>1, <2>3, <2>4, OthersKeep DEF RecordTypes
<1>4. CASE Upgraded(t)
  <2>1. /\ mode' = [mode EXCEPT ![t] = "EX"] /\ UNCHANGED <<count, total>>
        /\ held[t] = op[t].mode /\ doing[t] = "upgrade"
    BY <1>4 DEF Upgraded, Won
  <2>2. RecordTypes'
    BY <1>2, <2>1 DEF RecordTypes, Lock!Mode
  <2>3. Records(t)'
    BY <1>1, <1>2, <2>1 DEF Records, RecordTypes
  <2>. QED
    BY <1>1, <1>2, <2>1, <2>2, <2>3, OthersKeep DEF RecordTypes
<1>5. CASE Failed(t)
  <2>1. UNCHANGED <<mode, count, total>> /\ held[t] # op[t].mode
    BY <1>5 DEF Failed, Won
  <2>2. RecordTypes'
    BY <1>2, <2>1 DEF RecordTypes
  <2>3. Records(t)'
    BY <1>1, <1>2, <2>1 DEF Records
  <2>. QED
    BY <1>1, <1>2, <2>1, <2>2, <2>3, OthersKeep
<1>. QED
  BY <1>3, <1>4, <1>5

LEMMA EndKeeps ==
  ASSUME LatchInv, NEW t \in Thread,
         LatchRelease(t) \/ Released(t) \/ LatchDowngrade(t) \/ \E m \in {"SH", "EX"} : Again(t, m)
  PROVE  RecordTypes' /\ \A u \in Thread : Records(u)'
<1>. USE DEF LatchInv
<1>1. Records(t)
  OBVIOUS
<1>2. CASE \E m \in {"SH", "EX"} : Again(t, m)
  <2>1. /\ doing[t] = "none" /\ mode[t] # "NL" /\ count' = [count EXCEPT ![t] = @ + 1]
        /\ total' = total + 1 /\ UNCHANGED <<where, held, op, mode, doing>>
    BY <1>2 DEF Again, Free, Bump, rwVars
  <2>2. RecordTypes'
    BY <2>1 DEF RecordTypes
  <2>3. Records(t)'
    BY <1>1, <2>1 DEF Records, RecordTypes
  <2>. QED
    BY <2>1, <2>2, <2>3, OthersKeep DEF RecordTypes
<1>3. CASE LatchRelease(t)
  <2>1. /\ doing[t] = "none" /\ count[t] > 0 /\ count' = [count EXCEPT ![t] = @ + (-1)]
        /\ total' = total - 1 /\ UNCHANGED <<where, held, op, mode>>
        /\ IF count[t] = 1 THEN Does(t, "release") ELSE UNCHANGED doing
    BY <1>3 DEF LatchRelease, Free, Bump, rwVars
  <2>2. /\ doing' \in [Thread -> Doing] /\ \A u \in Thread \ {t} : doing'[u] = doing[u]
        /\ doing'[t] = IF count[t] = 1 THEN "release" ELSE "none"
    BY <2>1 DEF RecordTypes, Does, Doing
  <2>3. RecordTypes'
    <3>1. count[t] + (-1) \in Nat
      BY <2>1 DEF RecordTypes
    <3>2. count' \in [Thread -> Nat]
      BY <2>1, <3>1 DEF RecordTypes
    <3>3. total' \in Int
      BY <2>1 DEF RecordTypes
    <3>. QED
      BY <2>1, <2>2, <3>2, <3>3 DEF RecordTypes
  <2>4. Records(t)'
    BY <1>1, <2>1, <2>2 DEF Records, RecordTypes
  <2>. QED
    BY <2>1, <2>2, <2>3, <2>4, OthersKeep DEF RecordTypes
<1>4. CASE Released(t)
  <2>1. /\ doing[t] = "release" /\ mode' = [mode EXCEPT ![t] = "NL"] /\ Does(t, "none")
        /\ held' = [held EXCEPT ![t] = "NL"] /\ UNCHANGED <<where, op, count, total>>
    BY <1>4 DEF Released, ReleaseRead, ReleaseWrite, Has
  <2>2. RecordTypes'
    BY <2>1 DEF RecordTypes, Does, Doing, Lock!Mode
  <2>3. Records(t)'
    BY <1>1, <2>1 DEF Records, RecordTypes, Does, RwInv, TypeOK
  <2>. QED
    BY <2>1, <2>2, <2>3, OthersKeep DEF RecordTypes, Does, RwInv, TypeOK
<1>5. CASE LatchDowngrade(t)
  <2>1. /\ doing[t] = "none" /\ mode[t] = "EX" /\ mode' = [mode EXCEPT ![t] = "SH"]
        /\ held' = [held EXCEPT ![t] = "SH"] /\ UNCHANGED <<where, op, count, total, doing>>
    BY <1>5 DEF LatchDowngrade, Downgrade, Free, Has
  <2>2. RecordTypes'
    BY <2>1 DEF RecordTypes, Lock!Mode
  <2>3. Records(t)'
    BY <1>1, <2>1 DEF Records, RecordTypes, RwInv, TypeOK
  <2>. QED
    BY <2>1, <2>2, <2>3, OthersKeep DEF RecordTypes, RwInv, TypeOK
<1>. QED
  BY <1>2, <1>3, <1>4, <1>5

LEMMA InLockKeeps ==
  ASSUME LatchInv, NEW t \in Thread, InLock(t)
  PROVE  RecordTypes' /\ \A u \in Thread : Records(u)'
<1>. USE DEF LatchInv
<1>1. /\ Alters(t) /\ op' = op /\ where[t] # "idle" /\ held'[t] \in {held[t], op[t].mode}
      /\ UNCHANGED <<mode, count, total, doing>>
  BY LockMoves DEF InLock, latchVars
<1>2. RecordTypes'
  BY <1>1 DEF RecordTypes
<1>3. Records(t)'
  <2>. Records(t) /\ doing[t] \in Doing
    BY DEF RecordTypes
  <2>. QED
    BY <1>1 DEF Records, Doing
<1>. QED
  BY <1>1, <1>2, <1>3, OthersKeep DEF Alters

LEMMA LatchKeeps ==
  ASSUME IsFiniteSet(Thread), LatchInv, [LatchNext]_pageVars
  PROVE  LatchInv'
<1>1. RwInv'
  BY LatchSteps, RwStep DEF LatchInv
<1>2. CASE LatchNext
  <2>. RecordTypes' /\ \A u \in Thread : Records(u)'
    BY <1>2, CallKeeps, FinishKeeps, EndKeeps, InLockKeeps DEF LatchNext, Finish
  <2>. QED
    BY <1>1 DEF LatchInv
<1>3. CASE UNCHANGED pageVars
  BY <1>1, <1>3 DEF LatchInv, RecordTypes, Records, pageVars, rwVars, latchVars
<1>. QED
  BY <1>2, <1>3

LEMMA RecordHolds ==
  ASSUME IsFiniteSet(Thread), LatchInv
  PROVE  RecordTrue
<1>. SUFFICES ASSUME NEW t \in Thread, Free(t)
              PROVE  /\ mode[t] = held[t]
                     /\ mode[t] # "NL" => LockMode = mode[t]
                     /\ mode[t] = "EX" => \A s \in Thread \ {t} : held[s] = "NL"
                     /\ count[t] > 0 <=> held[t] # "NL"
  BY DEF RecordTrue
<1>. USE DEF LatchInv
<1>1. mode[t] = held[t] /\ (count[t] > 0 <=> held[t] # "NL")
  BY DEF Records, Free
<1>2. CASE held[t] = "SH"
  <2>. t \in Readers
    BY <1>2 DEF Readers
  <2>. holders # 1 /\ holders > 0
    BY Word
  <2>. QED
    BY <1>1, <1>2 DEF LockMode, WRITER
<1>3. CASE held[t] = "EX"
  <2>1. t \in Writers /\ Readers = {}
    BY <1>3 DEF Writers, RwInv, WordInv
  <2>2. holders = 1 /\ \A w \in Writers : w = t
    BY <2>1, Word
  <2>3. \A s \in Thread \ {t} : held[s] = "NL"
    BY <2>1, <2>2 DEF Readers, Writers, RwInv, TypeOK, Lock!Mode
  <2>. QED
    BY <1>1, <1>3, <2>2, <2>3 DEF LockMode, WRITER
<1>4. CASE held[t] = "NL"
  BY <1>1, <1>4
<1>. QED
  BY <1>2, <1>3, <1>4 DEF RwInv, TypeOK, Lock!Mode

\* For any number of threads and of nested acquires, a thread that is in no call finds in its
\* record what it holds, and the lock word says the same, whatever others do to it meanwhile.
THEOREM RecordIsTrue ==
  ASSUME IsFiniteSet(Thread)
  PROVE  LatchSpec => []RecordTrue
<1>1. LatchInit => LatchInv
  BY RwStarts DEF LatchInit, LatchInv, RecordTypes, Records, RwInit, Lock!Mode, Doing
<1>2. LatchInv /\ [LatchNext]_pageVars => LatchInv'
  BY LatchKeeps
<1>3. LatchInv => RecordTrue
  BY RecordHolds
<1>. QED
  BY <1>1, <1>2, <1>3, PTL DEF LatchSpec
=============================================================================
