--------------------------- MODULE McsLockProofs ---------------------------
(***************************************************************************)
(* The nodes of the mcs_lock form one line, for any number of threads:     *)
(* one owner, no write into a node that is gone, and first come, first     *)
(* served.                                                                 *)
(***************************************************************************)
EXTENDS McsLock, FiniteSetTheorems, SequenceTheorems, NaturalsInduction, WellFoundedInduction, TLAPS

\* The line q that the nodes make up.  A thread that has linked itself is the next of the one
\* before it; one that has swapped _tail and not linked itself yet is nobody's next.
Threads(q) ==
  /\ \A i, j \in 1..Len(q) : q[i] = q[j] => i = j
  /\ \A t \in Thread : pc[t] # "idle" <=> \E i \in 1..Len(q) : q[i] = t

First(q) ==
  q # <<>> =>
    /\ HasLock(q[1]) \/ (pc[q[1]] = "spin" /\ ~waiting[q[1]])
    /\ pc[q[1]] \in {"await", "hand"} => Len(q) > 1
    /\ pc[q[1]] = "hand" => next[q[1]] # NoThread

Linked(q) ==
  /\ tail = IF q = <<>> THEN NoThread ELSE q[Len(q)]
  /\ q # <<>> => next[q[Len(q)]] = NoThread
  /\ \A i \in 2..Len(q) :
       /\ pc[q[i]] \in {"link", "spin"} /\ waiting[q[i]] /\ pred[q[i]] = q[i - 1]
       /\ next[q[i - 1]] = IF pc[q[i]] = "spin" THEN q[i] ELSE NoThread

Shape(q) == Threads(q) /\ First(q) /\ Linked(q)

LineInv == TypeOK /\ \E q \in Seq(Thread) : Shape(q)

-----------------------------------------------------------------------------
(***************************************************************************)
(* Sequences.                                                              *)
(***************************************************************************)
LEMMA AppendIs ==
  ASSUME NEW S, NEW q \in Seq(S), NEW t \in S
  PROVE  /\ Append(q, t) \in Seq(S) /\ Append(q, t) # <<>>
         /\ Len(Append(q, t)) = Len(q) + 1
         /\ \A i \in 1..Len(q) : Append(q, t)[i] = q[i]
         /\ Append(q, t)[Len(q) + 1] = t
  OBVIOUS

LEMMA TailIs ==
  ASSUME NEW S, NEW q \in Seq(S), q # <<>>
  PROVE  /\ Tail(q) \in Seq(S) /\ Len(Tail(q)) = Len(q) - 1
         /\ \A i \in 1..(Len(q) - 1) : Tail(q)[i] = q[i + 1]
         /\ Tail(q) = <<>> <=> Len(q) = 1
         /\ Head(q) = q[1]
<1>1. Tail(q) \in Seq(S) /\ Len(Tail(q)) = Len(q) - 1 /\ Head(q) = q[1]
      /\ \A i \in 1..(Len(q) - 1) : Tail(q)[i] = q[i + 1]
  BY HeadTailProperties
<1>2. Tail(q) = <<>> <=> Len(Tail(q)) = 0
  BY <1>1
<1>. QED
  BY <1>1, <1>2

LEMMA LenIs ==
  ASSUME NEW S, NEW q \in Seq(S)
  PROVE  /\ Len(q) \in Nat /\ (q = <<>> <=> Len(q) = 0)
         /\ \A i \in 1..Len(q) : q[i] \in S
  OBVIOUS

-----------------------------------------------------------------------------
(***************************************************************************)
(* A step leaves the line as it is, lengthens or shortens it.              *)
(***************************************************************************)
Stays(q) == Shape(q)'
Joined(q, t) == Shape(Append(q, t))' /\ \A i \in 1..Len(q) : q[i] # t
Left(q, t) == q # <<>> /\ q[1] = t /\ Shape(Tail(q))'

\* Who has the lock, or spins with the flag down, is the first.
LEMMA IsFirst ==
  ASSUME TypeOK, NEW q \in Seq(Thread), Shape(q), NEW t \in Thread,
         HasLock(t) \/ (pc[t] = "spin" /\ ~waiting[t])
  PROVE  q # <<>> /\ q[1] = t
<1>1. PICK i \in 1..Len(q) : q[i] = t
  BY DEF Shape, Threads, HasLock
<1>2. i \notin 2..Len(q)
  BY <1>1 DEF Shape, Linked, HasLock
<1>. QED
  BY <1>1, <1>2, LenIs

LEMMA IsLater ==
  ASSUME TypeOK, NEW q \in Seq(Thread), Shape(q), NEW t \in Thread, pc[t] = "link"
  PROVE  \E i \in 2..Len(q) : q[i] = t
<1>1. PICK i \in 1..Len(q) : q[i] = t
  BY DEF Shape, Threads
<1>2. i # 1
  BY <1>1 DEF Shape, First, HasLock
<1>. QED
  BY <1>1, <1>2, LenIs

\* A thread moves on and writes nothing that the line is made of.
LEMMA Moves ==
  ASSUME TypeOK, NEW q \in Seq(Thread), Shape(q), NEW t \in Thread, NEW p \in PC, Go(t, p),
         UNCHANGED <<tail, next, waiting, pred>>, p \in {"crit", "swap", "await", "hand"},
         HasLock(t) \/ (pc[t] = "spin" /\ ~waiting[t]),
         p = "await" => Len(q) > 1,
         p = "hand" => next[t] # NoThread
  PROVE  Shape(q)'
<1>1. /\ pc' \in [Thread -> PC] /\ pc'[t] = p
      /\ \A u \in Thread \ {t} : pc'[u] = pc[u]
  BY DEF TypeOK, Go
<1>2. q # <<>> /\ q[1] = t
  BY IsFirst DEF TypeOK, PC, HasLock
<1>3. Len(q) \in Nat /\ Len(q) > 0 /\ \A i \in 1..Len(q) : q[i] \in Thread
  BY <1>2, LenIs
<1>4. \A i \in 2..Len(q) : q[i] # t
  BY <1>2, <1>3 DEF Shape, Threads
<1>5. Threads(q)'
  <2>. pc[t] # "idle" /\ p # "idle"
    BY DEF HasLock
  <2>. QED
    BY <1>1 DEF Shape, Threads
<1>6. p = "hand" => Len(q) > 1
  BY <1>2, <1>3 DEF Shape, Linked
<1>7. First(q)'
  BY <1>1, <1>2, <1>6 DEF First, HasLock
<1>8. Linked(q)'
  BY <1>1, <1>3, <1>4 DEF Shape, Linked
<1>. QED
  BY <1>5, <1>7, <1>8 DEF Shape

-----------------------------------------------------------------------------
\* A thread that is in no call and makes its node ready is not in line.
LEMMA Outside ==
  ASSUME TypeOK, NEW q \in Seq(Thread), Shape(q), NEW t \in Thread, pc[t] = "idle"
  PROVE  \A i \in 1..Len(q) : q[i] # t
  BY DEF Shape, Threads

LEMMA ReadyIs ==
  ASSUME TypeOK, NEW t \in Thread, Ready(t)
  PROVE  /\ next' \in [Thread -> Node] /\ next'[t] = NoThread
         /\ waiting' \in [Thread -> BOOLEAN] /\ waiting'[t] = TRUE
         /\ \A u \in Thread \ {t} : next'[u] = next[u] /\ waiting'[u] = waiting[u]
  BY DEF TypeOK, Ready, Node

LEMMA AttemptKeeps ==
  ASSUME TypeOK, NEW q \in Seq(Thread), Shape(q), NEW t \in Thread, Attempt(t)
  PROVE  TypeOK' /\ (Stays(q) \/ Joined(q, t))
<1>1. pc[t] = "idle" /\ Ready(t) /\ pred' = pred
  BY DEF Attempt
<1>2. /\ next' \in [Thread -> Node] /\ next'[t] = NoThread
      /\ waiting' \in [Thread -> BOOLEAN] /\ waiting'[t] = TRUE
      /\ \A u \in Thread \ {t} : next'[u] = next[u] /\ waiting'[u] = waiting[u]
  BY <1>1, ReadyIs
<1>3. \A i \in 1..Len(q) : q[i] # t
  BY <1>1, Outside
<1>4. Len(q) \in Nat /\ (q = <<>> <=> Len(q) = 0) /\ \A i \in 1..Len(q) : q[i] \in Thread
  BY LenIs
<1>5. CASE tail = NoThread
  <2>1. tail' = t /\ pc' \in [Thread -> PC] /\ pc'[t] = "crit" /\ \A u \in Thread \ {t} : pc'[u] = pc[u]
    BY <1>5 DEF Attempt, TypeOK, Go, PC
  <2>2. q = <<>>
    BY <1>4, <1>5, NoThreadAssumption DEF Shape, Linked
  <2>3. TypeOK'
    BY <1>1, <1>2, <2>1 DEF TypeOK, Node
  <2>. DEFINE r == Append(q, t)
  <2>4. r \in Seq(Thread) /\ r # <<>> /\ Len(r) = 1 /\ r[1] = t
    BY <1>4, <2>2, AppendIs
  <2>. HIDE DEF r
  <2>5. Threads(r)'
    BY <1>4, <2>1, <2>2, <2>4 DEF Shape, Threads
  <2>6. First(r)' /\ Linked(r)'
    BY <1>2, <2>1, <2>4 DEF First, Linked, HasLock
  <2>. QED
    BY <1>3, <2>3, <2>5, <2>6 DEF Joined, Shape, r
<1>6. CASE tail # NoThread
  <2>1. tail' = tail /\ pc' = pc
    BY <1>6 DEF Attempt
  <2>2. TypeOK'
    BY <1>1, <1>2, <2>1 DEF TypeOK
  <2>3. \A i \in 1..Len(q) : next'[q[i]] = next[q[i]] /\ waiting'[q[i]] = waiting[q[i]]
    BY <1>2, <1>3, <1>4
  <2>4. Threads(q)'
    BY <2>1 DEF Shape, Threads
  <2>5. First(q)'
    <3>. q # <<>> => 1 \in 1..Len(q)
      BY <1>4
    <3>. QED
      BY <2>1, <2>3 DEF Shape, First, HasLock
  <2>6. Linked(q)'
    <3>. /\ q # <<>> => Len(q) \in 1..Len(q)
         /\ \A i \in 2..Len(q) : i \in 1..Len(q) /\ i - 1 \in 1..Len(q)
      BY <1>4
    <3>. QED
      BY <1>1, <2>1, <2>3 DEF Shape, Linked
  <2>. QED
    BY <2>2, <2>4, <2>5, <2>6 DEF Stays, Shape
<1>. QED
  BY <1>5, <1>6

LEMMA BeginKeeps ==
  ASSUME TypeOK, NEW q \in Seq(Thread), Shape(q), NEW t \in Thread, BeginAcquire(t)
  PROVE  TypeOK' /\ Joined(q, t)
<1>. DEFINE p == IF tail = NoThread THEN "crit" ELSE "link"
            r == Append(q, t)
<1>1. pc[t] = "idle" /\ Ready(t) /\ tail' = t /\ pred' = [pred EXCEPT ![t] = tail] /\ Go(t, p)
  BY DEF BeginAcquire
<1>2. /\ next' \in [Thread -> Node] /\ next'[t] = NoThread
      /\ waiting' \in [Thread -> BOOLEAN] /\ waiting'[t] = TRUE
      /\ \A u \in Thread \ {t} : next'[u] = next[u] /\ waiting'[u] = waiting[u]
  BY <1>1, ReadyIs
<1>3. \A i \in 1..Len(q) : q[i] # t
  BY <1>1, Outside
<1>4. Len(q) \in Nat /\ (q = <<>> <=> Len(q) = 0) /\ \A i \in 1..Len(q) : q[i] \in Thread
  BY LenIs
<1>5. tail = IF q = <<>> THEN NoThread ELSE q[Len(q)]
  BY DEF Shape, Linked
<1>6. p = IF q = <<>> THEN "crit" ELSE "link"
  BY <1>4, <1>5, NoThreadAssumption
<1>7. p \in PC
  BY DEF PC
<1>. HIDE DEF p
<1>8. /\ pc' \in [Thread -> PC] /\ pc'[t] = p /\ \A u \in Thread \ {t} : pc'[u] = pc[u]
      /\ pred' \in [Thread -> Node] /\ pred'[t] = tail /\ \A u \in Thread \ {t} : pred'[u] = pred[u]
  BY <1>1, <1>7 DEF TypeOK, Go
<1>9. TypeOK'
  BY <1>1, <1>2, <1>8 DEF TypeOK, Node
<1>10. /\ r \in Seq(Thread) /\ r # <<>> /\ Len(r) = Len(q) + 1 /\ r[Len(q) + 1] = t
       /\ \A i \in 1..Len(q) : r[i] = q[i]
  BY AppendIs
<1>. HIDE DEF r
<1>11. Threads(r)'
  <2>1. \A i, j \in 1..Len(r) : r[i] = r[j] => i = j
    BY <1>3, <1>4, <1>10 DEF Shape, Threads
  <2>2. \A u \in Thread \ {t} : (\E i \in 1..Len(r) : r[i] = u) <=> \E i \in 1..Len(q) : q[i] = u
    BY <1>4, <1>10
  <2>3. pc'[t] # "idle" /\ \E i \in 1..Len(r) : r[i] = t
    BY <1>4, <1>6, <1>8, <1>10
  <2>. QED
    BY <1>8, <2>1, <2>2, <2>3 DEF Shape, Threads
<1>12. First(r)'
  <2>1. CASE q = <<>>
    BY <1>4, <1>6, <1>8, <1>10, <2>1 DEF First, HasLock
  <2>2. CASE q # <<>>
    <3>. Len(q) > 0 /\ r[1] = q[1] /\ q[1] \in Thread \ {t}
      BY <1>3, <1>4, <1>10, <2>2
    <3>. QED
      BY <1>2, <1>4, <1>8, <1>10, <2>2 DEF Shape, First, HasLock
  <2>. QED
    BY <2>1, <2>2
<1>13. Linked(r)'
  <2>1. tail' = r[Len(r)] /\ next'[r[Len(r)]] = NoThread
    BY <1>1, <1>2, <1>4, <1>10
  <2>2. ASSUME NEW i \in 2..Len(q)
        PROVE  /\ pc'[r[i]] \in {"link", "spin"} /\ waiting'[r[i]] /\ pred'[r[i]] = r[i - 1]
               /\ next'[r[i - 1]] = IF pc'[r[i]] = "spin" THEN r[i] ELSE NoThread
    <3>. i \in 1..Len(q) /\ i - 1 \in 1..Len(q)
      BY <1>4
    <3>. r[i] = q[i] /\ r[i - 1] = q[i - 1] /\ q[i] \in Thread \ {t} /\ q[i - 1] \in Thread \ {t}
      BY <1>3, <1>4, <1>10
    <3>. QED
      BY <1>2, <1>8 DEF Shape, Linked
  <2>3. ASSUME q # <<>>
        PROVE  /\ pc'[t] = "link" /\ waiting'[t] /\ pred'[t] = r[Len(q)]
               /\ next'[r[Len(q)]] = NoThread
    <3>. Len(q) \in 1..Len(q) /\ q[Len(q)] \in Thread \ {t}
      BY <1>3, <1>4, <2>3
    <3>. QED
      BY <1>2, <1>5, <1>6, <1>8, <1>10, <2>3 DEF Shape, Linked
  <2>4. ASSUME NEW i \in 2..Len(r)
        PROVE  /\ pc'[r[i]] \in {"link", "spin"} /\ waiting'[r[i]] /\ pred'[r[i]] = r[i - 1]
               /\ next'[r[i - 1]] = IF pc'[r[i]] = "spin" THEN r[i] ELSE NoThread
    <3>1. CASE i \in 2..Len(q)
      BY <2>2, <3>1
    <3>2. CASE i = Len(q) + 1
      <4>. i - 1 = Len(q) /\ q # <<>> /\ r[i] = t
        BY <1>4, <1>10, <3>2
      <4>. QED
        BY <2>3
    <3>. QED
      BY <1>4, <1>10, <3>1, <3>2
  <2>. QED
    BY <1>10, <2>1, <2>4 DEF Linked
<1>. QED
  BY <1>3, <1>9, <1>11, <1>12, <1>13 DEF Joined, Shape, r

LEMMA LinkKeeps ==
  ASSUME TypeOK, NEW q \in Seq(Thread), Shape(q), NEW t \in Thread, Link(t)
  PROVE  TypeOK' /\ Stays(q)
<1>1. /\ pc[t] = "link" /\ next' = [next EXCEPT ![pred[t]] = t] /\ Go(t, "spin")
      /\ UNCHANGED <<tail, waiting, pred>>
  BY DEF Link
<1>2. Len(q) \in Nat /\ (q = <<>> <=> Len(q) = 0) /\ \A i \in 1..Len(q) : q[i] \in Thread
  BY LenIs
<1>3. PICK k \in 2..Len(q) : q[k] = t
  BY <1>1, IsLater
<1>4. pred[t] = q[k - 1] /\ q[k - 1] \in Thread /\ k \in 1..Len(q) /\ k - 1 \in 1..Len(q)
  BY <1>2, <1>3 DEF Shape, Linked
<1>5. /\ next' \in [Thread -> Node] /\ next'[q[k - 1]] = t
      /\ \A u \in Thread \ {q[k - 1]} : next'[u] = next[u]
  BY <1>1, <1>4 DEF TypeOK, Node
<1>6. /\ pc' \in [Thread -> PC] /\ pc'[t] = "spin" /\ \A u \in Thread \ {t} : pc'[u] = pc[u]
  BY <1>1 DEF TypeOK, Go, PC
<1>7. TypeOK'
  BY <1>1, <1>5, <1>6 DEF TypeOK
<1>8. \A i \in 1..Len(q) : (q[i] = t => i = k) /\ (q[i] = q[k - 1] => i = k - 1)
  BY <1>3, <1>4 DEF Shape, Threads
<1>9. Threads(q)'
  BY <1>1, <1>6 DEF Shape, Threads
<1>10. First(q)'
  <2>. q # <<>> /\ q[1] # t /\ q[1] \in Thread
    BY <1>2, <1>3, <1>8
  <2>. t # NoThread
    BY NoThreadAssumption
  <2>. QED
    BY <1>1, <1>5, <1>6 DEF Shape, First, HasLock
<1>11. Linked(q)'
  <2>1. tail' = IF q = <<>> THEN NoThread ELSE q[Len(q)]
    BY <1>1 DEF Shape, Linked
  <2>2. q # <<>> => next'[q[Len(q)]] = NoThread
    <3>. SUFFICES ASSUME q # <<>> PROVE next'[q[Len(q)]] = NoThread
      OBVIOUS
    <3>. Len(q) \in 1..Len(q) /\ Len(q) # k - 1
      BY <1>2, <1>3
    <3>. QED
      BY <1>2, <1>5, <1>8 DEF Shape, Linked
  <2>3. ASSUME NEW i \in 2..Len(q)
        PROVE  /\ pc'[q[i]] \in {"link", "spin"} /\ waiting'[q[i]] /\ pred'[q[i]] = q[i - 1]
               /\ next'[q[i - 1]] = IF pc'[q[i]] = "spin" THEN q[i] ELSE NoThread
    <3>0. /\ i \in 1..Len(q) /\ i - 1 \in 1..Len(q) /\ q[i] \in Thread /\ q[i - 1] \in Thread
          /\ pc[q[i]] \in {"link", "spin"} /\ waiting[q[i]] /\ pred[q[i]] = q[i - 1]
          /\ next[q[i - 1]] = IF pc[q[i]] = "spin" THEN q[i] ELSE NoThread
      BY <1>2 DEF Shape, Linked
    <3>1. CASE i = k
      BY <1>1, <1>3, <1>5, <1>6, <3>0, <3>1
    <3>2. CASE i # k
      <4>. q[i] # t /\ q[i - 1] # q[k - 1]
        BY <1>2, <1>3, <1>8, <3>0, <3>2
      <4>. QED
        BY <1>1, <1>5, <1>6, <3>0
    <3>. QED
      BY <3>1, <3>2
  <2>. QED
    BY <2>1, <2>2, <2>3 DEF Linked
<1>. QED
  BY <1>7, <1>9, <1>10, <1>11 DEF Stays, Shape

LEMMA OnwardKeeps ==
  ASSUME TypeOK, NEW q \in Seq(Thread), Shape(q), NEW t \in Thread,
         SpinOnWaiting(t) \/ BeginRelease(t) \/ SpinOnNext(t)
  PROVE  TypeOK' /\ Stays(q)
<1>1. UNCHANGED <<tail, next, waiting, pred>>
  BY DEF SpinOnWaiting, BeginRelease, SpinOnNext
<1>2. PICK p \in {"crit", "swap", "hand"} : Go(t, p) /\ (p = "hand" => next[t] # NoThread)
  BY DEF SpinOnWaiting, BeginRelease, SpinOnNext
<1>3. HasLock(t) \/ (pc[t] = "spin" /\ ~waiting[t])
  BY DEF SpinOnWaiting, BeginRelease, SpinOnNext, HasLock
<1>4. p \in PC
  BY DEF PC
<1>5. TypeOK'
  BY <1>1, <1>2, <1>4 DEF TypeOK, Go
<1>. QED
  BY <1>1, <1>2, <1>3, <1>4, <1>5, Moves DEF Stays

\* The swap finds its own node last: it was the only one.  Otherwise somebody is behind it.
LEMMA UncontendedKeeps ==
  ASSUME TypeOK, NEW q \in Seq(Thread), Shape(q), NEW t \in Thread, Uncontended(t)
  PROVE  TypeOK' /\ (Stays(q) \/ Left(q, t))
<1>1. pc[t] = "swap" /\ UNCHANGED <<next, waiting, pred>>
  BY DEF Uncontended
<1>2. q # <<>> /\ q[1] = t
  BY <1>1, IsFirst DEF HasLock
<1>3. Len(q) \in Nat /\ Len(q) > 0 /\ \A i \in 1..Len(q) : q[i] \in Thread
  BY <1>2, LenIs
<1>4. tail = q[Len(q)]
  BY <1>2 DEF Shape, Linked
<1>5. CASE tail = t
  <2>1. Len(q) = 1
    <3>. 1 \in 1..Len(q) /\ Len(q) \in 1..Len(q) /\ q[1] = q[Len(q)]
      BY <1>2, <1>3, <1>4, <1>5
    <3>. QED
      BY DEF Shape, Threads
  <2>2. tail' = NoThread /\ pc' \in [Thread -> PC] /\ pc'[t] = "idle" /\ \A u \in Thread \ {t} : pc'[u] = pc[u]
    BY <1>5 DEF Uncontended, TypeOK, Go, PC
  <2>3. TypeOK'
    BY <1>1, <2>2 DEF TypeOK, Node
  <2>4. Tail(q) = <<>>
    BY <1>2, <2>1, TailIs
  <2>5. \A u \in Thread : pc'[u] = "idle"
    BY <1>2, <2>1, <2>2 DEF Shape, Threads
  <2>6. Shape(<<>>)'
    BY <2>2, <2>5 DEF Shape, Threads, First, Linked
  <2>. QED
    BY <1>2, <2>3, <2>4, <2>6 DEF Left
<1>6. CASE tail # t
  <2>1. Len(q) > 1
    BY <1>2, <1>3, <1>4, <1>6
  <2>2. tail' = tail /\ Go(t, "await") /\ "await" \in PC
    BY <1>6 DEF Uncontended, PC
  <2>3. TypeOK'
    BY <1>1, <2>2 DEF TypeOK, Go
  <2>. QED
    BY <1>1, <2>1, <2>2, <2>3, Moves DEF Stays, HasLock
<1>. QED
  BY <1>5, <1>6

LEMMA HandOverKeeps ==
  ASSUME TypeOK, NEW q \in Seq(Thread), Shape(q), NEW t \in Thread, HandOver(t)
  PROVE  TypeOK' /\ Left(q, t)
<1>. DEFINE r == Tail(q)
<1>1. /\ pc[t] = "hand" /\ waiting' = [waiting EXCEPT ![next[t]] = FALSE] /\ Go(t, "idle")
      /\ UNCHANGED <<tail, next, pred>>
  BY DEF HandOver
<1>2. q # <<>> /\ q[1] = t
  BY <1>1, IsFirst DEF HasLock
<1>3. Len(q) \in Nat /\ Len(q) > 1 /\ \A i \in 1..Len(q) : q[i] \in Thread
  BY <1>1, <1>2, LenIs DEF Shape, First
<1>4. next[t] = q[2] /\ pc[q[2]] = "spin" /\ waiting[q[2]]
  BY <1>1, <1>2, <1>3 DEF Shape, First, Linked
<1>5. \A i \in 1..Len(q) : (q[i] = t => i = 1) /\ (q[i] = q[2] => i = 2)
  BY <1>2, <1>3 DEF Shape, Threads
<1>6. q[2] \in Thread /\ waiting \in [Thread -> BOOLEAN]
  BY <1>3 DEF TypeOK
<1>7. /\ pc' \in [Thread -> PC] /\ pc'[t] = "idle" /\ \A u \in Thread \ {t} : pc'[u] = pc[u]
  BY <1>1 DEF TypeOK, Go, PC
<1>8. waiting' = [waiting EXCEPT ![q[2]] = FALSE]
  BY <1>1, <1>4
<1>9. /\ pc' \in [Thread -> PC] /\ pc'[t] = "idle" /\ \A u \in Thread \ {t} : pc'[u] = pc[u]
      /\ waiting' \in [Thread -> BOOLEAN] /\ waiting'[q[2]] = FALSE
      /\ \A u \in Thread \ {q[2]} : waiting'[u] = waiting[u]
  BY <1>6, <1>7, <1>8
<1>10. TypeOK'
  BY <1>1, <1>9 DEF TypeOK
<1>11. /\ r \in Seq(Thread) /\ r # <<>> /\ Len(r) = Len(q) - 1
      /\ \A i \in 1..(Len(q) - 1) : r[i] = q[i + 1]
  BY <1>2, <1>3, TailIs
<1>. HIDE DEF r
<1>12. Threads(r)'
  <2>1. \A i, j \in 1..Len(r) : r[i] = r[j] => i = j
    <3>. TAKE i, j \in 1..Len(r)
    <3>. HAVE r[i] = r[j]
    <3>. i + 1 \in 1..Len(q) /\ j + 1 \in 1..Len(q) /\ q[i + 1] = q[j + 1]
      BY <1>3, <1>11
    <3>. i + 1 = j + 1
      BY DEF Shape, Threads
    <3>. QED
      BY <1>3, <1>11
  <2>2. ASSUME NEW u \in Thread \ {t}
        PROVE  (\E i \in 1..Len(r) : r[i] = u) <=> \E i \in 1..Len(q) : q[i] = u
    <3>1. ASSUME NEW i \in 1..Len(r), r[i] = u PROVE \E j \in 1..Len(q) : q[j] = u
      <4>. i + 1 \in 1..Len(q) /\ q[i + 1] = u
        BY <1>3, <1>11, <3>1
      <4>. QED
        OBVIOUS
    <3>2. ASSUME NEW i \in 1..Len(q), q[i] = u PROVE \E j \in 1..Len(r) : r[j] = u
      <4>1. i # 1
        BY <1>2, <3>2
      <4>2. i - 1 \in 1..Len(r) /\ (i - 1) + 1 = i
        BY <1>3, <1>11, <4>1
      <4>. r[i - 1] = u
        BY <1>11, <3>2, <4>2
      <4>. QED
        BY <4>2
    <3>. QED
      BY <3>1, <3>2
  <2>3. \A i \in 1..Len(r) : r[i] # t
    <3>. TAKE i \in 1..Len(r)
    <3>. i + 1 \in 1..Len(q) /\ i + 1 # 1 /\ r[i] = q[i + 1]
      BY <1>3, <1>11
    <3>. QED
      BY <1>5
  <2>. QED
    BY <1>9, <2>1, <2>2, <2>3 DEF Shape, Threads
<1>13. r[1] = q[2] /\ q[2] \in Thread \ {t} /\ r[Len(r)] = q[Len(q)]
  <2>. 2 \in 1..Len(q) /\ q[2] # t /\ Len(q) - 1 \in 1..(Len(q) - 1)
    BY <1>3, <1>5
  <2>. QED
    BY <1>3, <1>11
<1>14. First(r)'
  BY <1>4, <1>9, <1>13 DEF First, HasLock
<1>15. Linked(r)'
  <2>1. tail' = r[Len(r)] /\ next'[r[Len(r)]] = NoThread
    BY <1>1, <1>2, <1>13 DEF Shape, Linked
  <2>2. ASSUME NEW i \in 2..Len(r)
        PROVE  /\ pc'[r[i]] \in {"link", "spin"} /\ waiting'[r[i]] /\ pred'[r[i]] = r[i - 1]
               /\ next'[r[i - 1]] = IF pc'[r[i]] = "spin" THEN r[i] ELSE NoThread
    <3>1. /\ i + 1 \in 2..Len(q) /\ i + 1 \in 1..Len(q) /\ i + 1 # 1 /\ i + 1 # 2
          /\ i \in 1..(Len(q) - 1) /\ i - 1 \in 1..(Len(q) - 1) /\ (i - 1) + 1 = i /\ (i + 1) - 1 = i
      BY <1>3, <1>11
    <3>2. r[i] = q[i + 1] /\ r[i - 1] = q[i]
      BY <1>11, <3>1
    <3>3. q[i + 1] \in Thread \ {t} /\ q[i + 1] # q[2]
      BY <1>3, <1>5, <3>1
    <3>4. /\ pc[q[i + 1]] \in {"link", "spin"} /\ waiting[q[i + 1]] /\ pred[q[i + 1]] = q[i]
          /\ next[q[i]] = IF pc[q[i + 1]] = "spin" THEN q[i + 1] ELSE NoThread
      BY <3>1 DEF Shape, Linked
    <3>. QED
      BY <1>1, <1>9, <3>2, <3>3, <3>4
  <2>. QED
    BY <1>11, <2>1, <2>2 DEF Linked
<1>. QED
  BY <1>2, <1>10, <1>12, <1>14, <1>15 DEF Left, Shape, r

\* Every step leaves the line as it is, lets a thread join it at its end, or its first leave.
LEMMA LineMoves ==
  ASSUME TypeOK, NEW q \in Seq(Thread), Shape(q), Next
  PROVE  TypeOK' /\ (Stays(q) \/ \E t \in Thread : Joined(q, t) \/ Left(q, t))
<1>1. PICK t \in Thread : Attempt(t) \/ BeginAcquire(t) \/ Progress(t)
  BY DEF Next
<1>. QED
  BY <1>1, AttemptKeeps, BeginKeeps, LinkKeeps, OnwardKeeps, UncontendedKeeps, HandOverKeeps
     DEF Progress

LEMMA McsInit == Init => LineInv
<1>. SUFFICES ASSUME Init PROVE LineInv
  OBVIOUS
<1>1. TypeOK
  BY DEF Init, TypeOK, Node, PC
<1>2. Shape(<<>>)
  BY DEF Init, Shape, Threads, First, Linked
<1>3. <<>> \in Seq(Thread)
  OBVIOUS
<1>. QED
  BY <1>1, <1>2, <1>3 DEF LineInv

LEMMA McsStep == LineInv /\ [Next]_vars => LineInv'
<1>. SUFFICES ASSUME LineInv, [Next]_vars PROVE LineInv'
  OBVIOUS
<1>1. PICK q \in Seq(Thread) : TypeOK /\ Shape(q)
  BY DEF LineInv
<1>2. CASE Next
  <2>1. TypeOK' /\ (Stays(q) \/ \E t \in Thread : Joined(q, t) \/ Left(q, t))
    BY <1>1, <1>2, LineMoves
  <2>2. \E r \in Seq(Thread) : Shape(r)'
    BY <1>1, <2>1, AppendIs, TailIs DEF Stays, Joined, Left
  <2>. QED
    BY <2>1, <2>2 DEF LineInv
<1>3. CASE UNCHANGED vars
  <2>1. Shape(q)' /\ TypeOK'
    BY <1>1, <1>3 DEF vars, TypeOK, Shape, Threads, First, Linked, HasLock
  <2>. QED
    BY <2>1 DEF LineInv
<1>. QED
  BY <1>2, <1>3

LEMMA McsSafe == LineInv => TypeOK /\ Exclusion /\ NodesLive
<1>. SUFFICES ASSUME LineInv PROVE TypeOK /\ Exclusion /\ NodesLive
  OBVIOUS
<1>1. PICK q \in Seq(Thread) : TypeOK /\ Shape(q)
  BY DEF LineInv
<1>2. Exclusion
  BY <1>1, IsFirst DEF Exclusion
<1>3. ASSUME NEW t \in Thread, pc[t] = "link" PROVE pred[t] # NoThread /\ pc[pred[t]] # "idle"
  <2>1. PICK i \in 2..Len(q) : q[i] = t
    BY <1>1, <1>3, IsLater
  <2>2. i - 1 \in 1..Len(q) /\ q[i - 1] \in Thread /\ pred[t] = q[i - 1]
    BY <1>1, <2>1, LenIs DEF Shape, Linked
  <2>. QED
    BY <1>1, <2>2, NoThreadAssumption DEF Shape, Threads
<1>4. ASSUME NEW t \in Thread, pc[t] = "hand" PROVE pc[next[t]] = "spin" /\ waiting[next[t]]
  <2>1. q # <<>> /\ q[1] = t
    BY <1>1, <1>4, IsFirst DEF HasLock
  <2>2. Len(q) \in Nat /\ Len(q) > 1
    BY <1>1, <1>4, <2>1, LenIs DEF Shape, First
  <2>3. next[t] = q[2] /\ pc[q[2]] = "spin" /\ waiting[q[2]]
    BY <1>1, <1>4, <2>1, <2>2 DEF Shape, First, Linked
  <2>. QED
    BY <2>3
<1>. QED
  BY <1>1, <1>2, <1>3, <1>4 DEF NodesLive

LEMMA McsInvariant == Spec => []LineInv
  BY McsInit, McsStep, PTL DEF Spec

\* For any number of threads, one at most has the lock, from its acquire to the last step of its
\* release.
THEOREM McsExclusion == Spec => []Exclusion
  BY McsInvariant, McsSafe, PTL

\* For any number of threads, whoever is about to write into the node of another finds the call
\* that owns it in progress, however long it takes between its swap of _tail and that write.
THEOREM McsNodesLive == Spec => []NodesLive
  BY McsInvariant, McsSafe, PTL

-----------------------------------------------------------------------------
(***************************************************************************)
(* The line that is read off the nodes is that line.                       *)
(***************************************************************************)
\* Induction on the natural numbers, for a set.
LEMMA NatSetInduction ==
  ASSUME NEW S, 0 \in S, \A n \in Nat : n \in S => n + 1 \in S
  PROVE  Nat \subseteq S
<1>. DEFINE T == Nat \ S
<1>. SUFFICES ASSUME T # {} PROVE FALSE
  OBVIOUS
<1>1. T \subseteq Nat
  OBVIOUS
<1>. HIDE DEF T
<1>2. PICK x \in T : \A y \in T : ~(<<y, x>> \in OpToRel(<, Nat))
  BY <1>1, NatLessThanWellFounded, WFMin
<1>3. x \in Nat /\ x \notin S
  BY DEF T
<1>4. x # 0
  BY <1>3
<1>5. x - 1 \in Nat /\ (x - 1) + 1 = x
  BY <1>3, <1>4
<1>6. x - 1 \notin S
  BY <1>3, <1>5
<1>7. x - 1 \in T /\ <<x - 1, x>> \in OpToRel(<, Nat)
  BY <1>3, <1>5, <1>6 DEF T, OpToRel
<1>. QED
  BY <1>2, <1>7

\* A chain of predecessors that ends in last and starts with the one that does not wait.
ChainOf(q, last, before, W) ==
  /\ q[Len(q)] = last /\ q[1] \notin W
  /\ \A i \in 2..Len(q) : q[i] \in W /\ before[q[i]] = q[i - 1]

\* Two chains agree from the end, as far as both go.
LEMMA Agree ==
  ASSUME NEW last, NEW before, NEW W,
         NEW q \in Seq(Thread), q # <<>>, ChainOf(q, last, before, W),
         NEW r \in Seq(Thread), r # <<>>, ChainOf(r, last, before, W)
  PROVE  \A i \in Nat : i < Len(q) /\ i < Len(r) => q[Len(q) - i] = r[Len(r) - i]
<1>. DEFINE S == {i \in Nat : i < Len(q) /\ i < Len(r) => q[Len(q) - i] = r[Len(r) - i]}
<1>1. Len(q) \in Nat /\ Len(r) \in Nat /\ Len(q) > 0 /\ Len(r) > 0
  BY LenIs
<1>2. 0 \in S
  BY <1>1 DEF ChainOf
<1>3. ASSUME NEW i \in Nat, i \in S PROVE i + 1 \in S
  <2>. SUFFICES ASSUME i + 1 < Len(q), i + 1 < Len(r)
                PROVE  q[Len(q) - (i + 1)] = r[Len(r) - (i + 1)]
    OBVIOUS
  <2>1. q[Len(q) - i] = r[Len(r) - i]
    BY <1>1, <1>3
  <2>2. /\ Len(q) - i \in 2..Len(q) /\ (Len(q) - i) - 1 = Len(q) - (i + 1)
        /\ Len(r) - i \in 2..Len(r) /\ (Len(r) - i) - 1 = Len(r) - (i + 1)
    BY <1>1
  <2>. QED
    BY <2>1, <2>2 DEF ChainOf
<1>. HIDE DEF S
<1>4. Nat \subseteq S
  BY <1>2, <1>3, NatSetInduction
<1>. QED
  BY <1>4 DEF S

LEMMA NotShorter ==
  ASSUME NEW last, NEW before, NEW W,
         NEW q \in Seq(Thread), q # <<>>, ChainOf(q, last, before, W),
         NEW r \in Seq(Thread), r # <<>>, ChainOf(r, last, before, W)
  PROVE  ~(Len(q) < Len(r))
<1>. SUFFICES ASSUME Len(q) < Len(r) PROVE FALSE
  OBVIOUS
<1>1. Len(q) \in Nat /\ Len(r) \in Nat /\ Len(q) > 0
  BY LenIs
<1>. DEFINE i == Len(q) - 1
<1>2. i \in Nat /\ i < Len(q) /\ i < Len(r) /\ Len(q) - i = 1 /\ Len(r) - i \in 2..Len(r)
  BY <1>1
<1>. HIDE DEF i
<1>3. q[1] = r[Len(r) - i]
  BY <1>2, Agree
<1>. QED
  BY <1>2, <1>3 DEF ChainOf

LEMMA OneChain ==
  ASSUME NEW last, NEW before, NEW W,
         NEW q \in Seq(Thread), q # <<>>, ChainOf(q, last, before, W),
         NEW r \in Seq(Thread), r # <<>>, ChainOf(r, last, before, W)
  PROVE  q = r
<1>1. Len(q) \in Nat /\ Len(r) \in Nat
  BY LenIs
<1>2. Len(q) = Len(r)
  BY <1>1, NotShorter
<1>3. ASSUME NEW j \in 1..Len(q) PROVE q[j] = r[j]
  <2>. DEFINE i == Len(q) - j
  <2>1. i \in Nat /\ i < Len(q) /\ Len(q) - i = j
    BY <1>1
  <2>. HIDE DEF i
  <2>. QED
    BY <1>2, <2>1, Agree
<1>. QED
  BY <1>1, <1>2, <1>3, SeqEqual

\* The line is no longer than there are threads.
LEMMA LineFits ==
  ASSUME IsFiniteSet(Thread), NEW q \in Seq(Thread), Threads(q)
  PROVE  Len(q) <= Cardinality(Thread)
<1>1. Len(q) \in Nat /\ q \in [1..Len(q) -> Thread]
  BY LenIs
<1>2. IsFiniteSet(1..Len(q)) /\ Cardinality(1..Len(q)) = Len(q)
  BY <1>1, FS_Interval
<1>3. Cardinality(Thread) \in Nat
  BY FS_CardinalityType
<1>4. ~(Cardinality(Thread) < Cardinality(1..Len(q)))
  BY <1>1, <1>2, FS_PigeonHole DEF Threads
<1>. QED
  BY <1>1, <1>2, <1>3, <1>4

LineTold == TypeOK => \A q \in Seq(Thread) : Shape(q) => Line = q

LEMMA LineIs ==
  ASSUME IsFiniteSet(Thread)
  PROVE  LineTold
<1>. SUFFICES ASSUME TypeOK, NEW q \in Seq(Thread), Shape(q) PROVE Line = q
  BY DEF LineTold
<1>1. Len(q) \in Nat /\ (q = <<>> <=> Len(q) = 0) /\ \A i \in 1..Len(q) : q[i] \in Thread
  BY LenIs
<1>2. CASE q = <<>>
  BY <1>2 DEF Shape, Linked, Line
<1>3. CASE q # <<>>
  <2>1. tail = q[Len(q)] /\ tail # NoThread
    BY <1>1, <1>3, NoThreadAssumption DEF Shape, Linked
  <2>2. Chain(q)
    <3>1. ~Waits(q[1])
      BY <1>1, <1>3 DEF Shape, First, Waits, HasLock
    <3>. QED
      BY <2>1, <3>1 DEF Chain, Shape, Linked, Waits
  <2>. DEFINE C == UNION {[1..n -> Thread] : n \in 1..Cardinality(Thread)}
              W == {t \in Thread : Waits(t)}
  <2>3. q \in C
    <3>1. Len(q) \in 1..Cardinality(Thread)
      BY <1>1, <1>3, LineFits, FS_CardinalityType DEF Shape
    <3>2. q \in [1..Len(q) -> Thread]
      BY <1>1
    <3>. QED
      BY <3>1, <3>2
  <2>4. C \subseteq Seq(Thread) /\ <<>> \notin C
    <3>. SUFFICES ASSUME NEW n \in 1..Cardinality(Thread), NEW r \in [1..n -> Thread]
                  PROVE  r \in Seq(Thread) /\ r # <<>>
      OBVIOUS
    <3>1. n \in Nat /\ n > 0
      BY FS_CardinalityType
    <3>2. r \in Seq(Thread) /\ Len(r) = n
      BY <3>1
    <3>. QED
      BY <3>1, <3>2, LenIs
  <2>5. \A r \in Seq(Thread) : r # <<>> /\ Chain(r) => ChainOf(r, tail, pred, W)
    <3>. TAKE r \in Seq(Thread)
    <3>. HAVE r # <<>> /\ Chain(r)
    <3>1. Len(r) \in Nat /\ \A i \in 1..Len(r) : r[i] \in Thread
      BY LenIs
    <3>2. \A i \in 2..Len(r) : r[i] \in W /\ pred[r[i]] = r[i - 1]
      BY <3>1 DEF Chain
    <3>. QED
      BY <3>2 DEF Chain, ChainOf
  <2>6. Line = CHOOSE r \in C : Chain(r)
    BY <2>1 DEF Line
  <2>. HIDE DEF C, W
  <2>7. Line \in C /\ Chain(Line)
    BY <2>2, <2>3, <2>6
  <2>. QED
    BY <1>3, <2>2, <2>4, <2>5, <2>7, OneChain
<1>. QED
  BY <1>2, <1>3

LEMMA McsMaps ==
  LineInv /\ LineTold /\ LineTold' /\ [Next]_vars => [Queue!Next]_Line
<1>. SUFFICES ASSUME LineInv, LineTold, LineTold', [Next]_vars PROVE [Queue!Next]_Line
  OBVIOUS
<1>1. PICK q \in Seq(Thread) : TypeOK /\ Shape(q)
  BY DEF LineInv
<1>2. Line = q
  BY <1>1 DEF LineTold
<1>3. CASE Next
  <2>1. TypeOK' /\ (Stays(q) \/ \E t \in Thread : Joined(q, t) \/ Left(q, t))
    BY <1>1, <1>3, LineMoves
  <2>2. \A r \in Seq(Thread) : Shape(r)' => Line' = r
    BY <2>1 DEF LineTold
  <2>3. CASE Stays(q)
    BY <1>2, <2>2, <2>3 DEF Stays
  <2>4. ASSUME NEW t \in Thread, Joined(q, t) PROVE Queue!Join(t)
    <3>1. Line' = Append(q, t)
      BY <2>2, <2>4, AppendIs DEF Joined
    <3>2. \A i \in DOMAIN q : q[i] # t
      BY <2>4 DEF Joined
    <3>. QED
      BY <1>2, <3>1, <3>2 DEF Queue!Join, Queue!InLine, Queue!ToSet
  <2>5. ASSUME NEW t \in Thread, Left(q, t) PROVE Queue!Leave(t)
    <3>1. q # <<>> /\ Head(q) = t /\ Line' = Tail(q)
      BY <2>2, <2>5, TailIs DEF Left
    <3>. QED
      BY <1>2, <3>1 DEF Queue!Leave, Queue!Owns
  <2>. QED
    BY <2>1, <2>3, <2>4, <2>5 DEF Queue!Next
<1>4. CASE UNCHANGED vars
  BY <1>4 DEF vars, Line, Chain, Waits
<1>. QED
  BY <1>3, <1>4

\* For any number of threads the nodes implement a line: the swap of _tail joins it, and only its
\* first leaves it, in the order of arrival.
THEOREM McsIsALine ==
  ASSUME IsFiniteSet(Thread)
  PROVE  Spec => ImplementsLine
<1>1. Init => Queue!Init
  BY DEF Init, Queue!Init, Line
<1>2. LineTold
  BY LineIs
<1>3. LineInv /\ LineTold /\ LineTold' /\ [Next]_vars => [Queue!Next]_Line
  BY McsMaps
<1>. QED
  BY <1>1, <1>2, <1>3, McsInvariant, PTL DEF Spec, ImplementsLine, Queue!Spec
=============================================================================
