--------------------------- MODULE LogSpaceProofs ---------------------------
(***************************************************************************)
(* The promises of the log reservations and of the checkpoints' account,   *)
(* for any number of transactions and any sizes: a rollback is paid for,   *)
(* who sleeps is in line, who sleeps without end is told, no byte is lost  *)
(* from the books, and a checkpoint that begins is paid for.               *)
EXTENDS LogSpace, ChkptSpace, FiniteSetTheorems, WellFoundedInduction, TLAPS

\* The tries that are left play no part.
NCall ==
  [want : Nat, need : Nat, tries : Int, forever : BOOLEAN, signalled : BOOLEAN]

\* What a sequence holds.
Listed(s) == {s[i] : i \in DOMAIN s}

TypeOK ==
  /\ avail \in Nat
  /\ flag \in BOOLEAN
  /\ line \in Seq(Entry)
  /\ lock \in Caller \union {NoThread}
  /\ turn \in Xct \union {NoThread}
  /\ ready \in [Xct -> Nat] /\ rsvd \in [Xct -> Nat]
  /\ used \in [Xct -> Nat] /\ undo \in [Xct -> Nat]
  /\ old \in Nat
  /\ pc \in [Caller -> PC]
  /\ call \in [Xct -> NCall]
  /\ rel \in [Caller -> Nat]
  /\ leaked \in Nat /\ dropped \in Nat

(***************************************************************************)
(* Who has the turn is in the emergency part of get_logbuf, or gives back  *)
(* what it got there, and asks for what the record costs; so that it can   *)
(* pay when it is served.                                                  *)
(***************************************************************************)
InEmergency == {"try", "wait", "asleep", "back", "last", "giveup"}

TurnInv ==
  /\ \A x \in Xct : call[x].need <= call[x].want
  /\ \A x \in Xct : turn = x => pc[x] \in InEmergency \union {"read", "serve", "add"}
  /\ \A x \in Xct : pc[x] \in {"try", "last", "giveup"} => turn = x
  /\ \A x \in Xct : pc[x] = "queue" \/ (turn = x /\ pc[x] \in InEmergency) =>
       call[x].want = MIN_BYTES_READY /\ ~call[x].forever

PaidInv ==
  \A x \in Xct :
    /\ used[x] = 0 => undo[x] = 0 /\ rsvd[x] = 0
    /\ used[x] > 0 => rsvd[x] >= UNDO_FUDGE_FACTOR(undo[x]) + MIN_BYTES_RSVD

(***************************************************************************)
(* An entry points at the present wait only while its call sleeps, and at  *)
(* an earlier wait only while the call is in progress.                     *)
(***************************************************************************)
Current(x) == pc[x] = "back" \/ (turn = x /\ pc[x] \in InEmergency)

LineInv ==
  /\ \A e \in Listed(line) : e.at = "now" => pc[e.who] = "asleep"
  /\ \A e \in Listed(line) : e.at = "before" => Current(e.who)
  /\ \A x \in Xct : pc[x] = "asleep" /\ call[x].need > 0 =>
       [who |-> x, at |-> "now"] \in Listed(line)
  /\ ForeverSignalled

IInv == TypeOK /\ TurnInv /\ PaidInv /\ LineInv

-----------------------------------------------------------------------------
(***************************************************************************)
(* Sequences.                                                              *)
(***************************************************************************)
LEMMA ListedAppend ==
  ASSUME NEW s \in Seq(Entry), NEW e \in Entry
  PROVE  Append(s, e) \in Seq(Entry) /\ Listed(Append(s, e)) = Listed(s) \union {e}
<1>1. /\ Append(s, e) \in Seq(Entry)
      /\ DOMAIN Append(s, e) = 1..(Len(s) + 1)
      /\ DOMAIN s = 1..Len(s)
      /\ \A i \in 1..Len(s) : Append(s, e)[i] = s[i]
      /\ Append(s, e)[Len(s) + 1] = e
  OBVIOUS
<1>2. Len(s) + 1 \in 1..(Len(s) + 1) /\ 1..Len(s) \subseteq 1..(Len(s) + 1)
  OBVIOUS
<1>3. \A i \in 1..(Len(s) + 1) : i \in 1..Len(s) \/ i = Len(s) + 1
  OBVIOUS
<1>. QED
  BY <1>1, <1>2, <1>3, Zenon DEF Listed

LEMMA ListedTail ==
  ASSUME NEW s \in Seq(Entry), s # <<>>
  PROVE  /\ Tail(s) \in Seq(Entry) /\ Head(s) \in Entry
         /\ Head(s) \in Listed(s)
         /\ Listed(Tail(s)) \subseteq Listed(s)
         /\ Listed(s) \subseteq Listed(Tail(s)) \union {Head(s)}
<1>1. /\ Tail(s) \in Seq(Entry) /\ Head(s) = s[1] /\ Head(s) \in Entry
      /\ DOMAIN s = 1..Len(s) /\ DOMAIN Tail(s) = 1..(Len(s) - 1)
      /\ \A i \in 1..(Len(s) - 1) : Tail(s)[i] = s[i + 1] /\ i + 1 \in 1..Len(s)
      /\ 1 \in 1..Len(s)
  OBVIOUS
<1>2. \A i \in 1..Len(s) : i = 1 \/ (i - 1 \in 1..(Len(s) - 1) /\ (i - 1) + 1 = i)
  OBVIOUS
<1>3. Listed(s) \subseteq Listed(Tail(s)) \union {Head(s)}
  <2>. SUFFICES ASSUME NEW i \in 1..Len(s), i # 1 PROVE s[i] \in Listed(Tail(s))
    BY <1>1 DEF Listed
  <2>1. i - 1 \in 1..(Len(s) - 1) /\ Tail(s)[i - 1] = s[i]
    BY <1>1, <1>2
  <2>. QED
    BY <2>1, <1>1 DEF Listed
<1>. QED
  BY <1>1, <1>3 DEF Listed

\* An entry after those of x at one of the places have been made to point there.
Moved(e, x, places, there) ==
  IF e.who = x /\ e.at \in places THEN [e EXCEPT !.at = there] ELSE e

MovedLine(s, x, places, there) == [i \in DOMAIN s |-> Moved(s[i], x, places, there)]

LEMMA ListedMoved ==
  ASSUME NEW s \in Seq(Entry), NEW x, NEW places, NEW there \in {"now", "before", "gone", "null"}
  PROVE  /\ MovedLine(s, x, places, there) \in Seq(Entry)
         /\ Listed(MovedLine(s, x, places, there)) = {Moved(e, x, places, there) : e \in Listed(s)}
<1>. DEFINE t == MovedLine(s, x, places, there)
<1>1. DOMAIN s = 1..Len(s) /\ Len(s) \in Nat /\ \A i \in 1..Len(s) : s[i] \in Entry
  OBVIOUS
<1>2. \A e \in Entry : [e EXCEPT !.at = there] \in Entry
  BY DEF Entry
<1>3. DOMAIN t = 1..Len(s) /\ \A i \in 1..Len(s) : t[i] = Moved(s[i], x, places, there)
  BY <1>1 DEF MovedLine
<1>4. \A i \in 1..Len(s) : t[i] \in Entry
  BY <1>1, <1>2, <1>3 DEF Moved
<1>5. t = [i \in 1..Len(s) |-> t[i]]
  BY <1>1 DEF MovedLine
<1>6. t \in Seq(Entry)
  BY <1>1, <1>4, <1>5
<1>. QED
  BY <1>1, <1>3, <1>6, Zenon DEF Listed

LEMMA GreatestMember ==
  ASSUME NEW n \in Nat, NEW T \in SUBSET (1..n), T # {}
  PROVE  Max(T) \in T /\ \A k \in T : k <= Max(T)
<1>. DEFINE R == OpToRel(<, Nat)
            U == {n - k : k \in T}
<1>1. \A a, b \in Nat : a < b => <<a, b>> \in R
  BY DEF OpToRel
<1>2. IsWellFoundedOn(R, Nat)
  BY NatLessThanWellFounded
<1>3. U \subseteq Nat /\ U # {}
  <2>1. \A k \in T : n - k \in Nat
    OBVIOUS
  <2>2. PICK k \in T : TRUE
    OBVIOUS
  <2>3. n - k \in U
    OBVIOUS
  <2>. QED
    BY <2>1, <2>3
<1>. HIDE DEF R
<1>4. PICK u \in U : \A v \in U : ~(<<v, u>> \in R)
  BY <1>2, <1>3, WFMin
<1>5. PICK m \in T : u = n - m
  OBVIOUS
<1>6. ASSUME NEW k \in T
      PROVE  m >= k
  <2>1. n - k \in U /\ n - k \in Nat /\ u \in Nat
    BY <1>3
  <2>2. ~(n - k < u)
    BY <2>1, <1>1, <1>4, Zenon
  <2>. QED
    BY <2>1, <2>2, <1>5
<1>7. \E y \in T : \A k \in T : y >= k
  BY <1>6
<1>8. Max(T) \in T /\ \A k \in T : Max(T) >= k
  BY <1>7, Zenon DEF Max
<1>. QED
  BY <1>8

LEMMA ListedTrim ==
  ASSUME NEW s \in Seq(Entry)
  PROVE  /\ Trim(s) \in Seq(Entry)
         /\ Listed(Trim(s)) \subseteq Listed(s)
         /\ \A e \in Listed(s) : e.at # "null" => e \in Listed(Trim(s))
<1>. DEFINE kept == {i \in DOMAIN s : s[i].at # "null"}
            n == IF kept = {} THEN 0 ELSE Max(kept)
<1>1. kept \in SUBSET (1..Len(s)) /\ DOMAIN s = 1..Len(s) /\ Len(s) \in Nat
  OBVIOUS
<1>2. n \in 0..Len(s) /\ \A i \in kept : i <= n
  <2>1. CASE kept = {}
    BY <2>1, <1>1
  <2>2. CASE kept # {}
    <3>1. Max(kept) \in kept /\ \A i \in kept : i <= Max(kept)
      BY <2>2, <1>1, GreatestMember
    <3>2. n = Max(kept)
      BY <2>2
    <3>3. Max(kept) \in 1..Len(s)
      BY <3>1, <1>1, Zenon
    <3>4. n \in 0..Len(s)
      BY <3>2, <3>3, <1>1
    <3>. QED
      BY <3>1, <3>2, <3>4, Zenon
  <2>. QED
    BY <2>1, <2>2
<1>3. Trim(s) = SubSeq(s, 1, n)
  BY DEF Trim
<1>. HIDE DEF n
<1>4. /\ Trim(s) \in Seq(Entry)
      /\ DOMAIN Trim(s) = 1..n
      /\ \A i \in 1..n : Trim(s)[i] = s[i]
  BY <1>2, <1>3
<1>5. 1..n \subseteq 1..Len(s) /\ \A i \in kept : i \in 1..n
  BY <1>1, <1>2
<1>. QED
  BY <1>1, <1>4, <1>5 DEF Listed

-----------------------------------------------------------------------------
(***************************************************************************)
(* What the steps share.                                                   *)
(***************************************************************************)
LEMMA Sizes ==
  /\ MIN_BYTES_READY = 5 /\ MIN_BYTES_RSVD = 1
  /\ \A n \in Nat : UNDO_FUDGE_FACTOR(n) = 3 * n /\ UNDO_FUDGE_FACTOR(n) \in Nat
  BY DEF MIN_BYTES_READY, MIN_BYTES_RSVD, UNDO_FUDGE_FACTOR

\* A record is paid from r bytes, and its undo and the end with it.
LEMMA InsertPays ==
  ASSUME TypeOK, PaidInv, NEW x \in Xct, NEW r \in Nat, r >= MIN_BYTES_READY, Insert(x, r)
  PROVE  /\ ready' \in [Xct -> Nat] /\ rsvd' \in [Xct -> Nat]
         /\ used' \in [Xct -> Nat] /\ undo' \in [Xct -> Nat] /\ old' \in Nat
         /\ PaidInv'
<1>. DEFINE topUp == IF rsvd[x] < MIN_BYTES_RSVD THEN MIN_BYTES_RSVD ELSE 0
<1>1. /\ ready' = [ready EXCEPT ![x] = r - topUp - 1 - UNDO_FUDGE_FACTOR(1)]
      /\ rsvd' = [rsvd EXCEPT ![x] = rsvd[x] + (topUp + UNDO_FUDGE_FACTOR(1))]
      /\ used' = [used EXCEPT ![x] = used[x] + 1]
      /\ undo' = [undo EXCEPT ![x] = undo[x] + 1]
      /\ old' = old
  BY DEF Insert, Plus
<1>2. /\ topUp \in 0..1 /\ (rsvd[x] = 0 => topUp = 1)
      /\ UNDO_FUDGE_FACTOR(1) = 3 /\ r >= 5
  BY Sizes DEF TypeOK
<1>. HIDE DEF topUp
<1>3. /\ ready' \in [Xct -> Nat] /\ rsvd' \in [Xct -> Nat]
      /\ used' \in [Xct -> Nat] /\ undo' \in [Xct -> Nat] /\ old' \in Nat
  <2>1. r - topUp - 1 - UNDO_FUDGE_FACTOR(1) \in Nat
    BY <1>2
  <2>2. rsvd[x] + (topUp + UNDO_FUDGE_FACTOR(1)) \in Nat
    BY <1>2 DEF TypeOK
  <2>3. used[x] + 1 \in Nat /\ undo[x] + 1 \in Nat
    BY DEF TypeOK
  <2>. QED
    BY <1>1, <2>1, <2>2, <2>3, Zenon DEF TypeOK
<1>4. ASSUME NEW y \in Xct
      PROVE  /\ used'[y] = 0 => undo'[y] = 0 /\ rsvd'[y] = 0
             /\ used'[y] > 0 => rsvd'[y] >= UNDO_FUDGE_FACTOR(undo'[y]) + MIN_BYTES_RSVD
  <2>1. CASE y = x
    <3>1. /\ rsvd'[x] = rsvd[x] + (topUp + 3) /\ used'[x] = used[x] + 1
          /\ undo'[x] = undo[x] + 1
      BY <1>1, <1>2 DEF TypeOK
    <3>2. UNDO_FUDGE_FACTOR(undo'[x]) = 3 * (undo[x] + 1)
      BY <3>1 DEF UNDO_FUDGE_FACTOR
    <3>3. rsvd[x] \in Nat /\ used[x] \in Nat /\ undo[x] \in Nat
      BY DEF TypeOK
    <3>4. used[x] > 0 => rsvd[x] >= 3 * undo[x] + 1
      BY Sizes, <3>3 DEF PaidInv
    <3>5. used[x] = 0 => undo[x] = 0 /\ rsvd[x] = 0
      BY DEF PaidInv
    <3>6. used[x] + 1 > 0 /\ rsvd[x] + (topUp + 3) >= 3 * (undo[x] + 1) + 1
      <4>1. CASE used[x] = 0
        <5>1. topUp = 1 /\ undo[x] = 0 /\ rsvd[x] = 0
          BY <4>1, <3>5, <1>2
        <5>. QED
          BY <5>1, <4>1
      <4>2. CASE used[x] > 0
        <5>1. topUp >= 0 /\ topUp \in Int
          BY <1>2
        <5>. QED
          BY <5>1, <4>2, <3>3, <3>4
      <4>. QED
        BY <4>1, <4>2, <3>3
    <3>7. used'[x] # 0 /\ rsvd'[x] >= UNDO_FUDGE_FACTOR(undo'[x]) + MIN_BYTES_RSVD
      BY <3>1, <3>2, <3>3, <3>6, Sizes
    <3>. QED
      BY <2>1, <3>7
  <2>2. CASE y # x
    <3>1. rsvd'[y] = rsvd[y] /\ used'[y] = used[y] /\ undo'[y] = undo[y]
      BY <2>2, <1>1 DEF TypeOK
    <3>. QED
      BY <3>1 DEF PaidInv
  <2>. QED
    BY <2>1, <2>2
<1>. QED
  BY <1>3, <1>4 DEF PaidInv

\* The transaction of an entry.
LEMMA EntryOf ==
  ASSUME TypeOK
  PROVE  \A e \in Listed(line) : e \in Entry /\ e.who \in Xct
<1>1. \A i \in DOMAIN line : line[i] \in Entry
  BY DEF TypeOK
<1>2. \A e \in Entry : e.who \in Xct
  BY DEF Entry
<1>. QED
  BY <1>1, <1>2 DEF Listed

\* Entries of x made to point elsewhere.
LEMMA MovesEntries ==
  ASSUME TypeOK, NEW x \in Xct, NEW places, NEW there \in {"now", "before", "gone", "null"},
         Moves(x, places, there)
  PROVE  /\ line' \in Seq(Entry)
         /\ \A f \in Listed(line') :
              \/ f \in Listed(line) /\ ~(f.who = x /\ f.at \in places)
              \/ f.who = x /\ f.at = there
         /\ \A e \in Listed(line) : ~(e.who = x /\ e.at \in places) => e \in Listed(line')
<1>1. /\ line' \in Seq(Entry)
      /\ Listed(line') = {Moved(e, x, places, there) : e \in Listed(line)}
  <2>1. line \in Seq(Entry)
    BY DEF TypeOK
  <2>2. line' = MovedLine(line, x, places, there)
    BY DEF Moves, MovedLine, Moved
  <2>. QED
    BY <2>1, <2>2, ListedMoved
<1>2. \A e \in Listed(line) : e \in Entry
  BY EntryOf
<1>3. \A e \in Entry : /\ [e EXCEPT !.at = there].who = e.who
                       /\ [e EXCEPT !.at = there].at = there
  BY DEF Entry
<1>. QED
  BY <1>1, <1>2, <1>3 DEF Moved

\* Nothing changes for those whose pc and call do not, if the one whose do does not sleep.
LEMMA SameLine ==
  ASSUME LineInv, TypeOK, NEW x,
         UNCHANGED line,
         \A y \in Xct : y # x => pc'[y] = pc[y] /\ call'[y] = call[y],
         \A y \in Xct : y # x => (turn' = y <=> turn = y),
         pc[x] # "asleep", pc'[x] # "asleep",
         x \in Xct /\ Current(x) => Current(x)'
  PROVE  LineInv'
<1>1. Listed(line') = Listed(line)
  OBVIOUS
<1>2. \A e \in Listed(line) : e.who \in Xct
  BY EntryOf
<1>3. \A y \in Xct : Current(y) => Current(y)'
  BY DEF Current
<1>4. \A e \in Listed(line') : e.at = "now" => pc'[e.who] = "asleep"
  BY <1>1, <1>2 DEF LineInv
<1>5. \A e \in Listed(line') : e.at = "before" => Current(e.who)'
  BY <1>1, <1>2, <1>3, Zenon DEF LineInv
<1>6. \A y \in Xct : pc'[y] = "asleep" /\ call'[y].need > 0 =>
        [who |-> y, at |-> "now"] \in Listed(line')
  BY <1>1 DEF LineInv
<1>7. ForeverSignalled'
  BY DEF LineInv, ForeverSignalled
<1>. QED
  BY <1>4, <1>5, <1>6, <1>7, Zenon DEF LineInv, Current

-----------------------------------------------------------------------------
(***************************************************************************)
(* A transaction logs.                                                     *)
(***************************************************************************)
LEMMA BeginStep ==
  ASSUME IInv, NEW x \in Xct, Begin(x)
  PROVE  IInv'
<1>1. TypeOK'
  BY DEF IInv, TypeOK, Begin, Go, books, lost, Caller, PC
<1>2. \A y \in Xct : y # x => pc'[y] = pc[y]
  BY DEF IInv, TypeOK, Begin, Go, Caller
<1>3. pc[x] = "out" /\ pc'[x] = "active"
  BY DEF IInv, TypeOK, Begin, Go, Caller
<1>4. UNCHANGED <<line, turn, call, used, undo, rsvd>>
  BY DEF Begin, books
<1>5. TurnInv'
  BY <1>2, <1>3, <1>4 DEF IInv, TurnInv, InEmergency
<1>6. PaidInv'
  BY <1>4 DEF IInv, PaidInv
<1>7. LineInv'
  <2>1. ~Current(x)
    BY <1>3 DEF Current, InEmergency
  <2>. QED
    BY <1>2, <1>3, <1>4, <2>1, SameLine DEF IInv
<1>. QED
  BY <1>1, <1>5, <1>6, <1>7 DEF IInv

\* A step that changes neither pc, nor a call, nor the line, nor the turn.
LEMMA BooksStep ==
  ASSUME IInv, UNCHANGED <<line, turn, pc, call>>, TypeOK', PaidInv'
  PROVE  IInv'
<1>1. TurnInv'
  BY DEF IInv, TurnInv
<1>2. LineInv'
  <2>1. Listed(line') = Listed(line)
    OBVIOUS
  <2>. QED
    BY <2>1 DEF IInv, LineInv, ForeverSignalled, Current
<1>. QED
  BY <1>1, <1>2 DEF IInv

LEMMA LogStep ==
  ASSUME IInv, NEW x \in Xct, Log(x)
  PROVE  IInv'
<1>1. UNCHANGED <<flag, line, lock, turn, pc, call, rel, leaked, dropped>>
  BY DEF Log, lost
<1>2. TypeOK /\ PaidInv
  BY DEF IInv
<1>3. MIN_BYTES_READY = 5 /\ ready[x] \in Nat /\ avail \in Nat
  BY <1>2, Sizes DEF TypeOK
<1>4. PICK r \in Nat : r >= MIN_BYTES_READY /\ Insert(x, r) /\ avail' \in Nat
  <2>1. CASE ready[x] >= MIN_BYTES_READY /\ Insert(x, ready[x]) /\ UNCHANGED avail
    BY <2>1, <1>3
  <2>2. CASE /\ avail >= MIN_BYTES_READY /\ avail' = avail - MIN_BYTES_READY
             /\ Insert(x, ready[x] + MIN_BYTES_READY)
    <3>1. ready[x] + MIN_BYTES_READY \in Nat /\ ready[x] + MIN_BYTES_READY >= MIN_BYTES_READY
      BY <1>3
    <3>2. avail' \in Nat
      BY <2>2, <1>3
    <3>. QED
      BY <2>2, <3>1, <3>2
  <2>. QED
    BY <2>1, <2>2 DEF Log
<1>5. /\ ready' \in [Xct -> Nat] /\ rsvd' \in [Xct -> Nat]
      /\ used' \in [Xct -> Nat] /\ undo' \in [Xct -> Nat] /\ old' \in Nat
      /\ PaidInv'
  BY <1>2, <1>4, InsertPays
<1>6. TypeOK'
  BY <1>1, <1>2, <1>4, <1>5 DEF TypeOK
<1>. QED
  BY <1>1, <1>5, <1>6, BooksStep

LEMMA LogFullStep ==
  ASSUME IInv, NEW x \in Xct, LogFull(x)
  PROVE  IInv'
<1>. DEFINE c == NewCall(MIN_BYTES_READY, 3, FALSE)
<1>1. /\ c \in NCall /\ c.want = MIN_BYTES_READY /\ c.need = MIN_BYTES_READY
      /\ ~c.forever /\ c.need <= c.want
  BY Sizes DEF NCall, NewCall
<1>2. pc[x] = "active" /\ call' = [call EXCEPT ![x] = c] /\ pc' = [pc EXCEPT ![x] = "queue"]
  BY DEF LogFull, Running, Go
<1>3. UNCHANGED <<avail, flag, line, lock, turn, ready, rsvd, used, undo, old, rel, leaked, dropped>>
  BY DEF LogFull, books, lost
<1>. HIDE DEF c
<1>4. /\ pc'[x] = "queue" /\ call'[x] = c
      /\ \A y \in Xct : y # x => pc'[y] = pc[y] /\ call'[y] = call[y]
      /\ call' \in [Xct -> NCall] /\ pc' \in [Caller -> PC]
  BY <1>1, <1>2 DEF IInv, TypeOK, Caller, PC
<1>5. TypeOK'
  BY <1>3, <1>4 DEF IInv, TypeOK
<1>6. TurnInv'
  BY <1>1, <1>2, <1>3, <1>4 DEF IInv, TurnInv, InEmergency
<1>7. PaidInv'
  BY <1>3 DEF IInv, PaidInv
<1>8. LineInv'
  <2>1. ~Current(x)
    BY <1>2 DEF Current, InEmergency
  <2>. QED
    BY <1>2, <1>3, <1>4, <2>1, SameLine DEF IInv
<1>. QED
  BY <1>5, <1>6, <1>7, <1>8 DEF IInv

LEMMA EnterEmergencyStep ==
  ASSUME IInv, NEW x \in Xct, EnterEmergency(x)
  PROVE  IInv'
<1>1. pc[x] = "queue" /\ turn = NoThread /\ turn' = x /\ pc' = [pc EXCEPT ![x] = "try"]
  BY DEF EnterEmergency, Go
<1>2. UNCHANGED <<avail, flag, line, lock, ready, rsvd, used, undo, old, call, rel, leaked, dropped>>
  BY DEF EnterEmergency, books, lost
<1>3. /\ pc'[x] = "try" /\ \A y \in Xct : y # x => pc'[y] = pc[y]
      /\ pc' \in [Caller -> PC]
  BY <1>1 DEF IInv, TypeOK, Caller, PC
<1>4. TypeOK'
  BY <1>1, <1>2, <1>3 DEF IInv, TypeOK
<1>5. \A y \in Xct : turn # y
  BY <1>1, NamesAssumption
<1>6. TurnInv'
  BY <1>1, <1>2, <1>3, <1>5 DEF IInv, TurnInv, InEmergency
<1>7. PaidInv'
  BY <1>2 DEF IInv, PaidInv
<1>8. LineInv'
  <2>1. ~Current(x)
    BY <1>1 DEF Current, InEmergency
  <2>. QED
    BY <1>1, <1>2, <1>3, <1>5, <2>1, SameLine DEF IInv
<1>. QED
  BY <1>4, <1>6, <1>7, <1>8 DEF IInv

-----------------------------------------------------------------------------
(***************************************************************************)
(* A call waits, and what becomes of its entries.                          *)
(***************************************************************************)
LEMMA CallFields ==
  ASSUME NEW c \in NCall
  PROVE  /\ c.want \in Nat /\ c.need \in Nat /\ c.tries \in Int
         /\ c.forever \in BOOLEAN /\ c.signalled \in BOOLEAN
  BY DEF NCall

LEMMA NewCallFields ==
  ASSUME NEW n \in Nat, NEW k \in 0..3, NEW b \in BOOLEAN
  PROVE  /\ NewCall(n, k, b) \in NCall
         /\ NewCall(n, k, b).need = n /\ NewCall(n, k, b).want = n
         /\ NewCall(n, k, b).forever = b
  BY DEF NewCall, NCall

LEMMA NoCallFields == NoCall \in NCall /\ NoCall.need = 0 /\ NoCall.want = 0 /\ ~NoCall.forever
  BY DEF NoCall, NewCall, NCall

\* The entries of a call that is over are nobody's.
LEMMA LeavesLine ==
  ASSUME LineInv, TypeOK, NEW x \in Xct, Moves(x, {"now", "before"}, "gone"),
         \A y \in Xct : y # x => pc'[y] = pc[y] /\ call'[y] = call[y] /\ (turn' = y <=> turn = y),
         pc'[x] # "asleep"
  PROVE  line' \in Seq(Entry) /\ LineInv'
<1>1. /\ line' \in Seq(Entry)
      /\ \A f \in Listed(line') :
           \/ f \in Listed(line) /\ ~(f.who = x /\ f.at \in {"now", "before"})
           \/ f.who = x /\ f.at = "gone"
      /\ \A e \in Listed(line) : ~(e.who = x /\ e.at \in {"now", "before"}) => e \in Listed(line')
  BY MovesEntries
<1>2. \A e \in Listed(line) : e.who \in Xct
  BY EntryOf
<1>3. \A y \in Xct : y # x /\ Current(y) => Current(y)'
  BY DEF Current
<1>4. \A e \in Listed(line') : e.at = "now" => pc'[e.who] = "asleep"
  BY <1>1, <1>2 DEF LineInv
<1>5. \A e \in Listed(line') : e.at = "before" => Current(e.who)'
  BY <1>1, <1>2, <1>3 DEF LineInv
<1>6. ASSUME NEW y \in Xct, pc'[y] = "asleep", call'[y].need > 0
      PROVE  [who |-> y, at |-> "now"] \in Listed(line')
  <2>1. y # x
    BY <1>6
  <2>2. [who |-> y, at |-> "now"] \in Listed(line)
    BY <1>6, <2>1 DEF LineInv
  <2>. QED
    BY <2>1, <2>2, <1>1
<1>7. ForeverSignalled'
  BY DEF LineInv, ForeverSignalled
<1>. QED
  BY <1>1, <1>4, <1>5, <1>6, <1>7, Zenon DEF LineInv, Current

\* A call that wakes up has an entry from before.
LEMMA WakesUp ==
  ASSUME LineInv, TypeOK, NEW x \in Xct, Moves(x, {"now"}, "before"),
         \A y \in Xct : y # x => pc'[y] = pc[y] /\ call'[y] = call[y],
         turn' = turn, pc'[x] = "back"
  PROVE  line' \in Seq(Entry) /\ LineInv'
<1>1. /\ line' \in Seq(Entry)
      /\ \A f \in Listed(line') :
           \/ f \in Listed(line) /\ ~(f.who = x /\ f.at \in {"now"})
           \/ f.who = x /\ f.at = "before"
      /\ \A e \in Listed(line) : ~(e.who = x /\ e.at \in {"now"}) => e \in Listed(line')
  BY MovesEntries
<1>2. \A e \in Listed(line) : e.who \in Xct
  BY EntryOf
<1>3. Current(x)' /\ \A y \in Xct : y # x /\ Current(y) => Current(y)'
  BY DEF Current
<1>4. \A e \in Listed(line') : e.at = "now" => pc'[e.who] = "asleep"
  BY <1>1, <1>2 DEF LineInv
<1>5. \A e \in Listed(line') : e.at = "before" => Current(e.who)'
  BY <1>1, <1>2, <1>3 DEF LineInv
<1>6. ASSUME NEW y \in Xct, pc'[y] = "asleep", call'[y].need > 0
      PROVE  [who |-> y, at |-> "now"] \in Listed(line')
  <2>1. y # x
    BY <1>6
  <2>2. [who |-> y, at |-> "now"] \in Listed(line)
    BY <1>6, <2>1 DEF LineInv
  <2>. QED
    BY <2>1, <2>2, <1>1
<1>7. ForeverSignalled'
  BY DEF LineInv, ForeverSignalled
<1>. QED
  BY <1>1, <1>4, <1>5, <1>6, <1>7, Zenon DEF LineInv, Current

\* A call that finds space in the reserve nullifies its entry and trims the line.
LEMMA ReservedStep ==
  ASSUME IInv, NEW x \in Xct, NEW s \in Seq(Entry), Reserved(x, s),
         Listed(s) \subseteq Listed(line) \union {[who |-> x, at |-> "now"]},
         Listed(line) \subseteq Listed(s),
         pc[x] \in {"wait", "asleep"}, turn' = turn
  PROVE  /\ avail' \in Nat /\ line' \in Seq(Entry)
         /\ call' \in [Xct -> NCall] /\ pc' \in [Caller -> PC]
         /\ TurnInv' /\ LineInv'
<1>. DEFINE m == MovedLine(s, x, {"now"}, "null")
            c == [call[x] EXCEPT !.need = 0]
<1>1. /\ avail >= call[x].need /\ avail' = avail - call[x].need
      /\ call' = [call EXCEPT ![x] = c]
      /\ line' = Trim(m)
      /\ pc' = [pc EXCEPT ![x] = "back"]
  BY DEF Reserved, MovedLine, Moved, Go
<1>2. /\ c \in NCall /\ c.need = 0 /\ c.want = call[x].want /\ c.forever = call[x].forever
      /\ call[x].need \in Nat /\ c.want \in Nat
  <2>1. call[x] \in NCall
    BY DEF IInv, TypeOK
  <2>2. c \in NCall /\ c.need = 0 /\ c.want = call[x].want /\ c.forever = call[x].forever
    BY <2>1 DEF NCall
  <2>. QED
    BY <2>1, <2>2, CallFields
<1>. HIDE DEF c
<1>3. avail' \in Nat
  <2>1. avail \in Nat /\ call[x].need \in Nat
    BY <1>2 DEF IInv, TypeOK
  <2>2. avail >= call[x].need /\ avail' = avail - call[x].need
    BY <1>1
  <2>. QED
    BY <2>1, <2>2
<1>4. /\ pc'[x] = "back" /\ call'[x] = c
      /\ \A y \in Xct : y # x => pc'[y] = pc[y] /\ call'[y] = call[y]
      /\ call' \in [Xct -> NCall] /\ pc' \in [Caller -> PC]
  BY <1>1, <1>2 DEF IInv, TypeOK, Caller, PC
<1>5. m \in Seq(Entry) /\ Listed(m) = {Moved(e, x, {"now"}, "null") : e \in Listed(s)}
  BY ListedMoved
<1>. HIDE DEF m
<1>6. /\ line' \in Seq(Entry) /\ Listed(line') \subseteq Listed(m)
      /\ \A e \in Listed(m) : e.at # "null" => e \in Listed(line')
  BY <1>1, <1>5, ListedTrim
<1>7. \A e \in Listed(s) : e \in Entry /\ e.who \in Xct
  <2>1. \A i \in DOMAIN s : s[i] \in Entry
    OBVIOUS
  <2>2. \A e \in Entry : e.who \in Xct
    BY DEF Entry
  <2>. QED
    BY <2>1, <2>2 DEF Listed
<1>8. \A e \in Entry : /\ [e EXCEPT !.at = "null"].who = e.who
                       /\ [e EXCEPT !.at = "null"].at = "null"
  BY DEF Entry
<1>9. \A f \in Listed(line') : \/ f.at = "null"
                               \/ f \in Listed(s) /\ ~(f.who = x /\ f.at = "now")
  <2>. SUFFICES ASSUME NEW f \in Listed(line'), f.at # "null"
                PROVE  f \in Listed(s) /\ ~(f.who = x /\ f.at = "now")
    OBVIOUS
  <2>1. PICK e \in Listed(s) : f = Moved(e, x, {"now"}, "null")
    BY <1>5, <1>6
  <2>2. ~(e.who = x /\ e.at = "now")
    BY <1>7, <1>8, <2>1 DEF Moved
  <2>. QED
    BY <2>1, <2>2 DEF Moved
<1>10. \A e \in Listed(s) : e.who # x /\ e.at # "null" => e \in Listed(line')
  BY <1>5, <1>6, <1>7 DEF Moved
<1>11. \A f \in Listed(line') :
         f.at # "null" => f \in Listed(line) /\ f.who \in Xct /\ ~(f.who = x /\ f.at = "now")
  BY <1>7, <1>9
<1>12. TurnInv'
  BY <1>2, <1>4 DEF IInv, TurnInv, InEmergency
<1>13. LineInv'
  <2>1. \A f \in Listed(line') : f.at = "now" => pc'[f.who] = "asleep"
    BY <1>4, <1>11 DEF IInv, LineInv
  <2>2. Current(x)' /\ \A y \in Xct : y # x /\ Current(y) => Current(y)'
    BY <1>4 DEF Current
  <2>3. \A f \in Listed(line') : f.at = "before" => Current(f.who)'
    BY <1>11, <2>2 DEF IInv, LineInv
  <2>4. ASSUME NEW y \in Xct, pc'[y] = "asleep", call'[y].need > 0
        PROVE  [who |-> y, at |-> "now"] \in Listed(line')
    <3>1. y # x /\ [who |-> y, at |-> "now"] \in Listed(line)
      BY <2>4, <1>4 DEF IInv, LineInv
    <3>. QED
      BY <3>1, <1>10
  <2>5. ForeverSignalled'
    BY <1>4 DEF IInv, LineInv, ForeverSignalled
  <2>. QED
    BY <2>1, <2>3, <2>4, <2>5, Zenon DEF LineInv, Current
<1>. QED
  BY <1>3, <1>4, <1>6, <1>12, <1>13

\* A call that is over, and what it leaves.
LEMMA CallOver ==
  ASSUME IInv, NEW x \in Xct, NEW p \in {"active", "read"}, Returns(x, p),
         \A y \in Xct : y # x => (turn' = y <=> turn = y),
         turn' = x => p = "read"
  PROVE  /\ line' \in Seq(Entry) /\ call' \in [Xct -> NCall] /\ pc' \in [Caller -> PC]
         /\ TurnInv' /\ LineInv'
<1>1. /\ call' = [call EXCEPT ![x] = NoCall] /\ pc' = [pc EXCEPT ![x] = p]
      /\ Moves(x, {"now", "before"}, "gone")
  BY DEF Returns, Go
<1>2. /\ pc'[x] = p /\ call'[x] = NoCall
      /\ \A y \in Xct : y # x => pc'[y] = pc[y] /\ call'[y] = call[y]
      /\ call' \in [Xct -> NCall] /\ pc' \in [Caller -> PC]
  BY <1>1, NoCallFields DEF IInv, TypeOK, Caller, PC
<1>3. TurnInv'
  BY <1>2, NoCallFields DEF IInv, TurnInv, InEmergency
<1>4. line' \in Seq(Entry) /\ LineInv'
  BY <1>1, <1>2, LeavesLine DEF IInv
<1>. QED
  BY <1>2, <1>3, <1>4

LEMMA TryStep ==
  ASSUME IInv, NEW x \in Xct, Try(x)
  PROVE  IInv'
<1>1. pc[x] = "try" /\ turn = x
  BY DEF Try, IInv, TurnInv
<1>2. /\ UNCHANGED <<avail, flag, lock, ready, rsvd, used, undo, old, rel, leaked>>
      /\ PaidInv'
  BY DEF Try, books, IInv, PaidInv
<1>3. CASE Go(x, "wait") /\ UNCHANGED <<line, turn, call, dropped>>
  <2>1. /\ pc'[x] = "wait" /\ \A y \in Xct : y # x => pc'[y] = pc[y]
        /\ pc' \in [Caller -> PC]
    BY <1>3 DEF Go, IInv, TypeOK, Caller, PC
  <2>2. TypeOK'
    BY <1>2, <1>3, <2>1 DEF IInv, TypeOK
  <2>3. TurnInv'
    BY <1>1, <1>3, <2>1 DEF IInv, TurnInv, InEmergency
  <2>4. LineInv'
    <3>1. Current(x)'
      BY <1>1, <1>3, <2>1 DEF Current, InEmergency
    <3>. QED
      BY <1>1, <1>3, <2>1, <3>1, SameLine DEF IInv
  <2>. QED
    BY <1>2, <2>2, <2>3, <2>4 DEF IInv
<1>4. CASE /\ Go(x, "active") /\ turn' = NoThread
           /\ dropped' = dropped + call[x].want - call[x].need
           /\ call' = [call EXCEPT ![x] = NoCall]
           /\ Moves(x, {"now", "before"}, "gone")
  <2>1. /\ line' \in Seq(Entry) /\ call' \in [Xct -> NCall] /\ pc' \in [Caller -> PC]
        /\ TurnInv' /\ LineInv'
    <3>1. Returns(x, "active")
      BY <1>4 DEF Returns
    <3>2. \A y \in Xct : turn' # y /\ (y # x => turn # y)
      BY <1>1, <1>4, NamesAssumption
    <3>. QED
      BY <3>1, <3>2, CallOver
  <2>2. dropped' \in Nat
    <3>1. call[x].need \in Nat /\ call[x].want \in Nat
      BY CallFields DEF IInv, TypeOK
    <3>2. call[x].need <= call[x].want
      BY DEF IInv, TurnInv
    <3>3. dropped \in Nat /\ dropped' = dropped + call[x].want - call[x].need
      BY <1>4 DEF IInv, TypeOK
    <3>. QED
      BY <3>1, <3>2, <3>3
  <2>3. TypeOK'
    BY <1>2, <1>4, <2>1, <2>2 DEF IInv, TypeOK
  <2>. QED
    BY <1>2, <2>1, <2>3 DEF IInv
<1>. QED
  BY <1>3, <1>4 DEF Try

LEMMA AskSpaceStep ==
  ASSUME IInv, NEW x \in Xct, AskSpace(x)
  PROVE  IInv'
<1>1. pc[x] = "active" /\ Ask \in Nat /\ avail \in Nat
  BY SpaceAssumption DEF AskSpace, Running, IInv, TypeOK
<1>2. UNCHANGED <<flag, line, lock, turn, rsvd, used, undo, old, rel, leaked, dropped>>
  BY DEF AskSpace, lost
<1>3. PaidInv'
  BY <1>2 DEF IInv, PaidInv
<1>4. CASE avail >= Ask
  <2>1. avail' = avail - Ask /\ ready' = [ready EXCEPT ![x] = @ + Ask] /\ UNCHANGED <<pc, call>>
    BY <1>4 DEF AskSpace, Plus
  <2>2. avail' \in Nat /\ ready' \in [Xct -> Nat]
    <3>1. ready \in [Xct -> Nat]
      BY DEF IInv, TypeOK
    <3>2. ready[x] + Ask \in Nat /\ avail - Ask \in Nat
      BY <1>1, <1>4, <3>1
    <3>. QED
      BY <2>1, <3>1, <3>2
  <2>3. TypeOK'
    BY <1>2, <2>1, <2>2 DEF IInv, TypeOK
  <2>. QED
    BY <1>2, <1>3, <2>1, <2>3, BooksStep
<1>5. CASE ~(avail >= Ask)
  <2>. DEFINE c == NewCall(Ask, 0, used[x] = 0)
  <2>1. /\ call' = [call EXCEPT ![x] = c] /\ pc' = [pc EXCEPT ![x] = "wait"]
        /\ UNCHANGED <<avail, ready>>
    BY <1>5 DEF AskSpace, Go
  <2>2. c \in NCall /\ c.need <= c.want
    <3>1. c \in NCall /\ c.need = Ask /\ c.want = Ask
      BY <1>1 DEF NewCall, NCall
    <3>. QED
      BY <1>1, <3>1
  <2>. HIDE DEF c
  <2>3. /\ pc'[x] = "wait" /\ call'[x] = c
        /\ \A y \in Xct : y # x => pc'[y] = pc[y] /\ call'[y] = call[y]
        /\ call' \in [Xct -> NCall] /\ pc' \in [Caller -> PC]
    BY <2>1, <2>2 DEF IInv, TypeOK, Caller, PC
  <2>4. TypeOK'
    BY <1>2, <2>1, <2>3 DEF IInv, TypeOK
  <2>5. TurnInv'
    BY <1>1, <1>2, <2>2, <2>3 DEF IInv, TurnInv, InEmergency
  <2>6. LineInv'
    <3>1. ~Current(x)
      BY <1>1 DEF IInv, TurnInv, Current, InEmergency
    <3>. QED
      BY <1>1, <1>2, <2>3, <3>1, SameLine DEF IInv
  <2>. QED
    BY <1>3, <2>4, <2>5, <2>6 DEF IInv
<1>. QED
  BY <1>4, <1>5

LEMMA BeginWaitStep ==
  ASSUME IInv, NEW x \in Xct, BeginWait(x)
  PROVE  IInv'
<1>. DEFINE e == [who |-> x, at |-> "now"]
            s == Append(line, e)
<1>1. pc[x] = "wait" /\ flag' = TRUE
  BY DEF BeginWait
<1>2. /\ UNCHANGED <<lock, turn, ready, rsvd, used, undo, old, rel, leaked, dropped>>
      /\ PaidInv'
  BY DEF BeginWait, books, lost, IInv, PaidInv
<1>3. \/ Reserved(x, s)
      \/ /\ avail < call[x].need
         /\ line' = s
         /\ call' = [call EXCEPT ![x].signalled = FALSE]
         /\ pc' = [pc EXCEPT ![x] = "asleep"]
         /\ UNCHANGED avail
  BY DEF BeginWait, Go
<1>4. s \in Seq(Entry) /\ Listed(s) = Listed(line) \union {e}
  <2>1. line \in Seq(Entry)
    BY DEF IInv, TypeOK
  <2>2. e \in Entry
    BY DEF Entry
  <2>. QED
    BY <2>1, <2>2, ListedAppend
<1>. HIDE DEF s
<1>5. CASE Reserved(x, s)
  <2>1. /\ avail' \in Nat /\ line' \in Seq(Entry)
        /\ call' \in [Xct -> NCall] /\ pc' \in [Caller -> PC]
        /\ TurnInv' /\ LineInv'
    BY <1>1, <1>2, <1>4, <1>5, ReservedStep
  <2>2. TypeOK'
    BY <1>1, <1>2, <2>1 DEF IInv, TypeOK
  <2>. QED
    BY <1>2, <2>1, <2>2 DEF IInv
<1>6. CASE /\ avail < call[x].need
           /\ line' = s
           /\ call' = [call EXCEPT ![x].signalled = FALSE]
           /\ pc' = [pc EXCEPT ![x] = "asleep"]
           /\ UNCHANGED avail
  <2>. DEFINE c == [call[x] EXCEPT !.signalled = FALSE]
  <2>1. /\ c \in NCall /\ c.need = call[x].need /\ c.want = call[x].want
        /\ c.forever = call[x].forever /\ call[x].need \in Nat
    <3>1. call[x] \in NCall
      BY DEF IInv, TypeOK
    <3>. QED
      BY <3>1 DEF NCall
  <2>2. call' = [call EXCEPT ![x] = c]
    BY <1>6
  <2>. HIDE DEF c
  <2>3. /\ pc'[x] = "asleep" /\ call'[x] = c
        /\ \A y \in Xct : y # x => pc'[y] = pc[y] /\ call'[y] = call[y]
        /\ call' \in [Xct -> NCall] /\ pc' \in [Caller -> PC]
    BY <1>6, <2>1, <2>2 DEF IInv, TypeOK, Caller, PC
  <2>4. TypeOK'
    BY <1>1, <1>2, <1>4, <1>6, <2>3 DEF IInv, TypeOK
  <2>5. TurnInv'
    BY <1>1, <1>2, <2>1, <2>3 DEF IInv, TurnInv, InEmergency
  <2>6. LineInv'
    <3>1. \A y \in Xct : Current(y) => Current(y)'
      BY <1>1, <1>2, <2>3 DEF Current, InEmergency
    <3>2. \A f \in Listed(line) : f.who \in Xct
      BY EntryOf DEF IInv
    <3>3. Listed(line') = Listed(line) \union {e} /\ e.who = x /\ e.at = "now"
      BY <1>4, <1>6
    <3>4. \A f \in Listed(line') : f.at = "now" => pc'[f.who] = "asleep"
      BY <1>1, <2>3, <3>2, <3>3 DEF IInv, LineInv
    <3>5. \A f \in Listed(line') : f.at = "before" => Current(f.who)'
      BY <3>1, <3>2, <3>3 DEF IInv, LineInv
    <3>6. \A y \in Xct : pc'[y] = "asleep" /\ call'[y].need > 0 =>
            [who |-> y, at |-> "now"] \in Listed(line')
      BY <2>3, <3>3 DEF IInv, LineInv
    <3>7. c.need # 0
      BY <1>6, <2>1 DEF IInv, TypeOK
    <3>8. ForeverSignalled'
      BY <2>3, <3>7 DEF IInv, LineInv, ForeverSignalled
    <3>. QED
      BY <3>4, <3>5, <3>6, <3>8, Zenon DEF LineInv, Current
  <2>. QED
    BY <1>2, <2>4, <2>5, <2>6 DEF IInv
<1>. QED
  BY <1>3, <1>5, <1>6

LEMMA AwakeStep ==
  ASSUME IInv, NEW x \in Xct, Awake(x)
  PROVE  IInv'
<1>1. pc[x] = "asleep"
  BY DEF Awake
<1>2. /\ UNCHANGED <<flag, lock, turn, ready, rsvd, used, undo, old, rel, leaked, dropped>>
      /\ PaidInv'
  BY DEF Awake, books, lost, IInv, PaidInv
<1>3. \/ Moves(x, {"now"}, "before") /\ Go(x, "back") /\ UNCHANGED <<avail, call>>
      \/ Reserved(x, line)
      \/ /\ avail < call[x].need
         /\ call' = [call EXCEPT ![x].signalled = FALSE]
         /\ UNCHANGED <<avail, line, pc>>
  BY DEF Awake
<1>4. CASE Moves(x, {"now"}, "before") /\ Go(x, "back") /\ UNCHANGED <<avail, call>>
  <2>1. /\ pc'[x] = "back" /\ \A y \in Xct : y # x => pc'[y] = pc[y]
        /\ pc' \in [Caller -> PC]
    BY <1>4 DEF Go, IInv, TypeOK, Caller, PC
  <2>2. line' \in Seq(Entry) /\ LineInv'
    BY <1>2, <1>4, <2>1, WakesUp DEF IInv
  <2>3. TypeOK'
    BY <1>2, <1>4, <2>1, <2>2 DEF IInv, TypeOK
  <2>4. TurnInv'
    BY <1>1, <1>2, <1>4, <2>1 DEF IInv, TurnInv, InEmergency
  <2>. QED
    BY <1>2, <2>2, <2>3, <2>4 DEF IInv
<1>5. CASE Reserved(x, line)
  <2>1. line \in Seq(Entry)
    BY DEF IInv, TypeOK
  <2>2. /\ avail' \in Nat /\ line' \in Seq(Entry)
        /\ call' \in [Xct -> NCall] /\ pc' \in [Caller -> PC]
        /\ TurnInv' /\ LineInv'
    BY <1>1, <1>2, <1>5, <2>1, ReservedStep
  <2>3. TypeOK'
    BY <1>2, <2>2 DEF IInv, TypeOK
  <2>. QED
    BY <1>2, <2>2, <2>3 DEF IInv
<1>6. CASE /\ avail < call[x].need
           /\ call' = [call EXCEPT ![x].signalled = FALSE]
           /\ UNCHANGED <<avail, line, pc>>
  <2>. DEFINE c == [call[x] EXCEPT !.signalled = FALSE]
  <2>1. /\ c \in NCall /\ c.need = call[x].need /\ c.want = call[x].want
        /\ c.forever = call[x].forever /\ call[x].need \in Nat
    <3>1. call[x] \in NCall
      BY DEF IInv, TypeOK
    <3>. QED
      BY <3>1 DEF NCall
  <2>2. call' = [call EXCEPT ![x] = c]
    BY <1>6
  <2>. HIDE DEF c
  <2>3. /\ call'[x] = c /\ \A y \in Xct : y # x => call'[y] = call[y]
        /\ call' \in [Xct -> NCall]
    BY <2>1, <2>2 DEF IInv, TypeOK
  <2>4. TypeOK'
    BY <1>2, <1>6, <2>3 DEF IInv, TypeOK
  <2>5. TurnInv'
    BY <1>2, <1>6, <2>1, <2>3 DEF IInv, TurnInv
  <2>6. LineInv'
    <3>1. Listed(line') = Listed(line)
      BY <1>6
    <3>2. c.need # 0
      BY <1>6, <2>1 DEF IInv, TypeOK
    <3>3. ForeverSignalled'
      BY <1>6, <2>3, <3>2 DEF IInv, LineInv, ForeverSignalled
    <3>4. \A y \in Xct : call'[y].need = call[y].need
      BY <2>1, <2>3
    <3>. QED
      BY <1>2, <1>6, <3>1, <3>3, <3>4 DEF IInv, LineInv, Current
  <2>. QED
    BY <1>2, <2>4, <2>5, <2>6 DEF IInv
<1>. QED
  BY <1>3, <1>4, <1>5, <1>6

LEMMA TimedOutStep ==
  ASSUME IInv, NEW x \in Xct, TimedOut(x)
  PROVE  IInv'
<1>1. pc[x] = "asleep" /\ Moves(x, {"now"}, "before")
  BY DEF TimedOut
<1>2. /\ UNCHANGED <<avail, flag, lock, turn, ready, rsvd, used, undo, old, call, rel, leaked,
                     dropped>>
      /\ PaidInv'
  BY DEF TimedOut, books, lost, IInv, PaidInv
<1>3. /\ pc'[x] = "back" /\ \A y \in Xct : y # x => pc'[y] = pc[y]
      /\ pc' \in [Caller -> PC]
  BY DEF TimedOut, Go, IInv, TypeOK, Caller, PC
<1>4. line' \in Seq(Entry) /\ LineInv'
  BY <1>1, <1>2, <1>3, WakesUp DEF IInv
<1>5. TypeOK'
  BY <1>2, <1>3, <1>4 DEF IInv, TypeOK
<1>6. TurnInv'
  BY <1>1, <1>2, <1>3 DEF IInv, TurnInv, InEmergency
<1>. QED
  BY <1>2, <1>4, <1>5, <1>6 DEF IInv

LEMMA BackInAskStep ==
  ASSUME IInv, NEW x \in Xct, BackInAsk(x)
  PROVE  IInv'
<1>1. turn # x /\ turn' = turn /\ Returns(x, "active")
  BY DEF BackInAsk
<1>2. /\ UNCHANGED <<avail, flag, lock, turn, rsvd, used, undo, old, rel, leaked, dropped>>
      /\ PaidInv'
  BY DEF BackInAsk, lost, IInv, PaidInv
<1>3. /\ line' \in Seq(Entry) /\ call' \in [Xct -> NCall] /\ pc' \in [Caller -> PC]
      /\ TurnInv' /\ LineInv'
  BY <1>1, CallOver
<1>4. ready' \in [Xct -> Nat]
  <2>1. call[x].want \in Nat /\ call[x].need \in Nat
    BY CallFields DEF IInv, TypeOK
  <2>2. call[x].need <= call[x].want
    BY DEF IInv, TurnInv
  <2>. DEFINE n == call[x].want - call[x].need
  <2>3. n \in Nat /\ ready' = [ready EXCEPT ![x] = @ + n]
    BY <2>1, <2>2 DEF BackInAsk, Plus
  <2>. HIDE DEF n
  <2>. QED
    BY <2>3 DEF IInv, TypeOK
<1>5. TypeOK'
  BY <1>2, <1>3, <1>4 DEF IInv, TypeOK
<1>. QED
  BY <1>2, <1>3, <1>5 DEF IInv

\* A call of get_logbuf that is served logs its record.
LEMMA ServedCall ==
  ASSUME IInv, NEW x \in Xct, turn = x, pc[x] \in InEmergency,
         Insert(x, ready[x] + call[x].want), Returns(x, "active"), turn' = NoThread,
         avail' \in Nat, UNCHANGED <<flag, lock, rel, leaked, dropped>>
  PROVE  IInv'
<1>1. TypeOK /\ PaidInv
  BY DEF IInv
<1>2. ready[x] + call[x].want \in Nat /\ ready[x] + call[x].want >= MIN_BYTES_READY
  <2>1. call[x].want = MIN_BYTES_READY /\ ready[x] \in Nat
    BY DEF IInv, TurnInv, TypeOK
  <2>. QED
    BY <2>1, Sizes
<1>3. /\ ready' \in [Xct -> Nat] /\ rsvd' \in [Xct -> Nat]
      /\ used' \in [Xct -> Nat] /\ undo' \in [Xct -> Nat] /\ old' \in Nat
      /\ PaidInv'
  BY <1>1, <1>2, InsertPays
<1>4. \A y \in Xct : turn' # y /\ (y # x => turn # y)
  BY NamesAssumption
<1>5. /\ line' \in Seq(Entry) /\ call' \in [Xct -> NCall] /\ pc' \in [Caller -> PC]
      /\ TurnInv' /\ LineInv'
  BY <1>4, CallOver
<1>6. TypeOK'
  BY <1>1, <1>3, <1>5 DEF TypeOK
<1>. QED
  BY <1>3, <1>5, <1>6 DEF IInv

LEMMA BackServedStep ==
  ASSUME IInv, NEW x \in Xct, BackServed(x)
  PROVE  IInv'
<1>1. /\ turn = x /\ pc[x] \in InEmergency
      /\ Insert(x, ready[x] + call[x].want) /\ Returns(x, "active") /\ turn' = NoThread
      /\ UNCHANGED <<avail, flag, lock, rel, leaked, dropped>>
  BY DEF BackServed, lost, InEmergency
<1>2. avail' \in Nat
  BY <1>1 DEF IInv, TypeOK
<1>. QED
  BY <1>1, <1>2, ServedCall

LEMMA BackShortStep ==
  ASSUME IInv, NEW x \in Xct, BackShort(x)
  PROVE  IInv'
<1>. DEFINE c == [call[x] EXCEPT !.tries = @ - 1]
            p == IF call[x].tries > 1 THEN "try" ELSE "last"
<1>1. /\ pc[x] = "back" /\ turn = x /\ pc' = [pc EXCEPT ![x] = p]
      /\ call' = [call EXCEPT ![x] = c]
      /\ p \in {"try", "last"}
  BY DEF BackShort, Go
<1>2. /\ UNCHANGED <<avail, flag, line, lock, turn, ready, rsvd, used, undo, old, rel, leaked,
                     dropped>>
      /\ PaidInv'
  BY DEF BackShort, books, lost, IInv, PaidInv
<1>3. /\ c \in NCall /\ c.need = call[x].need /\ c.want = call[x].want
      /\ c.forever = call[x].forever
  <2>1. call[x] \in NCall
    BY DEF IInv, TypeOK
  <2>. QED
    BY <2>1 DEF NCall
<1>. HIDE DEF c, p
<1>4. /\ pc'[x] = p /\ call'[x] = c
      /\ \A y \in Xct : y # x => pc'[y] = pc[y] /\ call'[y] = call[y]
      /\ call' \in [Xct -> NCall] /\ pc' \in [Caller -> PC]
  BY <1>1, <1>3 DEF IInv, TypeOK, Caller, PC
<1>5. TypeOK'
  BY <1>2, <1>4 DEF IInv, TypeOK
<1>6. TurnInv'
  BY <1>1, <1>2, <1>3, <1>4 DEF IInv, TurnInv, InEmergency
<1>7. LineInv'
  <2>1. Current(x)'
    BY <1>1, <1>2, <1>4 DEF Current, InEmergency
  <2>. QED
    BY <1>1, <1>2, <1>4, <2>1, SameLine DEF IInv
<1>. QED
  BY <1>2, <1>5, <1>6, <1>7 DEF IInv

LEMMA LastLookStep ==
  ASSUME IInv, NEW x \in Xct, LastLook(x)
  PROVE  IInv'
<1>1. pc[x] = "last" /\ turn = x /\ pc[x] \in InEmergency
  BY DEF LastLook, IInv, TurnInv, InEmergency
<1>2. UNCHANGED <<flag, lock, rel, leaked, dropped>>
  BY DEF LastLook, lost
<1>3. CASE call[x].need > 0 /\ avail >= call[x].need
  <2>1. /\ avail' = avail - call[x].need /\ Insert(x, ready[x] + call[x].want)
        /\ Returns(x, "active") /\ turn' = NoThread
    BY <1>3 DEF LastLook
  <2>2. avail' \in Nat
    <3>1. call[x].need \in Nat /\ avail \in Nat
      BY CallFields DEF IInv, TypeOK
    <3>. QED
      BY <1>3, <2>1, <3>1
  <2>. QED
    BY <1>1, <1>2, <2>1, <2>2, ServedCall
<1>4. CASE ~(call[x].need > 0 /\ avail >= call[x].need)
  <2>1. /\ UNCHANGED <<avail, ready, rsvd, used, undo, old, call, line, turn>>
        /\ pc' = [pc EXCEPT ![x] = "giveup"]
    BY <1>4 DEF LastLook, Go, books
  <2>2. /\ pc'[x] = "giveup" /\ \A y \in Xct : y # x => pc'[y] = pc[y]
        /\ pc' \in [Caller -> PC]
    BY <2>1 DEF IInv, TypeOK, Caller, PC
  <2>3. TypeOK'
    BY <1>2, <2>1, <2>2 DEF IInv, TypeOK
  <2>4. TurnInv'
    BY <1>1, <2>1, <2>2 DEF IInv, TurnInv, InEmergency
  <2>5. LineInv'
    <3>1. Current(x)'
      BY <1>1, <2>1, <2>2 DEF Current, InEmergency
    <3>. QED
      BY <1>1, <2>1, <2>2, <3>1, SameLine DEF IInv
  <2>6. PaidInv'
    BY <2>1 DEF IInv, PaidInv
  <2>. QED
    BY <2>3, <2>4, <2>5, <2>6 DEF IInv
<1>. QED
  BY <1>3, <1>4

LEMMA GiveUpStep ==
  ASSUME IInv, NEW x \in Xct, GiveUp(x)
  PROVE  IInv'
<1>1. /\ rel' = [rel EXCEPT ![x] = call[x].want - call[x].need]
      /\ Returns(x, "read") /\ turn' = turn
  BY DEF GiveUp
<1>2. /\ UNCHANGED <<avail, flag, lock, turn, ready, rsvd, used, undo, old, leaked, dropped>>
      /\ PaidInv'
  BY DEF GiveUp, books, lost, IInv, PaidInv
<1>3. /\ line' \in Seq(Entry) /\ call' \in [Xct -> NCall] /\ pc' \in [Caller -> PC]
      /\ TurnInv' /\ LineInv'
  BY <1>1, CallOver
<1>4. rel' \in [Caller -> Nat]
  <2>1. call[x].want \in Nat /\ call[x].need \in Nat
    BY CallFields DEF IInv, TypeOK
  <2>2. call[x].need <= call[x].want
    BY DEF IInv, TurnInv
  <2>3. call[x].want - call[x].need \in Nat
    BY <2>1, <2>2
  <2>. QED
    BY <1>1, <2>3 DEF IInv, TypeOK
<1>5. TypeOK'
  BY <1>2, <1>3, <1>4 DEF IInv, TypeOK
<1>. QED
  BY <1>2, <1>3, <1>5 DEF IInv

-----------------------------------------------------------------------------
(***************************************************************************)
(* A transaction undoes what it did, or ends.                              *)
(***************************************************************************)
LEMMA UndoStep ==
  ASSUME IInv, NEW x \in Xct, Undo(x)
  PROVE  IInv'
<1>1. /\ UNCHANGED <<avail, flag, line, lock, turn, ready, old, pc, call, rel, leaked, dropped>>
      /\ undo[x] > 0 /\ undo' = [undo EXCEPT ![x] = undo[x] - 1]
  <2>1. undo[x] + -1 = undo[x] - 1
    BY DEF IInv, TypeOK
  <2>. QED
    BY <2>1 DEF Undo, Plus, lost
<1>2. PICK b \in {0, UNDO_FUDGE_FACTOR(1)} :
        rsvd' = [rsvd EXCEPT ![x] = rsvd[x] + -b] /\ used' = [used EXCEPT ![x] = used[x] + b]
  BY DEF Undo, Plus
<1>3. b \in 0..3
  BY <1>2, Sizes DEF UNDO_FUDGE_FACTOR
<1>4. /\ used[x] \in Nat /\ undo[x] \in Nat /\ rsvd[x] \in Nat
      /\ used[x] > 0 /\ rsvd[x] >= 3 * undo[x] + 1
  <2>1. used[x] \in Nat /\ undo[x] \in Nat /\ rsvd[x] \in Nat
    BY DEF IInv, TypeOK
  <2>2. used[x] > 0
    BY <1>1, <2>1 DEF IInv, PaidInv
  <2>. QED
    BY <2>1, <2>2, Sizes DEF IInv, PaidInv
<1>5. rsvd[x] + -b \in Nat /\ used[x] + b \in Nat /\ undo[x] - 1 \in Nat
  BY <1>1, <1>3, <1>4
<1>6. /\ rsvd' \in [Xct -> Nat] /\ used' \in [Xct -> Nat] /\ undo' \in [Xct -> Nat]
      /\ rsvd'[x] = rsvd[x] + -b /\ used'[x] = used[x] + b /\ undo'[x] = undo[x] - 1
      /\ \A y \in Xct : y # x => rsvd'[y] = rsvd[y] /\ used'[y] = used[y] /\ undo'[y] = undo[y]
  BY <1>1, <1>2, <1>5 DEF IInv, TypeOK
<1>7. TypeOK'
  BY <1>1, <1>6 DEF IInv, TypeOK
<1>8. PaidInv'
  <2>1. used'[x] > 0 /\ used'[x] # 0
    BY <1>3, <1>4, <1>6
  <2>2. UNDO_FUDGE_FACTOR(undo'[x]) = 3 * (undo[x] - 1)
    BY <1>6 DEF UNDO_FUDGE_FACTOR
  <2>3. rsvd[x] + -b >= 3 * (undo[x] - 1) + 1
    BY <1>3, <1>4
  <2>4. rsvd'[x] >= UNDO_FUDGE_FACTOR(undo'[x]) + MIN_BYTES_RSVD
    BY <1>6, <2>2, <2>3, Sizes
  <2>. QED
    BY <1>6, <2>1, <2>4 DEF IInv, PaidInv
<1>. QED
  BY <1>1, <1>7, <1>8, BooksStep

LEMMA CompensateStep ==
  ASSUME IInv, NEW x \in Xct, Compensate(x)
  PROVE  IInv'
<1>1. UNCHANGED <<avail, flag, line, lock, turn, ready, old, pc, call, rel, leaked, dropped>>
  BY DEF Compensate, lost
<1>2. PICK u \in 0..(undo[x] - 1) : undo' = [undo EXCEPT ![x] = u]
  BY DEF Compensate
<1>3. PICK b \in 0..1 :
        rsvd' = [rsvd EXCEPT ![x] = rsvd[x] + -b] /\ used' = [used EXCEPT ![x] = used[x] + b]
  BY DEF Compensate, Plus
<1>4. /\ used[x] \in Nat /\ undo[x] \in Nat /\ rsvd[x] \in Nat /\ u \in Nat /\ u < undo[x]
      /\ used[x] > 0 /\ rsvd[x] >= 3 * undo[x] + 1
  <2>1. used[x] \in Nat /\ undo[x] \in Nat /\ rsvd[x] \in Nat
    BY DEF IInv, TypeOK
  <2>2. u \in Nat /\ u < undo[x]
    BY <2>1, <1>2
  <2>3. used[x] > 0
    BY <2>1, <2>2 DEF IInv, PaidInv
  <2>. QED
    BY <2>1, <2>2, <2>3, Sizes DEF IInv, PaidInv
<1>5. rsvd[x] + -b \in Nat /\ used[x] + b \in Nat
  BY <1>3, <1>4
<1>6. /\ rsvd' \in [Xct -> Nat] /\ used' \in [Xct -> Nat] /\ undo' \in [Xct -> Nat]
      /\ rsvd'[x] = rsvd[x] + -b /\ used'[x] = used[x] + b /\ undo'[x] = u
      /\ \A y \in Xct : y # x => rsvd'[y] = rsvd[y] /\ used'[y] = used[y] /\ undo'[y] = undo[y]
  BY <1>2, <1>3, <1>4, <1>5 DEF IInv, TypeOK
<1>7. TypeOK'
  BY <1>1, <1>6 DEF IInv, TypeOK
<1>8. PaidInv'
  <2>1. used'[x] > 0 /\ used'[x] # 0
    BY <1>3, <1>4, <1>6
  <2>2. UNDO_FUDGE_FACTOR(undo'[x]) = 3 * u
    BY <1>6 DEF UNDO_FUDGE_FACTOR
  <2>3. rsvd[x] + -b >= 3 * u + 1
    BY <1>3, <1>4
  <2>4. rsvd'[x] >= UNDO_FUDGE_FACTOR(undo'[x]) + MIN_BYTES_RSVD
    BY <1>6, <2>2, <2>3, Sizes
  <2>. QED
    BY <1>6, <2>1, <2>4 DEF IInv, PaidInv
<1>. QED
  BY <1>1, <1>7, <1>8, BooksStep

\* A thread that is not in wait_for_space goes on to somewhere that is not there either.
LEMMA MovesOn ==
  ASSUME IInv, NEW t \in Caller, NEW p \in PC \ (InEmergency \union {"queue"}),
         pc' = [pc EXCEPT ![t] = p], pc[t] \notin InEmergency,
         UNCHANGED <<line, call>>,
         \A y \in Xct : y # t => (turn' = y <=> turn = y),
         turn' = t => turn = t /\ p \in {"read", "serve", "add"}
  PROVE  pc' \in [Caller -> PC] /\ TurnInv' /\ LineInv'
<1>1. /\ pc'[t] = p /\ \A y \in Caller : y # t => pc'[y] = pc[y]
      /\ pc' \in [Caller -> PC]
  BY DEF IInv, TypeOK
<1>2. Xct \subseteq Caller
  BY DEF Caller
<1>3. TurnInv'
  BY <1>1, <1>2 DEF IInv, TurnInv, InEmergency
<1>4. LineInv'
  <2>1. ~Current(t)
    BY DEF Current, InEmergency
  <2>2. pc[t] # "asleep" /\ p # "asleep"
    BY DEF InEmergency
  <2>. QED
    BY <1>1, <1>2, <2>1, <2>2, SameLine DEF IInv
<1>. QED
  BY <1>1, <1>3, <1>4

LEMMA BeginAbortStep ==
  ASSUME IInv, NEW x \in Xct, BeginAbort(x)
  PROVE  IInv'
<1>1. /\ pc[x] = "active" /\ pc' = [pc EXCEPT ![x] = "abort"]
      /\ UNCHANGED <<avail, flag, line, lock, turn, ready, rsvd, used, undo, old, call, rel,
                     leaked, dropped>>
  BY DEF BeginAbort, Running, Go, books, lost
<1>2. turn # x
  BY <1>1 DEF IInv, TurnInv, InEmergency
<1>3. pc' \in [Caller -> PC] /\ TurnInv' /\ LineInv'
  BY <1>1, <1>2, MovesOn DEF Caller, PC, InEmergency
<1>4. TypeOK' /\ PaidInv'
  BY <1>1, <1>3 DEF IInv, TypeOK, PaidInv
<1>. QED
  BY <1>3, <1>4 DEF IInv

LEMMA EndStep ==
  ASSUME IInv, NEW x \in Xct, End(x)
  PROVE  IInv'
<1>. DEFINE last == IF used[x] > 0 THEN 1 ELSE 0
            rest == ready[x] + rsvd[x] - last
            p == IF rest > 0 THEN "read" ELSE "out"
<1>1. /\ pc[x] \in {"active", "abort"} /\ pc' = [pc EXCEPT ![x] = p] /\ p \in {"read", "out"}
      /\ old' = old + used[x] + last /\ rel' = [rel EXCEPT ![x] = rest]
      /\ ready' = [ready EXCEPT ![x] = 0] /\ rsvd' = [rsvd EXCEPT ![x] = 0]
      /\ used' = [used EXCEPT ![x] = 0] /\ undo' = [undo EXCEPT ![x] = 0]
      /\ UNCHANGED <<avail, flag, line, lock, turn, call, leaked, dropped>>
  BY DEF End, Running, Go, lost
<1>2. last \in Nat /\ rest \in Nat
  <2>1. ready[x] \in Nat /\ rsvd[x] \in Nat /\ used[x] \in Nat /\ undo[x] \in Nat
    BY DEF IInv, TypeOK
  <2>2. used[x] > 0 => rsvd[x] >= 1
    BY <2>1, Sizes DEF IInv, PaidInv
  <2>. QED
    BY <2>1, <2>2
<1>. HIDE DEF last, rest, p
<1>3. turn # x
  BY <1>1 DEF IInv, TurnInv, InEmergency
<1>4. pc' \in [Caller -> PC] /\ TurnInv' /\ LineInv'
  <2>1. x \in Caller /\ p \in PC \ (InEmergency \union {"queue"}) /\ pc[x] \notin InEmergency
    BY <1>1 DEF Caller, PC, InEmergency
  <2>. QED
    BY <1>1, <1>3, <2>1, MovesOn
<1>5. old' \in Nat /\ rel' \in [Caller -> Nat]
  <2>1. old \in Nat /\ used[x] \in Nat
    BY DEF IInv, TypeOK
  <2>2. old' \in Nat
    BY <1>1, <1>2, <2>1
  <2>. QED
    BY <1>1, <1>2, <2>2 DEF IInv, TypeOK
<1>6. /\ ready' \in [Xct -> Nat] /\ rsvd' \in [Xct -> Nat]
      /\ used' \in [Xct -> Nat] /\ undo' \in [Xct -> Nat]
      /\ used'[x] = 0 /\ undo'[x] = 0 /\ rsvd'[x] = 0
      /\ \A y \in Xct : y # x => rsvd'[y] = rsvd[y] /\ used'[y] = used[y] /\ undo'[y] = undo[y]
  BY <1>1 DEF IInv, TypeOK
<1>7. PaidInv'
  BY <1>6 DEF IInv, PaidInv
<1>8. TypeOK'
  BY <1>1, <1>4, <1>5, <1>6 DEF IInv, TypeOK
<1>. QED
  BY <1>4, <1>7, <1>8 DEF IInv

LEMMA ScavengeStep ==
  ASSUME IInv, Scavenge
  PROVE  IInv'
<1>1. /\ pc[Scavenger] = "out" /\ pc' = [pc EXCEPT ![Scavenger] = "read"]
      /\ rel' = [rel EXCEPT ![Scavenger] = old] /\ old' = 0
      /\ UNCHANGED <<avail, flag, line, lock, turn, ready, rsvd, used, undo, call, leaked,
                     dropped>>
  BY DEF Scavenge, Go, lost
<1>2. turn # Scavenger
  BY NamesAssumption DEF IInv, TypeOK
<1>3. pc' \in [Caller -> PC] /\ TurnInv' /\ LineInv'
  BY <1>1, <1>2, MovesOn DEF Caller, PC, InEmergency
<1>4. TypeOK' /\ PaidInv'
  BY <1>1, <1>3 DEF IInv, TypeOK, PaidInv
<1>. QED
  BY <1>3, <1>4 DEF IInv

-----------------------------------------------------------------------------
(***************************************************************************)
(* Space is given back.                                                    *)
(***************************************************************************)
LEMMA ReadFlagStep ==
  ASSUME IInv, NEW t \in Caller, ReadFlag(t)
  PROVE  IInv'
<1>. DEFINE p == IF flag THEN "serve" ELSE "add"
<1>1. /\ pc[t] = "read" /\ pc' = [pc EXCEPT ![t] = p] /\ p \in {"serve", "add"}
      /\ UNCHANGED <<avail, flag, line, lock, turn, ready, rsvd, used, undo, old, call, rel,
                     leaked, dropped>>
  BY DEF ReadFlag, Go, books, lost
<1>. HIDE DEF p
<1>2. p \in PC \ (InEmergency \union {"queue"}) /\ pc[t] \notin InEmergency
  BY <1>1 DEF PC, InEmergency
<1>3. pc' \in [Caller -> PC] /\ TurnInv' /\ LineInv'
  BY <1>1, <1>2, MovesOn
<1>4. TypeOK' /\ PaidInv'
  BY <1>1, <1>3 DEF IInv, TypeOK, PaidInv
<1>. QED
  BY <1>3, <1>4 DEF IInv

\* The line without its first entry, if that one points at no call in progress.
LEMMA HeadGoes ==
  ASSUME IInv, line # <<>>, Head(line).at \notin {"now", "before"},
         line' = Tail(line) \/ line' = line, UNCHANGED <<pc, call, turn>>
  PROVE  line' \in Seq(Entry) /\ LineInv'
<1>1. line \in Seq(Entry)
  BY DEF IInv, TypeOK
<1>2. /\ line' \in Seq(Entry) /\ Listed(line') \subseteq Listed(line)
      /\ Listed(line) \subseteq Listed(line') \union {Head(line)}
  BY <1>1, ListedTail
<1>3. ASSUME NEW y \in Xct, pc'[y] = "asleep", call'[y].need > 0
      PROVE  [who |-> y, at |-> "now"] \in Listed(line')
  <2>1. [who |-> y, at |-> "now"] \in Listed(line)
    BY <1>3 DEF IInv, LineInv
  <2>2. [who |-> y, at |-> "now"] # Head(line)
    OBVIOUS
  <2>. QED
    BY <1>2, <2>1, <2>2
<1>4. \A e \in Listed(line') : e.at = "now" => pc'[e.who] = "asleep"
  BY <1>2 DEF IInv, LineInv
<1>5. \A e \in Listed(line') : e.at = "before" => Current(e.who)'
  BY <1>2 DEF IInv, LineInv, Current
<1>6. ForeverSignalled'
  BY DEF IInv, LineInv, ForeverSignalled
<1>. QED
  BY <1>2, <1>3, <1>4, <1>5, <1>6, Zenon DEF LineInv, Current

LEMMA ServeNullStep ==
  ASSUME IInv, NEW t \in Caller, ServeNull(t)
  PROVE  IInv'
<1>1. /\ line # <<>> /\ Head(line).at \notin {"now", "before"} /\ line' = Tail(line) /\ lock' = t
      /\ UNCHANGED <<avail, flag, turn, ready, rsvd, used, undo, old, pc, call, rel, leaked,
                     dropped>>
  BY DEF ServeNull, MoreToServe, books, lost
<1>2. line' \in Seq(Entry) /\ LineInv'
  BY <1>1, HeadGoes
<1>3. TypeOK' /\ PaidInv' /\ TurnInv'
  BY <1>1, <1>2 DEF IInv, TypeOK, PaidInv, TurnInv
<1>. QED
  BY <1>2, <1>3 DEF IInv

LEMMA ServeGoneStep ==
  ASSUME IInv, NEW t \in Caller, ServeGone(t)
  PROVE  IInv'
<1>1. /\ line # <<>> /\ Head(line).at \notin {"now", "before"} /\ lock' = t
      /\ UNCHANGED <<avail, flag, turn, ready, rsvd, used, undo, old, pc, call, dropped>>
  BY DEF ServeGone, MoreToServe, books
<1>2. PICK n \in 0..rel[t] : /\ rel' = [rel EXCEPT ![t] = rel[t] + -n] /\ leaked' = leaked + n
                             /\ line' = Tail(line) \/ line' = line
  BY DEF ServeGone, Plus
<1>3. line' \in Seq(Entry) /\ LineInv'
  BY <1>1, <1>2, HeadGoes
<1>4. rel' \in [Caller -> Nat] /\ leaked' \in Nat
  <2>1. rel[t] \in Nat /\ leaked \in Nat
    BY DEF IInv, TypeOK
  <2>2. rel[t] + -n \in Nat /\ leaked + n \in Nat
    BY <2>1
  <2>. QED
    BY <1>2, <2>2 DEF IInv, TypeOK
<1>5. TypeOK' /\ PaidInv' /\ TurnInv'
  BY <1>1, <1>3, <1>4 DEF IInv, TypeOK, PaidInv, TurnInv
<1>. QED
  BY <1>3, <1>5 DEF IInv

LEMMA LesserOf ==
  ASSUME NEW a \in Nat, NEW b \in Nat
  PROVE  Min({a, b}) \in Nat /\ Min({a, b}) <= a /\ Min({a, b}) <= b
<1>1. \E x \in {a, b} : \A y \in {a, b} : x <= y
  OBVIOUS
<1>2. Min({a, b}) \in {a, b} /\ \A y \in {a, b} : Min({a, b}) <= y
  BY <1>1, Zenon DEF Min
<1>. QED
  BY <1>2

LEMMA ServeWaiterStep ==
  ASSUME IInv, NEW t \in Caller, ServeWaiter(t)
  PROVE  IInv'
<1>. DEFINE h == Head(line)
            x == h.who
            n == Min({rel[t], call[x].need})
            all == n = call[x].need
            c == call'[x]
<1>1. /\ line # <<>> /\ h.at \in {"now", "before"} /\ lock' = t
      /\ rel' = [rel EXCEPT ![t] = rel[t] + -n]
      /\ call' = [call EXCEPT ![x].need = @ - n,
                              ![x].signalled = @ \/ (all /\ h.at = "now")]
      /\ line' = IF all THEN Tail(line) ELSE line
  BY Zenon DEF ServeWaiter, MoreToServe, Plus
<1>2. /\ UNCHANGED <<avail, flag, turn, ready, rsvd, used, undo, old, pc, leaked, dropped>>
      /\ PaidInv'
  BY DEF ServeWaiter, books, lost, IInv, PaidInv
<1>3. /\ line \in Seq(Entry) /\ h \in Listed(line) /\ x \in Xct
      /\ Tail(line) \in Seq(Entry) /\ Listed(Tail(line)) \subseteq Listed(line)
      /\ Listed(line) \subseteq Listed(Tail(line)) \union {h}
  <2>1. line \in Seq(Entry)
    BY DEF IInv, TypeOK
  <2>2. \A e \in Listed(line) : e.who \in Xct
    BY EntryOf DEF IInv
  <2>. QED
    BY <1>1, <2>1, <2>2, ListedTail
<1>4. /\ rel[t] \in Nat /\ call[x] \in NCall /\ call[x].need \in Nat
      /\ call[x].want \in Nat /\ call[x].signalled \in BOOLEAN
      /\ call[x].need <= call[x].want
  <2>1. rel[t] \in Nat /\ call[x] \in NCall
    BY <1>3 DEF IInv, TypeOK
  <2>2. call[x].need <= call[x].want
    BY <1>3 DEF IInv, TurnInv
  <2>. QED
    BY <2>1, <2>2, CallFields
<1>5. n \in Nat /\ n <= rel[t] /\ n <= call[x].need
  BY <1>4, LesserOf
<1>6. /\ c.need = call[x].need - n /\ c.want = call[x].want /\ c.forever = call[x].forever
      /\ c.signalled = (call[x].signalled \/ (all /\ h.at = "now"))
      /\ c \in NCall
      /\ \A y \in Xct : y # x => call'[y] = call[y]
      /\ call' \in [Xct -> NCall]
  <2>. HIDE DEF n, all, x, h
  <2>1. call[x].need - n \in Nat
    BY <1>4, <1>5
  <2>2. call \in [Xct -> NCall]
    BY DEF IInv, TypeOK
  <2>. QED
    BY <1>1, <1>3, <1>4, <2>1, <2>2 DEF NCall
<1>. HIDE DEF n, c
<1>7. line' \in Seq(Entry) /\ Listed(line') \subseteq Listed(line)
  BY <1>1, <1>3
<1>8. rel' \in [Caller -> Nat]
  <2>1. rel[t] + -n \in Nat
    BY <1>4, <1>5
  <2>. QED
    BY <1>1, <2>1 DEF IInv, TypeOK
<1>9. TypeOK'
  BY <1>1, <1>2, <1>6, <1>7, <1>8 DEF IInv, TypeOK
<1>10. TurnInv'
  <2>1. c.need <= c.want
    BY <1>4, <1>5, <1>6
  <2>2. \A y \in Xct : call'[y].want = call[y].want /\ call'[y].forever = call[y].forever
    BY <1>6 DEF c
  <2>3. \A y \in Xct : call'[y].need <= call'[y].want
    BY <1>6, <2>1 DEF IInv, TurnInv, c
  <2>. QED
    BY <1>2, <2>2, <2>3 DEF IInv, TurnInv
<1>11. LineInv'
  <2>1. \A e \in Listed(line') : e.at = "now" => pc'[e.who] = "asleep"
    BY <1>2, <1>7 DEF IInv, LineInv
  <2>2. \A e \in Listed(line') : e.at = "before" => Current(e.who)'
    BY <1>2, <1>7 DEF IInv, LineInv, Current
  <2>3. ASSUME NEW y \in Xct, pc'[y] = "asleep", call'[y].need > 0
        PROVE  [who |-> y, at |-> "now"] \in Listed(line')
    <3>1. CASE y = x
      <4>1. ~all /\ call[x].need > 0
        BY <2>3, <3>1, <1>4, <1>5, <1>6 DEF c
      <4>. QED
        BY <2>3, <3>1, <4>1, <1>1, <1>2 DEF IInv, LineInv
    <3>2. CASE y # x
      <4>1. [who |-> y, at |-> "now"] \in Listed(line)
        BY <2>3, <3>2, <1>2, <1>6 DEF IInv, LineInv
      <4>2. [who |-> y, at |-> "now"] # h
        BY <3>2
      <4>. QED
        BY <4>1, <4>2, <1>1, <1>3
    <3>. QED
      BY <3>1, <3>2
  <2>4. ASSUME NEW y \in Xct, pc'[y] = "asleep", call'[y].forever, call'[y].need = 0
        PROVE  call'[y].signalled
    <3>1. CASE y = x
      <4>1. all /\ call[x].forever /\ pc[x] = "asleep"
        BY <2>4, <3>1, <1>2, <1>4, <1>5, <1>6 DEF c
      <4>2. h.at # "before"
        <5>1. SUFFICES ASSUME h.at = "before" PROVE FALSE
          OBVIOUS
        <5>2. Current(x)
          BY <5>1, <1>3 DEF IInv, LineInv
        <5>3. turn = x /\ pc[x] \in InEmergency
          BY <4>1, <5>2 DEF Current
        <5>. QED
          BY <4>1, <5>3, <1>3 DEF IInv, TurnInv
      <4>. QED
        BY <3>1, <4>1, <4>2, <1>1, <1>6 DEF c
    <3>2. CASE y # x
      BY <2>4, <3>2, <1>2, <1>6 DEF IInv, LineInv, ForeverSignalled
    <3>. QED
      BY <3>1, <3>2
  <2>5. ForeverSignalled'
    BY <2>4 DEF ForeverSignalled
  <2>. QED
    BY <2>1, <2>2, <2>3, <2>5, Zenon DEF LineInv, Current
<1>. QED
  BY <1>2, <1>9, <1>10, <1>11 DEF IInv

LEMMA ServedStep ==
  ASSUME IInv, NEW t \in Caller, Served(t)
  PROVE  IInv'
<1>1. /\ pc[t] = "serve" /\ pc' = [pc EXCEPT ![t] = "add"] /\ flag' \in BOOLEAN /\ lock' = NoThread
      /\ UNCHANGED <<avail, line, turn, ready, rsvd, used, undo, old, call, rel, leaked, dropped>>
  BY DEF Served, Serving, Go, books, lost
<1>2. "add" \in PC \ (InEmergency \union {"queue"}) /\ pc[t] \notin InEmergency
  BY <1>1 DEF PC, InEmergency
<1>3. pc' \in [Caller -> PC] /\ TurnInv' /\ LineInv'
  BY <1>1, <1>2, MovesOn
<1>4. TypeOK' /\ PaidInv'
  BY <1>1, <1>3 DEF IInv, TypeOK, PaidInv
<1>. QED
  BY <1>3, <1>4 DEF IInv

LEMMA AddStep ==
  ASSUME IInv, NEW t \in Caller, Add(t)
  PROVE  IInv'
<1>. DEFINE p == IF turn = t THEN "active" ELSE "out"
<1>1. /\ pc[t] = "add" /\ pc' = [pc EXCEPT ![t] = p] /\ p \in {"active", "out"}
      /\ avail' = avail + rel[t] /\ rel' = [rel EXCEPT ![t] = 0]
      /\ turn' = IF turn = t THEN NoThread ELSE turn
      /\ UNCHANGED <<flag, line, lock, ready, rsvd, used, undo, old, call, leaked, dropped>>
  BY DEF Add, Go, books, lost
<1>. HIDE DEF p
<1>2. /\ p \in PC \ (InEmergency \union {"queue"}) /\ pc[t] \notin InEmergency
      /\ turn' # t /\ \A y \in Xct : y # t => (turn' = y <=> turn = y)
  BY <1>1, NamesAssumption DEF PC, InEmergency, Caller
<1>3. pc' \in [Caller -> PC] /\ TurnInv' /\ LineInv'
  BY <1>1, <1>2, MovesOn
<1>4. avail' \in Nat
  <2>1. avail \in Nat /\ rel[t] \in Nat
    BY DEF IInv, TypeOK
  <2>. QED
    BY <1>1, <2>1
<1>5. TypeOK' /\ PaidInv'
  BY <1>1, <1>3, <1>4 DEF IInv, TypeOK, PaidInv
<1>. QED
  BY <1>3, <1>5 DEF IInv

-----------------------------------------------------------------------------
LEMMA Initially == Init => IInv
<1>. SUFFICES ASSUME Init PROVE IInv
  OBVIOUS
<1>1. line = <<>> /\ Listed(line) = {}
  BY DEF Init, Listed
<1>2. /\ call = [x \in Xct |-> NoCall] /\ \A x \in Xct : call[x].need = 0 /\ call[x].want = 0
      /\ call \in [Xct -> NCall] /\ \A x \in Xct : ~call[x].forever
  BY NoCallFields DEF Init
<1>3. \A x \in Xct : pc[x] = "out" /\ turn # x
  BY NamesAssumption DEF Init, Caller
<1>4. TypeOK
  <2>1. <<>> \in Seq(Entry) /\ Total \in Nat /\ "out" \in PC
    BY SpaceAssumption DEF PC
  <2>. QED
    BY <2>1, <1>1, <1>2 DEF Init, TypeOK
<1>5. TurnInv
  BY <1>2, <1>3 DEF TurnInv, InEmergency
<1>6. PaidInv
  BY DEF Init, PaidInv
<1>7. LineInv
  BY <1>1, <1>3 DEF LineInv, ForeverSignalled
<1>. QED
  BY <1>4, <1>5, <1>6, <1>7 DEF IInv

LEMMA Unchanged == IInv /\ UNCHANGED vars => IInv'
<1>. SUFFICES ASSUME IInv, UNCHANGED vars PROVE IInv'
  OBVIOUS
<1>1. /\ UNCHANGED <<avail, flag, line, lock, turn, ready, rsvd, used, undo, old, pc, call, rel,
                     leaked, dropped>>
  BY DEF vars, books, lost
<1>2. TypeOK' /\ PaidInv'
  BY <1>1 DEF IInv, TypeOK, PaidInv
<1>. QED
  BY <1>1, <1>2, BooksStep

LEMMA BufferStep ==
  ASSUME IInv, BufferFull \/ BufferFlushed
  PROVE  IInv'
<1>1. /\ flag' \in BOOLEAN
      /\ UNCHANGED <<avail, line, lock, turn, ready, rsvd, used, undo, old, pc, call, rel,
                     leaked, dropped>>
  BY DEF BufferFull, BufferFlushed, books, lost
<1>2. TypeOK' /\ PaidInv'
  BY <1>1 DEF IInv, TypeOK, PaidInv
<1>. QED
  BY <1>1, <1>2, BooksStep

LEMMA Inductive == IInv /\ [Next]_vars => IInv'
<1>. SUFFICES ASSUME IInv, [Next]_vars PROVE IInv'
  OBVIOUS
<1>1. ASSUME NEW x \in Xct, Working(x)
      PROVE  IInv'
  BY <1>1, BeginStep, LogStep, LogFullStep, AskSpaceStep, UndoStep, CompensateStep,
     BeginAbortStep, EndStep DEF Working
<1>2. ASSUME NEW x \in Xct, Waiting(x)
      PROVE  IInv'
  BY <1>2, TryStep, BeginWaitStep, AwakeStep, TimedOutStep, BackInAskStep, BackServedStep,
     BackShortStep, LastLookStep, GiveUpStep DEF Waiting, SignalledAwake
<1>3. ASSUME NEW x \in Xct, EnterEmergency(x) \/ SpuriousAwake(x)
      PROVE  IInv'
  BY <1>3, EnterEmergencyStep, AwakeStep DEF SpuriousAwake
<1>4. ASSUME NEW t \in Caller, Giving(t)
      PROVE  IInv'
  BY <1>4, ReadFlagStep, ServeNullStep, ServeGoneStep, ServeWaiterStep, ServedStep, AddStep
     DEF Giving
<1>5. CASE Scavenge \/ BufferFull \/ BufferFlushed
  BY <1>5, ScavengeStep, BufferStep
<1>6. CASE UNCHANGED vars
  BY <1>6, Unchanged
<1>. QED
  BY <1>1, <1>2, <1>3, <1>4, <1>5, <1>6, Zenon DEF Next

\* The invariant that the three promises rest on.
THEOREM Invariant == Spec => []IInv
  BY Initially, Inductive, PTL DEF Spec

\* A transaction that has logged always holds enough to undo it, at three times the bytes,
\* and to log its end (RollbackPaid): what get_logbuf puts aside covers every abort.
THEOREM RollbackIsPaid == Spec => []RollbackPaid
<1>1. IInv => RollbackPaid
  BY DEF IInv, PaidInv, TypeOK, RollbackPaid
<1>. QED
  BY <1>1, Invariant, PTL

\* Who sleeps for log space is in line, under the wait it is in (SleeperListed), however
\* the line is trimmed and whatever earlier waits left in it.
THEOREM SleeperIsListed == Spec => []SleeperListed
<1>1. IInv => SleeperListed
  <2>. SUFFICES ASSUME IInv, NEW x \in Xct, pc[x] = "asleep", call[x].need > 0
                PROVE  \E i \in DOMAIN line : line[i] = [who |-> x, at |-> "now"]
    BY DEF SleeperListed
  <2>1. [who |-> x, at |-> "now"] \in Listed(line)
    BY DEF IInv, LineInv
  <2>. QED
    BY <2>1 DEF Listed
<1>. QED
  BY <1>1, Invariant, PTL

\* Who sleeps without end and was given all it needs was signalled (ForeverSignalled): no
\* release hands the last byte to an earlier wait of such a call.
THEOREM ForeverIsSignalled == Spec => []ForeverSignalled
<1>1. IInv => ForeverSignalled
  BY DEF IInv, LineInv
<1>. QED
  BY <1>1, Invariant, PTL

-----------------------------------------------------------------------------
(***************************************************************************)
(* Sums over a finite set, of which SumFunction leaves open in what order  *)
(* they are taken.                                                         *)
(***************************************************************************)
LEMMA LeastMember ==
  ASSUME NEW T \in SUBSET Nat, T # {}
  PROVE  \E n \in T : \A k \in T : n <= k
<1>. DEFINE R == OpToRel(<, Nat)
<1>1. \A a, b \in Nat : a < b => <<a, b>> \in R
  BY DEF OpToRel
<1>2. IsWellFoundedOn(R, Nat)
  BY NatLessThanWellFounded
<1>. HIDE DEF R
<1>3. PICK n \in T : \A k \in T : ~(<<k, n>> \in R)
  BY <1>2, WFMin
<1>4. ASSUME NEW k \in T
      PROVE  n <= k
  <2>1. n \in Nat /\ k \in Nat /\ ~(<<k, n>> \in R)
    BY <1>3
  <2>2. ~(k < n)
    BY <2>1, <1>1, Zenon
  <2>. QED
    BY <2>1, <2>2
<1>. QED
  BY <1>4

\* Induction over the subsets of a finite set.
LEMMA SubsetInduction ==
  ASSUME NEW S, IsFiniteSet(S), NEW T,
         \A s \in SUBSET S : (\A x \in s : s \ {x} \in T) => s \in T
  PROVE  \A s \in SUBSET S : s \in T
<1>. DEFINE Counts == {Cardinality(s) : s \in {r \in SUBSET S : r \notin T}}
<1>1. \A s \in SUBSET S : IsFiniteSet(s) /\ Cardinality(s) \in Nat
  BY FS_Subset, FS_CardinalityType
<1>2. CASE Counts = {}
  BY <1>2
<1>3. CASE Counts # {}
  <2>1. Counts \in SUBSET Nat
    BY <1>1
  <2>. HIDE DEF Counts
  <2>2. PICK n \in Counts : \A k \in Counts : n <= k
    BY <1>3, <2>1, LeastMember
  <2>3. PICK s \in SUBSET S : s \notin T /\ Cardinality(s) = n
    BY <2>2 DEF Counts
  <2>4. PICK x \in s : s \ {x} \notin T
    BY <2>3
  <2>5. Cardinality(s \ {x}) = Cardinality(s) - 1
    BY <1>1, FS_RemoveElement
  <2>6. Cardinality(s \ {x}) \in Counts
    BY <2>4 DEF Counts
  <2>. QED
    BY <1>1, <2>2, <2>3, <2>5, <2>6
<1>. QED
  BY <1>2, <1>3

Pick(s) == CHOOSE x \in s : TRUE

IsPart(f, h) ==
  h = [s \in SUBSET DOMAIN f |-> IF s = {} THEN 0 ELSE f[Pick(s)] + h[s \ {Pick(s)}]]
Part(f) == CHOOSE h : IsPart(f, h)

LEMMA SumIs ==
  ASSUME NEW f
  PROVE  SumFunction(f) = Part(f)[DOMAIN f]
  BY DEF SumFunction, SumFunctionOnSet, FoldFunctionOnSet, MapThenFoldSet, Pick, Part, IsPart

\* The sums over the subsets of up to n elements.
Small(S, n) == {s \in SUBSET S : Cardinality(s) <= n}
SumsUpTo(f, n, h) ==
  \A s \in Small(DOMAIN f, n) :
    h[s] = IF s = {} THEN 0 ELSE f[Pick(s)] + h[s \ {Pick(s)}]

LEMMA PartExists ==
  ASSUME NEW S, IsFiniteSet(S), NEW f \in [S -> Int]
  PROVE  IsPart(f, Part(f))
<1>. DEFINE T == {n \in Nat : ~ \E h \in [Small(S, n) -> Int] : SumsUpTo(f, n, h)}
<1>1. \A s \in SUBSET S :
        /\ IsFiniteSet(s) /\ Cardinality(s) \in Nat /\ Cardinality(s) <= Cardinality(S)
        /\ Cardinality(s) = 0 <=> s = {}
  BY FS_Subset, FS_CardinalityType, FS_EmptySet
<1>2. \A s \in SUBSET S : s # {} =>
        /\ Pick(s) \in s /\ s \ {Pick(s)} \in SUBSET S
        /\ Cardinality(s \ {Pick(s)}) = Cardinality(s) - 1
  BY <1>1, FS_RemoveElement DEF Pick
<1>3. T = {}
  <2>. SUFFICES ASSUME T # {} PROVE FALSE
    OBVIOUS
  <2>1. PICK n \in T : \A k \in T : n <= k
    BY LeastMember
  <2>2. n \in Nat /\ ~ \E h \in [Small(S, n) -> Int] : SumsUpTo(f, n, h)
    BY <2>1
  <2>3. CASE n = 0
    <3>1. \A s \in Small(S, 0) : s = {}
      BY <1>1 DEF Small
    <3>2. [s \in Small(S, 0) |-> 0] \in [Small(S, 0) -> Int]
      OBVIOUS
    <3>3. SumsUpTo(f, 0, [s \in Small(S, 0) |-> 0])
      BY <3>1 DEF SumsUpTo
    <3>. QED
      BY <2>2, <2>3, <3>2, <3>3
  <2>4. CASE n # 0
    <3>1. n - 1 \in Nat /\ n - 1 \notin T
      BY <2>1, <2>2, <2>4
    <3>2. PICK g \in [Small(S, n - 1) -> Int] : SumsUpTo(f, n - 1, g)
      BY <3>1
    <3>. DEFINE h == [s \in Small(S, n) |->
                        IF s = {} THEN 0 ELSE f[Pick(s)] + g[s \ {Pick(s)}]]
    <3>3. \A s \in Small(S, n) : s # {} =>
            f[Pick(s)] \in Int /\ s \ {Pick(s)} \in Small(S, n - 1)
      BY <1>1, <1>2, <2>2 DEF Small
    <3>4. h \in [Small(S, n) -> Int]
      BY <3>3
    <3>5. \A s \in Small(S, n - 1) : s \in Small(S, n) /\ h[s] = g[s]
      BY <3>2, <1>1, <2>2 DEF SumsUpTo, Small
    <3>6. SumsUpTo(f, n, h)
      <4>. SUFFICES ASSUME NEW s \in Small(S, n)
                    PROVE  h[s] = IF s = {} THEN 0 ELSE f[Pick(s)] + h[s \ {Pick(s)}]
        BY DEF SumsUpTo
      <4>1. h[s] = IF s = {} THEN 0 ELSE f[Pick(s)] + g[s \ {Pick(s)}]
        OBVIOUS
      <4>. HIDE DEF h
      <4>. QED
        BY <4>1, <3>3, <3>5
    <3>. QED
      BY <2>2, <3>4, <3>6
  <2>. QED
    BY <2>3, <2>4
<1>4. PICK h \in [Small(S, Cardinality(S)) -> Int] : SumsUpTo(f, Cardinality(S), h)
  <2>1. Cardinality(S) \in Nat
    BY <1>1
  <2>. QED
    BY <1>3, <2>1
<1>5. Small(S, Cardinality(S)) = SUBSET S
  BY <1>1 DEF Small
<1>6. IsPart(f, h)
  BY <1>4, <1>5 DEF IsPart, SumsUpTo
<1>. QED
  BY <1>6 DEF Part

\* A sum over a set, whichever element is left for the last.
LEMMA PartOf ==
  ASSUME NEW S, IsFiniteSet(S), NEW f \in [S -> Int]
  PROVE  \A s \in SUBSET S :
           /\ Part(f)[s] \in Int
           /\ s = {} => Part(f)[s] = 0
           /\ \A x \in s : Part(f)[s] = f[x] + Part(f)[s \ {x}]
<1>. DEFINE Ok(s) == /\ \A r \in SUBSET s : Part(f)[r] \in Int
                     /\ \A x \in s : Part(f)[s] = f[x] + Part(f)[s \ {x}]
            T == {s \in SUBSET S : Ok(s)}
<1>1. \A s \in SUBSET S :
        Part(f)[s] = IF s = {} THEN 0 ELSE f[Pick(s)] + Part(f)[s \ {Pick(s)}]
  <2>1. IsPart(f, Part(f))
    BY PartExists
  <2>. HIDE DEF Part
  <2>. QED
    BY <2>1 DEF IsPart
<1>2. ASSUME NEW s \in SUBSET S, \A x \in s : s \ {x} \in T
      PROVE  s \in T
  <2>1. CASE s = {}
    <3>1. Part(f)[s] = 0 /\ \A r \in SUBSET s : r = s
      BY <1>1, <2>1
    <3>. HIDE DEF Part
    <3>2. Ok(s)
      BY <2>1, <3>1
    <3>. QED
      BY <3>2
  <2>2. CASE s # {}
    <3>. DEFINE p == Pick(s)
    <3>1. p \in s
      BY <2>2 DEF Pick
    <3>2. Part(f)[s] = f[p] + Part(f)[s \ {p}]
      BY <1>1, <2>2
    <3>. HIDE DEF p
    <3>3. f[p] \in Int /\ Part(f)[s \ {p}] \in Int
      BY <3>1, <1>2
    <3>4. ASSUME NEW x \in s, x # p
          PROVE  Part(f)[s] = f[x] + Part(f)[s \ {x}]
      <4>1. Ok(s \ {x}) /\ Ok(s \ {p})
        BY <1>2, <3>1
      <4>2. (s \ {x}) \ {p} = (s \ {p}) \ {x}
        OBVIOUS
      <4>3. Part(f)[s \ {x}] = f[p] + Part(f)[(s \ {x}) \ {p}]
        BY <4>1, <3>1, <3>4
      <4>4. Part(f)[s \ {p}] = f[x] + Part(f)[(s \ {x}) \ {p}]
        BY <4>1, <4>2, <3>4
      <4>5. Part(f)[(s \ {x}) \ {p}] \in Int /\ f[x] \in Int
        <5>1. (s \ {x}) \ {p} \in SUBSET (s \ {x})
          OBVIOUS
        <5>. QED
          BY <4>1, <5>1
      <4>. QED
        BY <3>2, <3>3, <4>3, <4>4, <4>5
    <3>5. ASSUME NEW r \in SUBSET s
          PROVE  Part(f)[r] \in Int
      <4>1. CASE r = s
        BY <4>1, <3>2, <3>3
      <4>2. CASE r # s
        <5>1. PICK x \in s : r \in SUBSET (s \ {x})
          BY <4>2
        <5>. QED
          BY <5>1, <1>2
      <4>. QED
        BY <4>1, <4>2
    <3>6. Ok(s)
      BY <3>2, <3>4, <3>5
    <3>. QED
      BY <3>6
  <2>. QED
    BY <2>1, <2>2
<1>3. \A s \in SUBSET S : s \in T
  <2>. HIDE DEF T
  <2>. QED
    BY <1>2, SubsetInduction
<1>. QED
  BY <1>1, <1>3

LEMMA PartOfAll ==
  ASSUME NEW S, IsFiniteSet(S), NEW f \in [S -> Int], NEW x \in S
  PROVE  Part(f)[S] = f[x] + Part(f)[S \ {x}] /\ Part(f)[S \ {x}] \in Int
<1>1. S \in SUBSET S /\ S \ {x} \in SUBSET S
  OBVIOUS
<1>2. Part(f)[S] = f[x] + Part(f)[S \ {x}]
  BY <1>1, PartOf
<1>3. Part(f)[S \ {x}] \in Int
  BY <1>1, PartOf
<1>. QED
  BY <1>2, <1>3

\* One summand changes.
LEMMA SumOfChange ==
  ASSUME NEW S, IsFiniteSet(S), NEW g \in [S -> Int], NEW h \in [S -> Int], NEW x \in S,
         \A y \in S \ {x} : h[y] = g[y]
  PROVE  SumFunction(h) = SumFunction(g) - g[x] + h[x]
<1>. DEFINE T == {s \in SUBSET S : x \notin s => Part(h)[s] = Part(g)[s]}
<1>1. ASSUME NEW s \in SUBSET S, \A y \in s : s \ {y} \in T
      PROVE  s \in T
  <2>1. CASE s = {}
    BY <2>1, PartOf
  <2>2. CASE s # {} /\ x \notin s
    <3>1. PICK y \in s : TRUE
      BY <2>2
    <3>2. Part(h)[s] = h[y] + Part(h)[s \ {y}] /\ Part(g)[s] = g[y] + Part(g)[s \ {y}]
      BY PartOf
    <3>3. Part(h)[s \ {y}] = Part(g)[s \ {y}] /\ h[y] = g[y]
      BY <1>1, <2>2
    <3>. QED
      BY <3>2, <3>3
  <2>. QED
    BY <2>1, <2>2
<1>2. \A s \in SUBSET S : s \in T
  <2>. HIDE DEF T
  <2>. QED
    BY <1>1, SubsetInduction
<1>3. Part(h)[S \ {x}] = Part(g)[S \ {x}]
  BY <1>2
<1>4. /\ Part(h)[S] = h[x] + Part(h)[S \ {x}] /\ Part(g)[S] = g[x] + Part(g)[S \ {x}]
      /\ Part(g)[S \ {x}] \in Int
  BY PartOfAll
<1>5. SumFunction(g) = Part(g)[S] /\ SumFunction(h) = Part(h)[S]
  BY SumIs
<1>6. g[x] \in Int /\ h[x] \in Int
  OBVIOUS
<1>. QED
  BY <1>3, <1>4, <1>5, <1>6

LEMMA SumOfNothing ==
  ASSUME NEW S, IsFiniteSet(S), NEW f \in [S -> Int], \A x \in S : f[x] = 0
  PROVE  SumFunction(f) = 0
<1>. DEFINE T == {s \in SUBSET S : Part(f)[s] = 0}
<1>1. ASSUME NEW s \in SUBSET S, \A y \in s : s \ {y} \in T
      PROVE  s \in T
  <2>1. CASE s = {}
    BY <2>1, PartOf
  <2>2. CASE s # {}
    <3>1. PICK y \in s : TRUE
      BY <2>2
    <3>2. Part(f)[s] = f[y] + Part(f)[s \ {y}] /\ Part(f)[s \ {y}] = 0 /\ f[y] = 0
      BY PartOf, <1>1
    <3>. QED
      BY <3>2
  <2>. QED
    BY <2>1, <2>2
<1>2. \A s \in SUBSET S : s \in T
  <2>. HIDE DEF T
  <2>. QED
    BY <1>1, SubsetInduction
<1>3. SumFunction(f) = Part(f)[S]
  BY SumIs
<1>. QED
  BY <1>2, <1>3

LEMMA SumIsNumber ==
  ASSUME NEW S, IsFiniteSet(S), NEW f \in [S -> Int]
  PROVE  SumFunction(f) \in Int
  BY SumIs, PartOf

-----------------------------------------------------------------------------
(***************************************************************************)
(* No byte is lost from the books.                                         *)
(***************************************************************************)
Hand(x) == ready[x] + rsvd[x] + used[x] + call[x].want - call[x].need

\* Nobody is about to give back anything, or has got anything, but in a call.
SettledInv ==
  /\ \A t \in Caller : rel[t] # 0 => pc[t] \in {"read", "serve", "add"}
  /\ \A x \in Xct : pc[x] \notin InEmergency => call[x].want = call[x].need

\* A step moves bytes between x, t and the accounts that all share.
Balanced(x, t) ==
  /\ \A y \in Xct \ {x} : Hand(y)' = Hand(y)
  /\ \A s \in Caller \ {t} : rel'[s] = rel[s]
  /\ (avail + old + leaked + dropped + Hand(x) + rel[t])'
       = avail + old + leaked + dropped + Hand(x) + rel[t]

LEMMA HandIsNumber ==
  ASSUME TypeOK, NEW x \in Xct
  PROVE  Hand(x) \in Int
  BY DEF TypeOK, NCall, Hand

\* What three sums come to if each moves by the difference of one of its terms.
LEMMA TermsMove ==
  ASSUME NEW u \in Int, NEW v \in Int, NEW a \in Int, NEW b \in Int,
         NEW m \in Int, NEW a1 \in Int, NEW b1 \in Int, NEW m1 \in Int, m1 + a1 + b1 = m + a + b
  PROVE  m1 + (u - a + a1) + (v - b + b1) = m + u + v
  OBVIOUS

LEMMA Balance ==
  ASSUME IsFiniteSet(Xct), TypeOK, TypeOK', Conserved, NEW x \in Xct, NEW t \in Caller,
         Balanced(x, t)
  PROVE  Conserved'
<1>1. IsFiniteSet(Caller)
  BY FS_AddElement DEF Caller
<1>2. Account \in [Xct -> Int] /\ Account' \in [Xct -> Int]
  <2>1. ASSUME NEW y \in Xct
        PROVE  Hand(y) \in Int /\ Hand(y)' \in Int
    <3>1. /\ ready[y] \in Nat /\ rsvd[y] \in Nat /\ used[y] \in Nat /\ call[y] \in NCall
          /\ ready'[y] \in Nat /\ rsvd'[y] \in Nat /\ used'[y] \in Nat /\ call'[y] \in NCall
      BY DEF TypeOK
    <3>2. /\ call[y].want \in Nat /\ call[y].need \in Nat
          /\ call'[y].want \in Nat /\ call'[y].need \in Nat
      BY <3>1 DEF NCall
    <3>. QED
      BY <3>1, <3>2 DEF Hand
  <2>. QED
    BY <2>1 DEF Account, Hand
<1>3. rel \in [Caller -> Int] /\ rel' \in [Caller -> Int]
  <2>1. rel \in [Caller -> Nat] /\ rel' \in [Caller -> Nat]
    BY DEF TypeOK
  <2>. QED
    BY <2>1
<1>4. SumFunction(Account') = SumFunction(Account) - Account[x] + Account'[x]
  <2>1. \A y \in Xct \ {x} : Account'[y] = Account[y]
    BY DEF Account, Hand, Balanced
  <2>. QED
    BY <1>2, <2>1, SumOfChange
<1>5. SumFunction(rel') = SumFunction(rel) - rel[t] + rel'[t]
  <2>1. \A y \in Caller \ {t} : rel'[y] = rel[y]
    BY DEF Balanced
  <2>. QED
    BY <1>1, <1>3, <2>1, SumOfChange
<1>6. /\ SumFunction(Account) \in Int /\ SumFunction(rel) \in Int
      /\ Account[x] \in Int /\ Account'[x] \in Int /\ rel[t] \in Int /\ rel'[t] \in Int
  BY <1>1, <1>2, <1>3, SumIsNumber
<1>7. /\ avail \in Int /\ old \in Int /\ leaked \in Int /\ dropped \in Int
      /\ avail' \in Int /\ old' \in Int /\ leaked' \in Int /\ dropped' \in Int
  BY DEF TypeOK
<1>8. avail' + old' + leaked' + dropped' + Account'[x] + rel'[t]
        = avail + old + leaked + dropped + Account[x] + rel[t]
  BY DEF Balanced, Account, Hand
<1>9. Conserved' <=>
        avail' + old' + leaked' + dropped' + SumFunction(Account') + SumFunction(rel') = Total
  BY DEF Conserved
<1>10. avail + old + leaked + dropped + SumFunction(Account) + SumFunction(rel) = Total
  BY DEF Conserved
<1>11. avail' + old' + leaked' + dropped' + SumFunction(Account') + SumFunction(rel') = Total
  <2>. DEFINE m == avail + old + leaked + dropped
              n == avail' + old' + leaked' + dropped'
  <2>1. m \in Int /\ n \in Int /\ n + Account'[x] + rel'[t] = m + Account[x] + rel[t]
    BY <1>7, <1>8
  <2>2. m + SumFunction(Account) + SumFunction(rel) = Total
    BY <1>10
  <2>. HIDE DEF m, n
  <2>3. n + SumFunction(Account') + SumFunction(rel') = Total
    BY <1>4, <1>5, <1>6, <2>1, <2>2, TermsMove
  <2>. QED
    BY <2>3 DEF n
<1>. QED
  BY <1>9, <1>11

LEMMA BalanceOut ==
  ASSUME IsFiniteSet(Xct), TypeOK, TypeOK', Conserved, NEW t \in Caller,
         \A y \in Xct : Hand(y)' = Hand(y),
         \A s \in Caller \ {t} : rel'[s] = rel[s],
         avail' + old' + leaked' + dropped' + rel'[t] = avail + old + leaked + dropped + rel[t]
  PROVE  Conserved'
<1>1. CASE Xct = {}
  <2>1. Account' = Account
    BY <1>1 DEF Account
  <2>2. IsFiniteSet(Caller) /\ rel \in [Caller -> Nat] /\ rel' \in [Caller -> Nat]
    BY FS_AddElement DEF Caller, TypeOK
  <2>3. rel \in [Caller -> Int] /\ rel' \in [Caller -> Int]
    BY <2>2
  <2>4. SumFunction(rel') = SumFunction(rel) - rel[t] + rel'[t]
    BY <2>2, <2>3, SumOfChange
  <2>5. Account \in [Xct -> Int]
    BY <1>1 DEF Account
  <2>6. SumFunction(Account) \in Int /\ SumFunction(rel) \in Int
    BY <2>2, <2>3, <2>5, SumIsNumber
  <2>7. /\ avail \in Int /\ old \in Int /\ leaked \in Int /\ dropped \in Int
        /\ avail' \in Int /\ old' \in Int /\ leaked' \in Int /\ dropped' \in Int
        /\ rel[t] \in Int /\ rel'[t] \in Int
    BY <2>3 DEF TypeOK
  <2>8. Conserved' <=>
          avail' + old' + leaked' + dropped' + SumFunction(Account') + SumFunction(rel') = Total
    BY DEF Conserved
  <2>9. avail + old + leaked + dropped + SumFunction(Account) + SumFunction(rel) = Total
    BY DEF Conserved
  <2>10. avail' + old' + leaked' + dropped' + SumFunction(Account) + SumFunction(rel') = Total
    BY <2>4, <2>6, <2>7, <2>9
  <2>. QED
    BY <2>1, <2>8, <2>10
<1>2. CASE Xct # {}
  <2>1. PICK x \in Xct : TRUE
    BY <1>2
  <2>2. /\ avail \in Nat /\ old \in Nat /\ leaked \in Nat /\ dropped \in Nat
        /\ avail' \in Nat /\ old' \in Nat /\ leaked' \in Nat /\ dropped' \in Nat
        /\ rel[t] \in Nat /\ rel'[t] \in Nat
    BY DEF TypeOK
  <2>3. Hand(x) \in Int /\ Hand(x)' = Hand(x)
    BY HandIsNumber
  <2>4. (avail + old + leaked + dropped + Hand(x) + rel[t])'
          = avail' + old' + leaked' + dropped' + Hand(x)' + rel'[t]
    OBVIOUS
  <2>5. avail' + old' + leaked' + dropped' + Hand(x)' + rel'[t]
          = avail + old + leaked + dropped + Hand(x) + rel[t]
    BY <2>2, <2>3
  <2>6. Balanced(x, t)
    BY <2>4, <2>5 DEF Balanced
  <2>. QED
    BY <2>6, Balance
<1>. QED
  BY <1>1, <1>2

LEMMA SettledStep ==
  ASSUME SettledInv, NEW t \in Caller,
         \A s \in Caller \ {t} : rel'[s] = rel[s] /\ pc'[s] = pc[s],
         \A y \in Xct \ {t} : call'[y] = call[y],
         rel'[t] # 0 => pc'[t] \in {"read", "serve", "add"},
         t \in Xct /\ pc'[t] \notin InEmergency => call'[t].want = call'[t].need
  PROVE  SettledInv'
  BY DEF SettledInv, Caller

\* The numbers that a transaction has.
LEMMA Numbers ==
  ASSUME TypeOK, NEW x \in Xct
  PROVE  /\ ready[x] \in Nat /\ rsvd[x] \in Nat /\ used[x] \in Nat /\ undo[x] \in Nat
         /\ rel[x] \in Nat
         /\ call[x].want \in Nat /\ call[x].need \in Nat
         /\ avail \in Nat /\ old \in Nat /\ leaked \in Nat /\ dropped \in Nat
  BY DEF TypeOK, NCall, Caller

LEMMA InsertMoves ==
  ASSUME TypeOK, NEW x \in Xct, NEW r \in Nat, Insert(x, r)
  PROVE  /\ ready'[x] + rsvd'[x] + used'[x] = r + rsvd[x] + used[x]
         /\ \A y \in Xct \ {x} : ready'[y] = ready[y] /\ rsvd'[y] = rsvd[y] /\ used'[y] = used[y]
         /\ old' = old
<1>. DEFINE topUp == IF rsvd[x] < MIN_BYTES_RSVD THEN MIN_BYTES_RSVD ELSE 0
<1>1. /\ ready' = [ready EXCEPT ![x] = r - topUp - 1 - UNDO_FUDGE_FACTOR(1)]
      /\ rsvd' = [rsvd EXCEPT ![x] = rsvd[x] + (topUp + UNDO_FUDGE_FACTOR(1))]
      /\ used' = [used EXCEPT ![x] = used[x] + 1]
      /\ old' = old
  BY DEF Insert, Plus
<1>2. topUp \in Nat /\ UNDO_FUDGE_FACTOR(1) = 3
  BY Sizes
<1>. HIDE DEF topUp
<1>3. /\ ready'[x] = r - topUp - 1 - 3 /\ rsvd'[x] = rsvd[x] + (topUp + 3)
      /\ used'[x] = used[x] + 1
  BY <1>1, <1>2 DEF TypeOK
<1>4. \A y \in Xct \ {x} : ready'[y] = ready[y] /\ rsvd'[y] = rsvd[y] /\ used'[y] = used[y]
  BY <1>1 DEF TypeOK
<1>. QED
  BY <1>1, <1>2, <1>3, <1>4, Numbers

\* No bytes move.
LEMMA Quiet ==
  ASSUME Conserved, UNCHANGED <<avail, ready, rsvd, used, old, rel, leaked, dropped>>,
         \A y \in Xct : call'[y].want = call[y].want /\ call'[y].need = call[y].need
  PROVE  Conserved'
<1>1. Account' = Account
  BY DEF Account
<1>2. Conserved' <=>
        avail' + old' + leaked' + dropped' + SumFunction(Account') + SumFunction(rel') = Total
  BY DEF Conserved
<1>. QED
  BY <1>1, <1>2 DEF Conserved

\* What each step may start from.
Sound == TypeOK /\ TypeOK' /\ SettledInv /\ Conserved

LEMMA QuietSteps ==
  ASSUME Sound, NEW x \in Xct,
         Begin(x) \/ BeginAbort(x) \/ EnterEmergency(x) \/ TimedOut(x) \/ BackShort(x)
  PROVE  Conserved' /\ SettledInv'
<1>1. UNCHANGED <<avail, ready, rsvd, used, old, rel, leaked, dropped>>
  BY DEF Begin, BeginAbort, EnterEmergency, TimedOut, BackShort, books, lost
<1>2. \A y \in Xct : call'[y].want = call[y].want /\ call'[y].need = call[y].need
  <2>1. \A y \in Xct : call[y] \in NCall
    BY DEF Sound, TypeOK
  <2>2. CASE BackShort(x)
    <3>1. call' = [call EXCEPT ![x].tries = @ - 1]
      BY <2>2 DEF BackShort
    <3>2. call \in [Xct -> NCall]
      BY DEF Sound, TypeOK
    <3>. QED
      BY <3>1, <3>2 DEF NCall
  <2>. QED
    BY <2>2 DEF Begin, BeginAbort, EnterEmergency, TimedOut
<1>3. PICK p \in PC : pc' = [pc EXCEPT ![x] = p] /\ pc[x] \notin {"read", "serve", "add"}
                      /\ (p \notin InEmergency => pc[x] \notin InEmergency)
  BY DEF Begin, BeginAbort, EnterEmergency, TimedOut, BackShort, Go, Running, PC, InEmergency
<1>4. x \in Caller /\ pc'[x] = p /\ \A s \in Caller \ {x} : pc'[s] = pc[s]
  BY <1>3 DEF Sound, TypeOK, Caller
<1>5. SettledInv'
  BY <1>1, <1>2, <1>3, <1>4 DEF Sound, SettledInv, Caller
<1>. QED
  BY <1>1, <1>2, <1>5, Quiet DEF Sound

LEMMA GivingQuietly ==
  ASSUME Sound, NEW t \in Caller, ReadFlag(t) \/ ServeNull(t) \/ Served(t)
  PROVE  Conserved' /\ SettledInv'
<1>1. UNCHANGED <<avail, ready, rsvd, used, old, rel, leaked, dropped, call>>
  BY DEF ReadFlag, ServeNull, Served, books, lost
<1>2. pc[t] \in {"read", "serve"}
  BY DEF ReadFlag, ServeNull, Served, Serving
<1>3. PICK p \in {"serve", "add"} : pc' = [pc EXCEPT ![t] = p]
  <2>1. CASE ServeNull(t)
    BY <2>1 DEF ServeNull, Serving, Sound, TypeOK
  <2>. QED
    BY <2>1 DEF ReadFlag, Served, Go
<1>4. pc'[t] = p /\ \A s \in Caller \ {t} : pc'[s] = pc[s]
  BY <1>3 DEF Sound, TypeOK
<1>5. SettledInv'
  BY <1>1, <1>2, <1>3, <1>4 DEF Sound, SettledInv, Caller, InEmergency
<1>. QED
  BY <1>1, <1>5, Quiet DEF Sound

LEMMA BufferQuiet ==
  ASSUME Sound, BufferFull \/ BufferFlushed \/ UNCHANGED vars
  PROVE  Conserved' /\ SettledInv'
<1>1. UNCHANGED <<avail, ready, rsvd, used, old, rel, leaked, dropped, call, pc>>
  BY DEF BufferFull, BufferFlushed, vars, books, lost
<1>2. SettledInv'
  BY <1>1 DEF Sound, SettledInv
<1>. QED
  BY <1>1, <1>2, Quiet DEF Sound

\* Others, and what is on its way back, are left alone.
Alone(x) ==
  /\ \A y \in Xct \ {x} : /\ ready'[y] = ready[y] /\ rsvd'[y] = rsvd[y] /\ used'[y] = used[y]
                          /\ call'[y] = call[y]
  /\ \A s \in Caller \ {x} : rel'[s] = rel[s] /\ pc'[s] = pc[s]

LEMMA AloneBalance ==
  ASSUME Sound, IsFiniteSet(Xct), NEW x \in Xct, Alone(x),
         (avail + old + leaked + dropped + Hand(x) + rel[x])'
           = avail + old + leaked + dropped + Hand(x) + rel[x],
         rel'[x] # 0 => pc'[x] \in {"read", "serve", "add"},
         pc'[x] \notin InEmergency => call'[x].want = call'[x].need
  PROVE  Conserved' /\ SettledInv'
<1>1. x \in Caller
  BY DEF Caller
<1>2. SettledInv'
  BY <1>1, SettledStep DEF Alone, Sound
<1>3. Balanced(x, x)
  BY DEF Balanced, Alone, Hand
<1>. QED
  BY <1>1, <1>2, <1>3, Balance DEF Sound

LEMMA LogBalance ==
  ASSUME Sound, IsFiniteSet(Xct), NEW x \in Xct, Log(x)
  PROVE  Conserved' /\ SettledInv'
<1>0. TypeOK /\ SettledInv
  BY DEF Sound
<1>1. UNCHANGED <<pc, call, rel, leaked, dropped>>
  BY DEF Log, lost
<1>3. MIN_BYTES_READY = 5
  BY Sizes
<1>4. ready[x] \in Nat /\ avail \in Nat /\ avail' \in Nat
  BY Numbers DEF Sound, TypeOK
<1>5. PICK r \in Nat : Insert(x, r) /\ avail' + r = avail + ready[x]
  <2>1. CASE Insert(x, ready[x]) /\ UNCHANGED avail
    BY <2>1, <1>4
  <2>2. CASE avail' = avail - MIN_BYTES_READY /\ Insert(x, ready[x] + MIN_BYTES_READY)
    BY <2>2, <1>3, <1>4
  <2>. QED
    BY <2>1, <2>2 DEF Log
<1>6. /\ ready'[x] + rsvd'[x] + used'[x] = r + rsvd[x] + used[x]
      /\ \A y \in Xct \ {x} : ready'[y] = ready[y] /\ rsvd'[y] = rsvd[y] /\ used'[y] = used[y]
      /\ old' = old
  BY <1>0, <1>5, InsertMoves
<1>7. ready'[x] \in Nat /\ rsvd'[x] \in Nat /\ used'[x] \in Nat
  BY DEF Sound, TypeOK
<1>8. (avail + old + leaked + dropped + Hand(x) + rel[x])'
           = avail + old + leaked + dropped + Hand(x) + rel[x]
  <2>1. Hand(x) \in Int /\ Hand(x)' = Hand(x) + (r - ready[x])
    BY <1>0, <1>1, <1>6, <1>7, Numbers DEF Hand
  <2>2. UNCHANGED <<old, leaked, dropped, rel>>
    BY <1>1, <1>6
  <2>. QED
    BY <1>0, <1>4, <1>5, <2>1, <2>2, Numbers
<1>9. Alone(x)
  BY <1>1, <1>6 DEF Alone
<1>10. /\ rel'[x] # 0 => pc'[x] \in {"read", "serve", "add"}
       /\ pc'[x] \notin InEmergency => call'[x].want = call'[x].need
  BY <1>0, <1>1 DEF SettledInv, Caller
<1>. QED
  BY <1>8, <1>9, <1>10, AloneBalance

LEMMA LogFullBalance ==
  ASSUME Sound, IsFiniteSet(Xct), NEW x \in Xct, LogFull(x)
  PROVE  Conserved' /\ SettledInv'
<1>0. TypeOK /\ SettledInv
  BY DEF Sound
<1>1. /\ UNCHANGED <<avail, ready, rsvd, used, old, rel, leaked, dropped>>
      /\ call' = [call EXCEPT ![x] = NewCall(MIN_BYTES_READY, 3, FALSE)]
      /\ pc' = [pc EXCEPT ![x] = "queue"] /\ pc[x] = "active"
  BY DEF LogFull, lost, books, Go, Running
<1>2. call'[x].want = 5 /\ call'[x].need = 5
  BY <1>0, <1>1, Sizes DEF NewCall, TypeOK
<1>3. call[x].want = call[x].need
  BY <1>0, <1>1 DEF SettledInv, InEmergency
<1>4. Alone(x)
  BY <1>0, <1>1 DEF Alone, TypeOK, Caller
<1>5. (avail + old + leaked + dropped + Hand(x) + rel[x])'
           = avail + old + leaked + dropped + Hand(x) + rel[x]
  <2>1. ready'[x] = ready[x] /\ rsvd'[x] = rsvd[x] /\ used'[x] = used[x]
    BY <1>1
  <2>2. Hand(x)' = Hand(x)
    BY <1>0, <1>2, <1>3, <2>1, Numbers DEF Hand
  <2>. QED
    BY <1>1, <2>2
<1>6. /\ rel'[x] # 0 => pc'[x] \in {"read", "serve", "add"}
      /\ pc'[x] \notin InEmergency => call'[x].want = call'[x].need
  BY <1>0, <1>1, <1>2 DEF SettledInv, Caller
<1>. QED
  BY <1>4, <1>5, <1>6, AloneBalance

LEMMA AskSpaceBalance ==
  ASSUME Sound, IsFiniteSet(Xct), NEW x \in Xct, AskSpace(x)
  PROVE  Conserved' /\ SettledInv'
<1>0. TypeOK /\ SettledInv /\ Ask \in Nat
  BY SpaceAssumption DEF Sound
<1>1. UNCHANGED <<rsvd, used, old, rel, leaked, dropped>> /\ pc[x] = "active"
  BY DEF AskSpace, lost, Running
<1>2. call[x].want = call[x].need
  BY <1>0, <1>1 DEF SettledInv, InEmergency
<1>3. CASE /\ avail' = avail - Ask /\ ready' = Plus(ready, x, Ask) /\ UNCHANGED <<pc, call>>
  <2>1. ready'[x] = ready[x] + Ask /\ \A y \in Xct \ {x} : ready'[y] = ready[y]
    BY <1>0, <1>3 DEF Plus, TypeOK
  <2>2. Alone(x)
    BY <1>1, <1>3, <2>1 DEF Alone
  <2>3. (avail + old + leaked + dropped + Hand(x) + rel[x])'
           = avail + old + leaked + dropped + Hand(x) + rel[x]
    BY <1>0, <1>1, <1>3, <2>1, Numbers DEF Hand
  <2>4. /\ rel'[x] # 0 => pc'[x] \in {"read", "serve", "add"}
        /\ pc'[x] \notin InEmergency => call'[x].want = call'[x].need
    BY <1>0, <1>1, <1>3 DEF SettledInv, Caller
  <2>. QED
    BY <2>2, <2>3, <2>4, AloneBalance
<1>4. CASE /\ call' = [call EXCEPT ![x] = NewCall(Ask, 0, used[x] = 0)]
           /\ pc' = [pc EXCEPT ![x] = "wait"]
           /\ UNCHANGED <<avail, ready>>
  <2>1. call'[x].want = Ask /\ call'[x].need = Ask
    BY <1>0, <1>4 DEF NewCall, TypeOK
  <2>2. Alone(x)
    BY <1>0, <1>1, <1>4 DEF Alone, TypeOK, Caller
  <2>3. (avail + old + leaked + dropped + Hand(x) + rel[x])'
           = avail + old + leaked + dropped + Hand(x) + rel[x]
    BY <1>0, <1>1, <1>2, <1>4, <2>1, Numbers DEF Hand
  <2>4. /\ rel'[x] # 0 => pc'[x] \in {"read", "serve", "add"}
        /\ pc'[x] \notin InEmergency => call'[x].want = call'[x].need
    BY <1>0, <1>1, <2>1 DEF SettledInv, Caller
  <2>. QED
    BY <2>2, <2>3, <2>4, AloneBalance
<1>. QED
  BY <1>3, <1>4 DEF AskSpace, Go

\* The reserve has what a wait needs.
LEMMA ReservedBalance ==
  ASSUME Sound, IsFiniteSet(Xct), NEW x \in Xct, NEW s, Reserved(x, s),
         pc[x] \in {"wait", "asleep"}, UNCHANGED <<books, rel, lost>>
  PROVE  Conserved' /\ SettledInv'
<1>0. TypeOK /\ SettledInv
  BY DEF Sound
<1>1. /\ UNCHANGED <<ready, rsvd, used, old, rel, leaked, dropped>>
      /\ avail' = avail - call[x].need
      /\ call' = [call EXCEPT ![x].need = 0]
      /\ pc' = [pc EXCEPT ![x] = "back"]
  BY DEF Reserved, books, lost, Go
<1>2. /\ call'[x].want = call[x].want /\ call'[x].need = 0
      /\ \A y \in Xct \ {x} : call'[y] = call[y]
  <2>1. call \in [Xct -> NCall]
    BY <1>0 DEF TypeOK
  <2>. QED
    BY <1>1, <2>1 DEF NCall
<1>3. Alone(x) /\ pc'[x] = "back"
  BY <1>0, <1>1, <1>2 DEF Alone, TypeOK, Caller
<1>4. (avail + old + leaked + dropped + Hand(x) + rel[x])'
           = avail + old + leaked + dropped + Hand(x) + rel[x]
  BY <1>0, <1>1, <1>2, Numbers DEF Hand
<1>5. /\ rel'[x] # 0 => pc'[x] \in {"read", "serve", "add"}
      /\ pc'[x] \notin InEmergency => call'[x].want = call'[x].need
  BY <1>0, <1>1, <1>3 DEF SettledInv, Caller, InEmergency
<1>. QED
  BY <1>3, <1>4, <1>5, AloneBalance

LEMMA WaitBalance ==
  ASSUME Sound, IsFiniteSet(Xct), NEW x \in Xct, BeginWait(x) \/ Awake(x)
  PROVE  Conserved' /\ SettledInv'
<1>0. TypeOK /\ SettledInv
  BY DEF Sound
<1>1. UNCHANGED <<books, rel, lost>> /\ pc[x] \in {"wait", "asleep"}
  BY DEF BeginWait, Awake
<1>2. CASE \E s : Reserved(x, s)
  BY <1>1, <1>2, ReservedBalance
<1>3. CASE /\ UNCHANGED avail
           /\ \E p \in {"asleep", "back"} : pc' = [pc EXCEPT ![x] = p]
           /\ call' = call \/ call' = [call EXCEPT ![x].signalled = FALSE]
  <2>1. \A y \in Xct : call'[y].want = call[y].want /\ call'[y].need = call[y].need
    <3>1. call \in [Xct -> NCall]
      BY <1>0 DEF TypeOK
    <3>. QED
      BY <1>3, <3>1 DEF NCall
  <2>2. pc'[x] \in InEmergency /\ \A t \in Caller \ {x} : pc'[t] = pc[t]
    BY <1>0, <1>3 DEF TypeOK, Caller, InEmergency
  <2>3. SettledInv'
    BY <1>0, <1>1, <2>1, <2>2 DEF SettledInv, Caller, InEmergency
  <2>. QED
    BY <1>1, <1>3, <2>1, <2>3, Quiet DEF Sound, books, lost
<1>4. pc \in [Caller -> PC] /\ x \in Caller
  BY <1>0 DEF TypeOK, Caller
<1>. QED
  BY <1>2, <1>3, <1>4 DEF BeginWait, Awake, Go

\* The call of x is over.
LEMMA CallEnds ==
  ASSUME TypeOK, NEW x \in Xct, NEW p, Returns(x, p)
  PROVE  /\ call'[x].want = 0 /\ call'[x].need = 0 /\ pc'[x] = p
         /\ \A y \in Xct \ {x} : call'[y] = call[y]
         /\ \A s \in Caller \ {x} : pc'[s] = pc[s]
  BY NoCallFields DEF Returns, Go, TypeOK, Caller

LEMMA TryBalance ==
  ASSUME Sound, IsFiniteSet(Xct), NEW x \in Xct, Try(x)
  PROVE  Conserved' /\ SettledInv'
<1>0. TypeOK /\ SettledInv
  BY DEF Sound
<1>1. UNCHANGED <<avail, ready, rsvd, used, old, rel, leaked>> /\ pc[x] = "try"
  BY DEF Try, books
<1>2. CASE pc' = [pc EXCEPT ![x] = "wait"] /\ UNCHANGED <<call, dropped>>
  <2>1. pc'[x] = "wait" /\ \A s \in Caller \ {x} : pc'[s] = pc[s]
    BY <1>0, <1>2 DEF TypeOK, Caller
  <2>2. SettledInv'
    BY <1>0, <1>1, <1>2, <2>1 DEF SettledInv, Caller, InEmergency
  <2>. QED
    BY <1>1, <1>2, <2>2, Quiet DEF Sound
<1>3. CASE /\ pc' = [pc EXCEPT ![x] = "active"]
           /\ dropped' = dropped + call[x].want - call[x].need
           /\ call' = [call EXCEPT ![x] = NoCall]
  <2>1. /\ pc'[x] = "active" /\ \A s \in Caller \ {x} : pc'[s] = pc[s]
        /\ call'[x].want = 0 /\ call'[x].need = 0
        /\ \A y \in Xct \ {x} : call'[y] = call[y]
    BY <1>0, <1>3, NoCallFields DEF TypeOK, Caller
  <2>2. Alone(x)
    BY <1>1, <2>1 DEF Alone
  <2>3. (avail + old + leaked + dropped + Hand(x) + rel[x])'
           = avail + old + leaked + dropped + Hand(x) + rel[x]
    BY <1>0, <1>1, <1>3, <2>1, Numbers DEF Hand
  <2>4. /\ rel'[x] # 0 => pc'[x] \in {"read", "serve", "add"}
        /\ pc'[x] \notin InEmergency => call'[x].want = call'[x].need
    BY <1>0, <1>1, <2>1 DEF SettledInv, Caller
  <2>. QED
    BY <2>2, <2>3, <2>4, AloneBalance
<1>. QED
  BY <1>2, <1>3 DEF Try, Go

LEMMA BackInAskBalance ==
  ASSUME Sound, IsFiniteSet(Xct), NEW x \in Xct, BackInAsk(x)
  PROVE  Conserved' /\ SettledInv'
<1>0. TypeOK /\ SettledInv
  BY DEF Sound
<1>1. /\ UNCHANGED <<avail, rsvd, used, old, rel, leaked, dropped>> /\ pc[x] = "back"
      /\ ready' = [ready EXCEPT ![x] = ready[x] + (call[x].want - call[x].need)]
      /\ Returns(x, "active")
  BY DEF BackInAsk, lost, Plus
<1>2. /\ call'[x].want = 0 /\ call'[x].need = 0 /\ pc'[x] = "active"
      /\ \A y \in Xct \ {x} : call'[y] = call[y]
      /\ \A s \in Caller \ {x} : pc'[s] = pc[s]
  BY <1>0, <1>1, CallEnds
<1>3. /\ ready'[x] = ready[x] + (call[x].want - call[x].need)
      /\ \A y \in Xct \ {x} : ready'[y] = ready[y]
  BY <1>0, <1>1 DEF TypeOK
<1>4. Alone(x)
  BY <1>1, <1>2, <1>3 DEF Alone
<1>5. (avail + old + leaked + dropped + Hand(x) + rel[x])'
           = avail + old + leaked + dropped + Hand(x) + rel[x]
  <2>1. Hand(x)' = Hand(x)
    BY <1>0, <1>1, <1>2, <1>3, Numbers DEF Hand
  <2>. QED
    BY <1>1, <2>1
<1>6. /\ rel'[x] # 0 => pc'[x] \in {"read", "serve", "add"}
      /\ pc'[x] \notin InEmergency => call'[x].want = call'[x].need
  BY <1>0, <1>1, <1>2 DEF SettledInv, Caller
<1>. QED
  BY <1>4, <1>5, <1>6, AloneBalance

\* A call in get_logbuf ends with a record in the log.
LEMMA ServedBalance ==
  ASSUME Sound, IsFiniteSet(Xct), NEW x \in Xct, pc[x] \in {"back", "last"},
         call[x].need <= avail, avail' = avail - call[x].need,
         Insert(x, ready[x] + call[x].want), Returns(x, "active"), UNCHANGED <<rel, lost>>
  PROVE  Conserved' /\ SettledInv'
<1>0. TypeOK /\ SettledInv
  BY DEF Sound
<1>1. UNCHANGED <<rel, leaked, dropped>> /\ ready[x] + call[x].want \in Nat
  BY <1>0, Numbers DEF lost
<1>2. /\ call'[x].want = 0 /\ call'[x].need = 0 /\ pc'[x] = "active"
      /\ \A y \in Xct \ {x} : call'[y] = call[y]
      /\ \A s \in Caller \ {x} : pc'[s] = pc[s]
  BY <1>0, CallEnds
<1>3. /\ ready'[x] + rsvd'[x] + used'[x] = ready[x] + call[x].want + rsvd[x] + used[x]
      /\ \A y \in Xct \ {x} : ready'[y] = ready[y] /\ rsvd'[y] = rsvd[y] /\ used'[y] = used[y]
      /\ old' = old
  BY <1>0, <1>1, InsertMoves
<1>4. ready'[x] \in Nat /\ rsvd'[x] \in Nat /\ used'[x] \in Nat /\ avail' \in Nat
  BY DEF Sound, TypeOK
<1>5. Alone(x)
  BY <1>1, <1>2, <1>3 DEF Alone
<1>6. (avail + old + leaked + dropped + Hand(x) + rel[x])'
           = avail + old + leaked + dropped + Hand(x) + rel[x]
  <2>1. Hand(x) \in Int /\ Hand(x)' = Hand(x) + call[x].need
    BY <1>0, <1>2, <1>3, <1>4, Numbers DEF Hand
  <2>. QED
    BY <1>0, <1>1, <1>3, <2>1, Numbers
<1>7. /\ rel'[x] # 0 => pc'[x] \in {"read", "serve", "add"}
      /\ pc'[x] \notin InEmergency => call'[x].want = call'[x].need
  BY <1>0, <1>1, <1>2 DEF SettledInv, Caller
<1>. QED
  BY <1>5, <1>6, <1>7, AloneBalance

LEMMA BackServedBalance ==
  ASSUME Sound, IsFiniteSet(Xct), NEW x \in Xct, BackServed(x)
  PROVE  Conserved' /\ SettledInv'
<1>1. /\ pc[x] = "back" /\ call[x].need = 0 /\ Insert(x, ready[x] + call[x].want)
      /\ Returns(x, "active") /\ UNCHANGED <<avail, rel, lost>>
  BY DEF BackServed
<1>2. avail \in Nat
  BY DEF Sound, TypeOK
<1>3. call[x].need <= avail /\ avail' = avail - call[x].need
  BY <1>1, <1>2
<1>. QED
  BY <1>1, <1>3, ServedBalance

LEMMA LastLookBalance ==
  ASSUME Sound, IsFiniteSet(Xct), NEW x \in Xct, LastLook(x)
  PROVE  Conserved' /\ SettledInv'
<1>0. TypeOK /\ SettledInv
  BY DEF Sound
<1>1. pc[x] = "last" /\ UNCHANGED <<rel, lost>>
  BY DEF LastLook
<1>2. CASE /\ avail >= call[x].need /\ avail' = avail - call[x].need
           /\ Insert(x, ready[x] + call[x].want) /\ Returns(x, "active")
  <2>1. call[x].need <= avail
    BY <1>0, <1>2, Numbers
  <2>. QED
    BY <1>1, <1>2, <2>1, ServedBalance
<1>3. CASE pc' = [pc EXCEPT ![x] = "giveup"] /\ UNCHANGED <<avail, books, call>>
  <2>1. pc'[x] = "giveup" /\ \A s \in Caller \ {x} : pc'[s] = pc[s]
    BY <1>0, <1>3 DEF TypeOK, Caller
  <2>2. SettledInv'
    BY <1>0, <1>1, <1>3, <2>1 DEF SettledInv, Caller, InEmergency
  <2>. QED
    BY <1>1, <1>3, <2>2, Quiet DEF Sound, books, lost
<1>. QED
  BY <1>2, <1>3 DEF LastLook, Go

LEMMA GiveUpBalance ==
  ASSUME Sound, IsFiniteSet(Xct), NEW x \in Xct, GiveUp(x)
  PROVE  Conserved' /\ SettledInv'
<1>0. TypeOK /\ SettledInv
  BY DEF Sound
<1>1. /\ UNCHANGED <<avail, ready, rsvd, used, old, leaked, dropped>> /\ pc[x] = "giveup"
      /\ rel' = [rel EXCEPT ![x] = call[x].want - call[x].need]
      /\ Returns(x, "read")
  BY DEF GiveUp, lost, books
<1>2. /\ call'[x].want = 0 /\ call'[x].need = 0 /\ pc'[x] = "read"
      /\ \A y \in Xct \ {x} : call'[y] = call[y]
      /\ \A s \in Caller \ {x} : pc'[s] = pc[s]
  BY <1>0, <1>1, CallEnds
<1>3. /\ rel[x] = 0 /\ rel'[x] = call[x].want - call[x].need
      /\ \A s \in Caller \ {x} : rel'[s] = rel[s]
  BY <1>0, <1>1 DEF SettledInv, TypeOK, Caller
<1>4. Alone(x)
  BY <1>1, <1>2, <1>3 DEF Alone
<1>5. (avail + old + leaked + dropped + Hand(x) + rel[x])'
           = avail + old + leaked + dropped + Hand(x) + rel[x]
  <2>1. Hand(x) \in Int /\ Hand(x)' = Hand(x) - rel'[x]
    BY <1>0, <1>1, <1>2, <1>3, Numbers DEF Hand
  <2>. QED
    BY <1>0, <1>1, <1>3, <2>1, Numbers
<1>6. /\ rel'[x] # 0 => pc'[x] \in {"read", "serve", "add"}
      /\ pc'[x] \notin InEmergency => call'[x].want = call'[x].need
  BY <1>2
<1>. QED
  BY <1>4, <1>5, <1>6, AloneBalance

LEMMA UndoBalance ==
  ASSUME Sound, IsFiniteSet(Xct), NEW x \in Xct, Undo(x) \/ Compensate(x)
  PROVE  Conserved' /\ SettledInv'
<1>0. TypeOK /\ SettledInv
  BY DEF Sound
<1>1. UNCHANGED <<avail, ready, old, call, pc, rel, leaked, dropped>>
  BY DEF Undo, Compensate, lost
<1>2. PICK b \in Nat : rsvd' = Plus(rsvd, x, -b) /\ used' = Plus(used, x, b)
  <2>1. CASE Undo(x)
    BY <2>1, Sizes DEF Undo
  <2>2. CASE Compensate(x)
    BY <2>2 DEF Compensate
  <2>. QED
    BY <2>1, <2>2
<1>3. /\ rsvd'[x] = rsvd[x] - b /\ used'[x] = used[x] + b
      /\ \A y \in Xct \ {x} : rsvd'[y] = rsvd[y] /\ used'[y] = used[y]
  BY <1>0, <1>2 DEF TypeOK, Plus
<1>4. Alone(x)
  BY <1>1, <1>3 DEF Alone
<1>5. (avail + old + leaked + dropped + Hand(x) + rel[x])'
           = avail + old + leaked + dropped + Hand(x) + rel[x]
  <2>1. Hand(x)' = Hand(x)
    BY <1>0, <1>1, <1>3, Numbers DEF Hand
  <2>. QED
    BY <1>1, <2>1
<1>6. /\ rel'[x] # 0 => pc'[x] \in {"read", "serve", "add"}
      /\ pc'[x] \notin InEmergency => call'[x].want = call'[x].need
  BY <1>0, <1>1 DEF SettledInv, Caller
<1>. QED
  BY <1>4, <1>5, <1>6, AloneBalance

LEMMA EndBalance ==
  ASSUME Sound, IsFiniteSet(Xct), NEW x \in Xct, End(x)
  PROVE  Conserved' /\ SettledInv'
<1>0. TypeOK /\ SettledInv
  BY DEF Sound
<1>. DEFINE final == IF used[x] > 0 THEN 1 ELSE 0
            rest == ready[x] + rsvd[x] - final
            there == IF rest > 0 THEN "read" ELSE "out"
<1>1. /\ UNCHANGED <<avail, call, leaked, dropped>> /\ pc[x] \in {"active", "abort"}
      /\ old' = old + used[x] + final
      /\ rel' = [rel EXCEPT ![x] = rest] /\ pc' = [pc EXCEPT ![x] = there]
      /\ ready' = [ready EXCEPT ![x] = 0] /\ rsvd' = [rsvd EXCEPT ![x] = 0]
      /\ used' = [used EXCEPT ![x] = 0]
  BY DEF End, lost, Go, Running
<1>2. /\ final \in Nat /\ rest \in Int
      /\ there = IF rest > 0 THEN "read" ELSE "out"
  BY <1>0, Numbers
<1>. HIDE DEF final, rest, there
<1>3. /\ ready'[x] = 0 /\ rsvd'[x] = 0 /\ used'[x] = 0 /\ rel'[x] = rest /\ pc'[x] = there
      /\ \A y \in Xct \ {x} : ready'[y] = ready[y] /\ rsvd'[y] = rsvd[y] /\ used'[y] = used[y]
      /\ \A s \in Caller \ {x} : rel'[s] = rel[s] /\ pc'[s] = pc[s]
  BY <1>0, <1>1 DEF TypeOK, Caller
<1>4. rel[x] = 0 /\ call[x].want = call[x].need /\ rel'[x] \in Nat
  BY <1>0, <1>1 DEF SettledInv, Caller, InEmergency, Sound, TypeOK
<1>5. Alone(x)
  BY <1>1, <1>3 DEF Alone
<1>6. (avail + old + leaked + dropped + Hand(x) + rel[x])'
           = avail + old + leaked + dropped + Hand(x) + rel[x]
  <2>1. Hand(x) = ready[x] + rsvd[x] + used[x] /\ Hand(x)' = 0
    BY <1>0, <1>1, <1>3, <1>4, Numbers DEF Hand
  <2>2. rest = ready[x] + rsvd[x] - final
    BY DEF rest
  <2>. QED
    BY <1>0, <1>1, <1>2, <1>3, <1>4, <2>1, <2>2, Numbers
<1>7. /\ rel'[x] # 0 => pc'[x] \in {"read", "serve", "add"}
      /\ pc'[x] \notin InEmergency => call'[x].want = call'[x].need
  BY <1>1, <1>2, <1>3, <1>4
<1>. QED
  BY <1>5, <1>6, <1>7, AloneBalance

LEMMA ScavengeBalance ==
  ASSUME Sound, IsFiniteSet(Xct), Scavenge
  PROVE  Conserved' /\ SettledInv'
<1>0. TypeOK /\ SettledInv /\ Scavenger \in Caller /\ Scavenger \notin Xct
  BY NamesAssumption DEF Sound, Caller
<1>1. /\ UNCHANGED <<avail, ready, rsvd, used, call, leaked, dropped>> /\ pc[Scavenger] = "out"
      /\ rel' = [rel EXCEPT ![Scavenger] = old] /\ old' = 0
      /\ pc' = [pc EXCEPT ![Scavenger] = "read"]
  BY DEF Scavenge, lost, Go
<1>2. /\ rel[Scavenger] = 0 /\ rel'[Scavenger] = old /\ pc'[Scavenger] = "read"
      /\ \A s \in Caller \ {Scavenger} : rel'[s] = rel[s] /\ pc'[s] = pc[s]
  BY <1>0, <1>1 DEF SettledInv, TypeOK
<1>3. \A y \in Xct : Hand(y)' = Hand(y)
  BY <1>1 DEF Hand
<1>4. avail \in Nat /\ old \in Nat /\ leaked \in Nat /\ dropped \in Nat
  BY <1>0 DEF TypeOK
<1>5. avail' + old' + leaked' + dropped' + rel'[Scavenger]
        = avail + old + leaked + dropped + rel[Scavenger]
  BY <1>1, <1>2, <1>4
<1>6. SettledInv'
  BY <1>0, <1>1, <1>2, SettledStep
<1>. QED
  BY <1>0, <1>2, <1>3, <1>5, <1>6, BalanceOut DEF Sound

LEMMA AddBalance ==
  ASSUME Sound, IsFiniteSet(Xct), NEW t \in Caller, Add(t)
  PROVE  Conserved' /\ SettledInv'
<1>0. TypeOK /\ SettledInv
  BY DEF Sound
<1>. DEFINE p == IF turn = t THEN "active" ELSE "out"
<1>1. /\ UNCHANGED <<old, ready, rsvd, used, call, leaked, dropped>> /\ pc[t] = "add"
      /\ avail' = avail + rel[t] /\ rel' = [rel EXCEPT ![t] = 0] /\ pc' = [pc EXCEPT ![t] = p]
  BY DEF Add, lost, books, Go
<1>. HIDE DEF p
<1>2. /\ rel[t] \in Nat /\ rel'[t] = 0
      /\ \A s \in Caller \ {t} : rel'[s] = rel[s] /\ pc'[s] = pc[s]
  BY <1>0, <1>1 DEF TypeOK
<1>3. \A y \in Xct : Hand(y)' = Hand(y)
  BY <1>1 DEF Hand
<1>4. avail \in Nat /\ old \in Nat /\ leaked \in Nat /\ dropped \in Nat
  BY <1>0 DEF TypeOK
<1>5. avail' + old' + leaked' + dropped' + rel'[t] = avail + old + leaked + dropped + rel[t]
  BY <1>1, <1>2, <1>4
<1>6. t \in Xct => call'[t].want = call'[t].need
  BY <1>0, <1>1 DEF SettledInv, InEmergency
<1>7. SettledInv'
  BY <1>0, <1>1, <1>2, <1>6, SettledStep
<1>. QED
  BY <1>2, <1>3, <1>5, <1>7, BalanceOut DEF Sound

LEMMA ServeGoneBalance ==
  ASSUME Sound, IsFiniteSet(Xct), NEW t \in Caller, ServeGone(t)
  PROVE  Conserved' /\ SettledInv'
<1>0. TypeOK /\ SettledInv
  BY DEF Sound
<1>1. /\ UNCHANGED <<avail, old, ready, rsvd, used, call, pc, dropped>> /\ pc[t] = "serve"
  BY DEF ServeGone, Serving, books
<1>2. PICK n \in 0..rel[t] : rel' = [rel EXCEPT ![t] = rel[t] + -n] /\ leaked' = leaked + n
  BY DEF ServeGone, Plus
<1>3. /\ rel[t] \in Nat /\ n \in Nat /\ rel'[t] = rel[t] - n
      /\ \A s \in Caller \ {t} : rel'[s] = rel[s] /\ pc'[s] = pc[s]
  BY <1>0, <1>1, <1>2 DEF TypeOK
<1>4. \A y \in Xct : Hand(y)' = Hand(y)
  BY <1>1 DEF Hand
<1>5. avail \in Nat /\ old \in Nat /\ leaked \in Nat /\ dropped \in Nat
  BY <1>0 DEF TypeOK
<1>6. avail' + old' + leaked' + dropped' + rel'[t] = avail + old + leaked + dropped + rel[t]
  BY <1>1, <1>2, <1>3, <1>5
<1>7. SettledInv'
  BY <1>0, <1>1, <1>3 DEF SettledInv
<1>. QED
  BY <1>3, <1>4, <1>6, <1>7, BalanceOut DEF Sound

LEMMA ServeWaiterBalance ==
  ASSUME Sound, IInv, IsFiniteSet(Xct), NEW t \in Caller, ServeWaiter(t)
  PROVE  Conserved' /\ SettledInv'
<1>0. TypeOK /\ SettledInv
  BY DEF Sound
<1>. DEFINE h == Head(line)
<1>1. /\ line # <<>> /\ h.at \in {"now", "before"} /\ pc[t] = "serve"
      /\ UNCHANGED <<avail, old, ready, rsvd, used, pc, leaked, dropped>>
  BY DEF ServeWaiter, MoreToServe, Serving, books, lost
<1>2. h \in Listed(line) /\ h.who \in Xct
  <2>1. line \in Seq(Entry)
    BY <1>0 DEF TypeOK
  <2>. QED
    BY <1>0, <1>1, <2>1, ListedTail, EntryOf
<1>3. PICK x \in Xct : x = h.who
  BY <1>2
<1>4. PICK n : /\ n = Min({rel[t], call[x].need})
               /\ rel' = [rel EXCEPT ![t] = rel[t] + -n]
               /\ call' = [call EXCEPT ![x].need = @ - n,
                                       ![x].signalled = @ \/ (n = call[x].need /\ h.at = "now")]
  BY <1>3, Zenon DEF ServeWaiter, Plus
<1>5. pc[x] \in InEmergency
  BY <1>1, <1>2, <1>3 DEF IInv, LineInv, Current, InEmergency
<1>6. /\ rel[t] \in Nat /\ call[x].need \in Nat /\ call[x].want \in Nat /\ n \in Nat
      /\ call \in [Xct -> NCall]
  <2>1. /\ rel[t] \in Nat /\ call[x].need \in Nat /\ call[x].want \in Nat
        /\ call \in [Xct -> NCall]
    BY <1>0, Numbers DEF TypeOK
  <2>. QED
    BY <1>4, <2>1, LesserOf
<1>7. /\ call'[x].need = call[x].need - n /\ call'[x].want = call[x].want
      /\ \A y \in Xct \ {x} : call'[y] = call[y]
  BY <1>4, <1>6 DEF NCall
<1>8. rel'[t] = rel[t] - n /\ \A s \in Caller \ {t} : rel'[s] = rel[s]
  BY <1>0, <1>4, <1>6 DEF TypeOK
<1>9. \A y \in Xct : ready'[y] = ready[y] /\ rsvd'[y] = rsvd[y] /\ used'[y] = used[y]
  BY <1>1
<1>10. \A y \in Xct \ {x} : Hand(y)' = Hand(y)
  BY <1>7, <1>9 DEF Hand
<1>11. Hand(x) \in Int /\ Hand(x)' = Hand(x) + n
  <2>1. ready[x] \in Nat /\ rsvd[x] \in Nat /\ used[x] \in Nat
    BY <1>0, Numbers
  <2>. QED
    BY <1>6, <1>7, <1>9, <2>1 DEF Hand
<1>12. avail \in Nat /\ old \in Nat /\ leaked \in Nat /\ dropped \in Nat
  BY <1>0 DEF TypeOK
<1>13. (avail + old + leaked + dropped + Hand(x) + rel[t])'
           = avail + old + leaked + dropped + Hand(x) + rel[t]
  BY <1>1, <1>6, <1>8, <1>11, <1>12
<1>14. SettledInv'
  BY <1>0, <1>1, <1>5, <1>7, <1>8 DEF SettledInv
<1>15. Balanced(x, t)
  BY <1>8, <1>10, <1>13 DEF Balanced
<1>. QED
  BY <1>14, <1>15, Balance DEF Sound

LEMMA StepBalance ==
  ASSUME IsFiniteSet(Xct), IInv, IInv', SettledInv, Conserved, [Next]_vars
  PROVE  Conserved' /\ SettledInv'
<1>0. Sound
  BY DEF IInv, Sound
<1>1. ASSUME NEW x \in Xct, Working(x)
      PROVE  Conserved' /\ SettledInv'
  BY <1>0, <1>1, QuietSteps, LogBalance, LogFullBalance, AskSpaceBalance, UndoBalance,
     EndBalance DEF Working
<1>2. ASSUME NEW x \in Xct, Waiting(x)
      PROVE  Conserved' /\ SettledInv'
  BY <1>0, <1>2, TryBalance, WaitBalance, QuietSteps, BackInAskBalance, BackServedBalance,
     LastLookBalance, GiveUpBalance DEF Waiting, SignalledAwake
<1>3. ASSUME NEW x \in Xct, EnterEmergency(x) \/ SpuriousAwake(x)
      PROVE  Conserved' /\ SettledInv'
  BY <1>0, <1>3, QuietSteps, WaitBalance DEF SpuriousAwake
<1>4. ASSUME NEW t \in Caller, Giving(t)
      PROVE  Conserved' /\ SettledInv'
  BY <1>0, <1>4, GivingQuietly, ServeGoneBalance, ServeWaiterBalance, AddBalance DEF Giving
<1>5. CASE Scavenge \/ BufferFull \/ BufferFlushed \/ UNCHANGED vars
  BY <1>0, <1>5, ScavengeBalance, BufferQuiet
<1>. QED
  BY <1>1, <1>2, <1>3, <1>4, <1>5, Zenon DEF Next

\* Every byte is in one place (Conserved): whatever fills in part, timeouts, failed calls and
\* stale entries do, what they lose is what is counted as lost.
THEOREM BytesConserved ==
  ASSUME IsFiniteSet(Xct)
  PROVE  Spec => []Conserved
<1>1. Init => SettledInv /\ Conserved
  <2>. SUFFICES ASSUME Init PROVE SettledInv /\ Conserved
    OBVIOUS
  <2>1. SettledInv
    BY DEF Init, SettledInv, NoCall, NewCall
  <2>2. \A x \in Xct : Account[x] = 0
    BY DEF Init, Account, NoCall, NewCall
  <2>3. Account \in [Xct -> Int] /\ rel \in [Caller -> Int] /\ \A t \in Caller : rel[t] = 0
    BY <2>2 DEF Init, Account
  <2>4. IsFiniteSet(Caller)
    BY FS_AddElement DEF Caller
  <2>5. SumFunction(Account) = 0 /\ SumFunction(rel) = 0
    BY <2>2, <2>3, <2>4, SumOfNothing
  <2>6. avail = Total /\ old = 0 /\ leaked = 0 /\ dropped = 0 /\ Total \in Nat
    BY SpaceAssumption DEF Init
  <2>. QED
    BY <2>1, <2>5, <2>6 DEF Conserved
<1>2. IInv /\ IInv' /\ SettledInv /\ Conserved /\ [Next]_vars => Conserved' /\ SettledInv'
  BY StepBalance
<1>. QED
  BY <1>1, <1>2, Invariant, PTL DEF Spec

-----------------------------------------------------------------------------
(***************************************************************************)
(* ChkptSpace: the account of the checkpoints, for any sizes.              *)
(***************************************************************************)
ChkptPC == {"idle", "take", "log", "scavenge", "skim", "release", "fatal"}

ChkptTypeOK ==
  /\ free \in Nat /\ set_aside \in Nat /\ taken \in Nat /\ reclaimed \in Nat
  /\ size \in 0..Max_chkpt
  /\ at \in ChkptPC

(***************************************************************************)
(* A checkpoint starts only behind a verify, which leaves room for one; no *)
(* one but the checkpoint draws on the account.  What makes scavenge fill  *)
(* it: it leaves the loop with the account full or with nothing in hand,   *)
(* and it cannot have skimmed a whole partition without filling it.        *)
(***************************************************************************)
InHand ==
  /\ at \in {"idle", "take", "log"} => reclaimed = 0
  /\ at = "skim" => reclaimed > 0
  /\ at = "skim" => set_aside >= Max_chkpt
  /\ at = "scavenge" => reclaimed >= Max_chkpt \/ set_aside >= 2 * Max_chkpt
  /\ at = "skim" => reclaimed >= Max_chkpt \/ set_aside >= 2 * Max_chkpt
  /\ at = "release" => set_aside >= 2 * Max_chkpt

ChkptInv == ChkptTypeOK /\ AccountsConserved /\ CheckpointCovered /\ InHand

LEMMA MinOfTwo ==
  ASSUME NEW a \in Nat, NEW b \in Nat
  PROVE  /\ Min({a, b}) \in Nat /\ Min({a, b}) <= a /\ Min({a, b}) <= b
         /\ Min({a, b}) \in {a, b}
<1>1. CASE a <= b
  <2>. a \in {a, b} /\ \A y \in {a, b} : a <= y
    BY <1>1
  <2>. QED
    BY DEF Min
<1>2. CASE b <= a
  <2>. b \in {a, b} /\ \A y \in {a, b} : b <= y
    BY <1>2
  <2>. QED
    BY DEF Min
<1>. QED
  BY <1>1, <1>2

LEMMA WholePartitions ==
  ASSUME NEW n \in Nat, NEW p \in Nat, p > 0, NEW c \in 0..(n \div p)
  PROVE  c * p \in Nat /\ c * p <= n /\ (c > 0 => c * p >= p)
  OBVIOUS

LEMMA ChkptStep == ChkptInv /\ [ChkptNext]_chkptVars => ChkptInv'
<1>. SUFFICES ASSUME ChkptInv, [ChkptNext]_chkptVars PROVE ChkptInv'
  OBVIOUS
<1>. USE SizesAssumption DEF ChkptInv, ChkptTypeOK, ChkptPC, AccountsConserved, CheckpointCovered, InHand
<1>1. CASE Reserve
  BY <1>1 DEF Reserve
<1>2. CASE Return
  BY <1>2 DEF Return
<1>3. CASE VerifyYes
  BY <1>3 DEF VerifyYes, Verifying
<1>4. CASE VerifyReserve
  BY <1>4 DEF VerifyReserve, Verifying
<1>5. CASE VerifyNo
  BY <1>5 DEF VerifyNo, Verifying
<1>6. CASE VerifyFatal
  BY <1>6 DEF VerifyFatal, Verifying
<1>7. CASE Take
  BY <1>7 DEF Take
<1>8. CASE LogInsert
  BY <1>8 DEF LogInsert
<1>9. CASE Complete
  <2>1. PICK count \in 0..(taken \div Partition) :
          /\ reclaimed' = count * Partition
          /\ taken' = taken - count * Partition
          /\ at' = IF count > 0 THEN "scavenge" ELSE "idle"
    BY <1>9 DEF Complete
  <2>2. /\ count * Partition \in Nat /\ count * Partition <= taken
        /\ count > 0 => count * Partition >= Partition
    BY WholePartitions
  <2>3. count = 0 => count * Partition = 0
    OBVIOUS
  <2>4. at = "log" /\ UNCHANGED <<free, set_aside, size>>
    BY <1>9 DEF Complete
  <2>. HIDE DEF ChkptInv
  <2>5. count \in Nat
    OBVIOUS
  <2>. QED
    BY <2>1, <2>2, <2>3, <2>4, <2>5 DEF ChkptInv
<1>10. CASE Skim
  <2>. DEFINE skimmed == Min({Max_chkpt, reclaimed})
  <2>1. /\ skimmed \in Nat /\ skimmed <= Max_chkpt /\ skimmed <= reclaimed
        /\ skimmed \in {Max_chkpt, reclaimed}
    BY MinOfTwo
  <2>2. /\ at = "skim" /\ at' = "scavenge"
        /\ set_aside' = set_aside + skimmed /\ reclaimed' = reclaimed - skimmed
        /\ UNCHANGED <<free, taken, size>>
    BY <1>10 DEF Skim
  <2>. HIDE DEF skimmed
  <2>. QED
    BY <2>1, <2>2
<1>11. CASE Release
  BY <1>11 DEF Release
<1>12. CASE UNCHANGED chkptVars
  BY <1>12 DEF chkptVars
<1>. QED
  BY <1>1, <1>2, <1>3, <1>4, <1>5, <1>6, <1>7, <1>8, <1>9, <1>10, <1>11, <1>12 DEF ChkptNext, Verify

LEMMA ChkptStart == ChkptInit => ChkptInv
  BY SizesAssumption
  DEF ChkptInit, ChkptInv, ChkptTypeOK, ChkptPC, AccountsConserved, CheckpointCovered, InHand

\* A step between the two accounts, or from either to the transactions and the log, loses no
\* byte, and a checkpoint that has been let start finds its records paid for, with any sizes
\* that _set_size accepts.
THEOREM ChkptCovered == ChkptSpec => [](AccountsConserved /\ CheckpointCovered)
<1>1. ChkptInv => AccountsConserved /\ CheckpointCovered
  BY DEF ChkptInv
<1>. QED
  BY <1>1, ChkptStart, ChkptStep, PTL DEF ChkptSpec

\* scavenge gives nothing to the transactions before the account is full again.
THEOREM ChkptFilled == ChkptSpec => ToppedUp
<1>1. ChkptInv /\ [ChkptNext]_chkptVars => [at = "release" /\ at' = "idle" => set_aside' >= 2 * Max_chkpt]_chkptVars
  <2>. SUFFICES ASSUME ChkptInv, [ChkptNext]_chkptVars, at = "release", at' = "idle"
                PROVE  set_aside' >= 2 * Max_chkpt
    OBVIOUS
  <2>1. set_aside >= 2 * Max_chkpt
    BY DEF ChkptInv, InHand
  <2>2. CASE Release
    BY <2>1, <2>2 DEF Release
  <2>3. CASE ~Release
    BY <2>3 DEF ChkptNext, Verify, Verifying, Reserve, Return, VerifyYes, VerifyReserve, VerifyNo,
      VerifyFatal, Take, LogInsert, Complete, Skim, chkptVars
  <2>. QED
    BY <2>2, <2>3
<1>. QED
  BY <1>1, ChkptStart, ChkptStep, PTL DEF ChkptSpec, ToppedUp
=============================================================================
