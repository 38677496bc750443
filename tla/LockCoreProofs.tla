--------------------------- MODULE LockCoreProofs ---------------------------
(***************************************************************************)
(* Proofs about LockCore, for any number of transactions and locks and any *)
(* modes: types, safety, and what the callers of the lock core may rely    *)
(* on.  All but the types supposes that pthread_cond_timedwait does not    *)
(* return without a reason.  The invariant comes in layers, each of which  *)
(* rests on those before:                                                  *)
(*   WaitInv   who holds a head mutex, and who waits for what,             *)
(*   OrderInv  what the order of a queue and the head's flag say,          *)
(*   ModeInv   what the granted mode of the head says of the holders,      *)
(*   WishInv   what the requests ask for is more than what they hold,      *)
(*   ExactInv  the granted mode of a head is the mode of its holders.      *)
(* With these every step is one of the steps of LockService.               *)
(***************************************************************************)
EXTENDS LockCore, SequenceTheorems, WellFoundedInduction, TLAPS


-----------------------------------------------------------------------------
(***************************************************************************)
(* The tables.                                                             *)
(***************************************************************************)

LEMMA SuprIsMode == \A a, b \in Mode : supr[a][b] \in Mode
  BY DEF Mode, supr

LEMMA GroupModeIsMode == \A S : GroupMode(S) \in Mode
<1>. TAKE S
<1>. DEFINE in(m) == IF m \in S THEN m ELSE "NL"
<1>1. \A m \in Mode : in(m) \in Mode
  BY DEF Mode
<1>2. {"EX", "UD", "SIX", "SH", "IX", "IS"} \subseteq Mode
  BY DEF Mode
<1>. QED
  BY <1>1, <1>2, SuprIsMode, ZenonT(60) DEF GroupMode

-----------------------------------------------------------------------------
(***************************************************************************)
(* The queue without one request.                                          *)
(***************************************************************************)
NoDuplicates(q) == \A i, j \in 1..Len(q) : q[i] = q[j] => i = j
In(x, q) == \E i \in 1..Len(q) : q[i] = x

LEMMA DetachShifts ==
  ASSUME NEW S, NEW q \in Seq(S), NoDuplicates(q), NEW i \in 1..Len(q)
  PROVE  /\ Detach(q, q[i]) \in Seq(S)
         /\ Len(Detach(q, q[i])) = Len(q) - 1
         /\ \A j \in 1..(Len(q) - 1) : Detach(q, q[i])[j] = IF j < i THEN q[j] ELSE q[j + 1]
<1>1. (CHOOSE k \in 1..Len(q) : q[k] = q[i]) = i
  BY DEF NoDuplicates
<1>. DEFINE a == SubSeq(q, 1, i - 1)
            b == SubSeq(q, i + 1, Len(q))
<1>2. Detach(q, q[i]) = a \o b
  BY <1>1 DEF Detach, RemoveAt
<1>3. a \in Seq(S) /\ Len(a) = i - 1 /\ \A j \in 1..(i - 1) : a[j] = q[j]
  OBVIOUS
<1>4. b \in Seq(S) /\ Len(b) = Len(q) - i /\ \A j \in 1..(Len(q) - i) : b[j] = q[i + j]
  OBVIOUS
<1>. HIDE DEF a, b
<1>5. /\ a \o b \in Seq(S)
      /\ Len(a \o b) = Len(a) + Len(b)
      /\ \A j \in 1..(Len(a) + Len(b)) :
            (a \o b)[j] = IF j <= Len(a) THEN a[j] ELSE b[j - Len(a)]
  BY <1>3, <1>4, ConcatProperties
<1>6. Len(a) + Len(b) = Len(q) - 1
  BY <1>3, <1>4
<1>7. ASSUME NEW j \in 1..(Len(q) - 1)
      PROVE  (a \o b)[j] = IF j < i THEN q[j] ELSE q[j + 1]
  <2>1. CASE j < i
    BY <2>1, <1>3, <1>5, <1>6
  <2>2. CASE j >= i
    <3>1. (a \o b)[j] = b[j - (i - 1)]
      BY <2>2, <1>3, <1>5, <1>6
    <3>2. j - (i - 1) \in 1..(Len(q) - i) /\ i + (j - (i - 1)) = j + 1
      BY <2>2
    <3>. QED
      BY <3>1, <3>2, <2>2, <1>4
  <2>3. j < i \/ j >= i
    OBVIOUS
  <2>. QED
    BY <2>1, <2>2, <2>3
<1>. QED
  BY <1>2, <1>5, <1>6, <1>7

LEMMA DetachElements ==
  ASSUME NEW S, NEW q \in Seq(S), NoDuplicates(q), NEW x, In(x, q)
  PROVE  /\ Detach(q, x) \in Seq(S)
         /\ NoDuplicates(Detach(q, x))
         /\ \A y : In(y, Detach(q, x)) <=> In(y, q) /\ y # x
<1>1. PICK i \in 1..Len(q) : q[i] = x
  BY DEF In
<1>. DEFINE d == Detach(q, x)
<1>2. /\ d \in Seq(S)
      /\ Len(d) = Len(q) - 1
      /\ \A j \in 1..(Len(q) - 1) : d[j] = IF j < i THEN q[j] ELSE q[j + 1]
  BY <1>1, DetachShifts
<1>. HIDE DEF d
<1>3. NoDuplicates(d)
  <2>. SUFFICES ASSUME NEW j \in 1..Len(d), NEW k \in 1..Len(d), d[j] = d[k]
                PROVE  j = k
    BY DEF NoDuplicates
  <2>. QED
    BY <1>2 DEF NoDuplicates
<1>4. ASSUME NEW y, In(y, d)
      PROVE  In(y, q) /\ y # x
  <2>1. PICK j \in 1..Len(d) : d[j] = y
    BY <1>4 DEF In
  <2>. QED
    BY <2>1, <1>1, <1>2 DEF In, NoDuplicates
<1>5. ASSUME NEW y, In(y, q), y # x
      PROVE  In(y, d)
  <2>1. PICK j \in 1..Len(q) : q[j] = y
    BY <1>5 DEF In
  <2>2. CASE j < i
    BY <2>1, <2>2, <1>2 DEF In
  <2>3. CASE j > i
    <3>1. j - 1 \in 1..Len(d) /\ d[j - 1] = q[j]
      BY <2>3, <1>2
    <3>. QED
      BY <3>1, <2>1 DEF In
  <2>. QED
    BY <2>1, <2>2, <2>3, <1>1, <1>5
<1>. QED
  BY <1>2, <1>3, <1>4, <1>5 DEF d

-----------------------------------------------------------------------------
(***************************************************************************)
(* Type correctness.  It takes that the queue of a lock holds exactly the  *)
(* transactions with a request, each once, so that what a denial or a      *)
(* release detaches is there; and that who waits has a request, and room   *)
(* for one acquire.                                                        *)
(***************************************************************************)
Queued ==
  \A l \in Lock :
    /\ NoDuplicates(queue[l])
    /\ \A x \in Xct : In(x, queue[l]) <=> req[l][x].st # "none"

RoomToCount ==
  \A x \in Xct :
    pc[x] \in Awaiting =>
      req[call[x].lock][x].st # "none" /\ req[call[x].lock][x].cnt < MaxCount

TypeInv == TypeOK /\ Queued /\ RoomToCount

LEMMA ModeFacts ==
  /\ {"NL", "IS", "IX", "SH", "SIX", "UD", "EX"} = Mode
  /\ AskModes \subseteq Mode
  BY AskAssumption DEF Mode

LEMMA NoReqType == NoReq \in Request
  BY CountAssumption DEF NoReq, Request, Status, Mode

LEMMA NoCallType == NoCall \in Call
  BY LockAssumption DEF NoCall, Call

LEMMA SetReqEffect ==
  ASSUME TypeOK, NEW l \in Lock, NEW x \in Xct, NEW r \in Request, SetReq(l, x, r)
  PROVE  /\ req' \in [Lock -> [Xct -> Request]]
         /\ \A k \in Lock, y \in Xct : req'[k][y] = IF k = l /\ y = x THEN r ELSE req[k][y]
  BY DEF TypeOK, SetReq

LEMMA TypeInit == Init => TypeInv
<1>. SUFFICES ASSUME Init PROVE TypeInv
  OBVIOUS
<1>1. TypeOK
  <2>1. NoReq \in Request /\ NoCall \in Call /\ "NL" \in Mode
    BY NoReqType, NoCallType DEF Mode
  <2>2. queue \in [Lock -> Seq(Xct)]
    BY DEF Init
  <2>3. req \in [Lock -> [Xct -> Request]]
    BY <2>1 DEF Init
  <2>. QED
    BY <2>1, <2>2, <2>3 DEF Init, TypeOK, PC, Signal
<1>2. Queued
  BY DEF Init, Queued, NoDuplicates, In, NoReq
<1>3. RoomToCount
  BY DEF Init, RoomToCount, Awaiting
<1>. QED
  BY <1>1, <1>2, <1>3 DEF TypeInv

LEMMA AppendElements ==
  ASSUME NEW S, NEW q \in Seq(S), NEW x \in S, NoDuplicates(q), ~In(x, q)
  PROVE  /\ Append(q, x) \in Seq(S)
         /\ NoDuplicates(Append(q, x))
         /\ \A y : In(y, Append(q, x)) <=> In(y, q) \/ y = x
<1>. DEFINE a == Append(q, x)
<1>1. a \in Seq(S) /\ Len(a) = Len(q) + 1 /\ a[Len(q) + 1] = x
      /\ \A i \in 1..Len(q) : a[i] = q[i]
  OBVIOUS
<1>. HIDE DEF a
<1>2. \A i \in 1..Len(a) : i \in 1..Len(q) \/ i = Len(q) + 1
  BY <1>1
<1>3. NoDuplicates(a)
  BY <1>1, <1>2 DEF NoDuplicates, In
<1>4. \A y : In(y, a) <=> In(y, q) \/ y = x
  <2>. TAKE y
  <2>1. In(y, a) => In(y, q) \/ y = x
    BY <1>1, <1>2 DEF In
  <2>2. In(y, q) => In(y, a)
    BY <1>1 DEF In
  <2>3. In(x, a)
    BY <1>1 DEF In
  <2>. QED
    BY <2>1, <2>2, <2>3
<1>. QED
  BY <1>1, <1>3, <1>4 DEF a

LEMMA QueuedKept ==
  ASSUME Queued, queue' = queue,
         \A l \in Lock, x \in Xct : req'[l][x].st = "none" <=> req[l][x].st = "none"
  PROVE  Queued'
  BY DEF Queued

LEMMA QueuedAppended ==
  ASSUME TypeOK, Queued, NEW l \in Lock, NEW x \in Xct, req[l][x].st = "none",
         queue' = [queue EXCEPT ![l] = Append(@, x)],
         \A k \in Lock, y \in Xct :
           req'[k][y].st = "none" <=> req[k][y].st = "none" /\ ~(k = l /\ y = x)
  PROVE  /\ Queued'
         /\ queue' \in [Lock -> Seq(Xct)]
<1>1. queue[l] \in Seq(Xct) /\ NoDuplicates(queue[l]) /\ ~In(x, queue[l])
  BY DEF TypeOK, Queued
<1>2. queue'[l] = Append(queue[l], x) /\ \A k \in Lock \ {l} : queue'[k] = queue[k]
  BY DEF TypeOK
<1>3. NoDuplicates(queue'[l]) /\ \A y : In(y, queue'[l]) <=> In(y, queue[l]) \/ y = x
  BY <1>1, <1>2, AppendElements
<1>4. queue' \in [Lock -> Seq(Xct)]
  BY <1>1 DEF TypeOK
<1>. QED
  BY <1>2, <1>3, <1>4, ZenonT(60) DEF Queued

LEMMA QueuedDetached ==
  ASSUME TypeOK, Queued, NEW l \in Lock, NEW x \in Xct, req[l][x].st # "none",
         queue' = [queue EXCEPT ![l] = Detach(queue[l], x)],
         \A k \in Lock, y \in Xct :
           req'[k][y].st = "none" <=> req[k][y].st = "none" \/ (k = l /\ y = x)
  PROVE  /\ Queued'
         /\ queue' \in [Lock -> Seq(Xct)]
<1>1. queue[l] \in Seq(Xct) /\ NoDuplicates(queue[l]) /\ In(x, queue[l])
  BY DEF TypeOK, Queued
<1>2. queue'[l] = Detach(queue[l], x) /\ \A k \in Lock \ {l} : queue'[k] = queue[k]
  BY DEF TypeOK
<1>3. /\ queue'[l] \in Seq(Xct)
      /\ NoDuplicates(queue'[l])
      /\ \A y : In(y, queue'[l]) <=> In(y, queue[l]) /\ y # x
  BY <1>1, <1>2, DetachElements
<1>4. queue' \in [Lock -> Seq(Xct)]
  BY <1>2, <1>3 DEF TypeOK
<1>. QED
  BY <1>2, <1>3, <1>4, SMTT(60) DEF Queued

\* Asking for a lock.
LEMMA CountedType ==
  ASSUME NEW r \in Request, r.cnt < MaxCount, NEW d \in BOOLEAN
  PROVE  /\ Counted(r, d) \in Request
         /\ Counted(r, d).st = r.st
         /\ Counted(r, d).mode = r.mode
         /\ Counted(r, d).cnt = r.cnt + 1
<1>. DEFINE b == r.long \/ d
            n == r.cnt + 1
<1>1. n \in 0..MaxCount
  BY CountAssumption DEF Request
<1>2. b \in BOOLEAN
  OBVIOUS
<1>3. Counted(r, d) = [r EXCEPT !.cnt = n, !.long = b]
  BY DEF Counted
<1>. HIDE DEF b, n
<1>4. [r EXCEPT !.cnt = n, !.long = b] \in Request
  BY <1>1, <1>2 DEF Request
<1>5. /\ [r EXCEPT !.cnt = n, !.long = b].st = r.st
      /\ [r EXCEPT !.cnt = n, !.long = b].mode = r.mode
      /\ [r EXCEPT !.cnt = n, !.long = b].cnt = n
  BY DEF Request
<1>. QED
  BY <1>3, <1>4, <1>5 DEF n

LEMMA NewReqType ==
  ASSUME NEW s \in Status, NEW m \in Mode, NEW d \in BOOLEAN
  PROVE  /\ [NoReq EXCEPT !.st = s, !.mode = m, !.long = d] \in Request
         /\ [NoReq EXCEPT !.st = s, !.mode = m, !.long = d].st = s
         /\ [NoReq EXCEPT !.st = s, !.mode = m, !.long = d].cnt = 0
         /\ [NoReq EXCEPT !.st = s, !.mode = m] \in Request
         /\ [NoReq EXCEPT !.st = s, !.mode = m].st = s
         /\ [NoReq EXCEPT !.st = s, !.mode = m].mode = m
         /\ [NoReq EXCEPT !.st = s, !.mode = m].cnt = 0
<1>1. NoReq \in Request /\ NoReq.cnt = 0
  BY NoReqType DEF NoReq
<1>. QED
  BY <1>1 DEF Request

LEMMA AskTypes ==
  ASSUME TypeInv, NEW x \in Xct, Ask(x)
  PROVE  TypeInv'
<1>. USE DEF TypeInv
<1>1. PICK l \in Lock, m \in AskModes, d \in Durations :
        \/ Reacquire(x, l, m, d)
        \/ Upgrade(x, l, m, d)
        \/ Grant(x, l, m, d)
        \/ \E p \in Patience : AwaitUpgrade(x, l, m, d, p) \/ AwaitGrant(x, l, m, d, p)
  BY DEF Ask
<1>. DEFINE r == req[l][x]
            mode == NewMode(l, x, m)
<1>2. r \in Request /\ m \in Mode /\ d \in BOOLEAN /\ mode \in Mode
  BY ModeFacts, SuprIsMode, DurationAssumption DEF TypeOK, Request, NewMode
<1>3. gmode[l] \in Mode /\ OthersMode(l, x, mode) \in Mode
  BY <1>2, SuprIsMode, GroupModeIsMode DEF TypeOK, OthersMode, GrantedModeOther
<1>4. CASE Reacquire(x, l, m, d)
  <2>1. Counted(r, d) \in Request /\ Counted(r, d).st = r.st
    BY <1>2, <1>4, CountedType DEF Reacquire, CanAsk
  <2>2. /\ req' \in [Lock -> [Xct -> Request]]
        /\ \A k \in Lock, y \in Xct :
             req'[k][y] = IF k = l /\ y = x THEN Counted(r, d) ELSE req[k][y]
    BY <1>4, <2>1, SetReqEffect DEF Reacquire
  <2>3. TypeOK'
    BY <1>4, <2>2 DEF TypeOK, Reacquire, infoVars
  <2>4. Queued'
    BY <1>4, <2>1, <2>2, QueuedKept DEF Reacquire
  <2>5. RoomToCount'
    BY <1>4, <2>2, ZenonT(60) DEF Reacquire, CanAsk, At, RoomToCount, Awaiting, TypeOK, Call
  <2>. QED
    BY <2>3, <2>4, <2>5
<1>5. CASE Upgrade(x, l, m, d)
  <2>. DEFINE u == Counted([r EXCEPT !.mode = mode], d)
  <2>1. u \in Request /\ u.st = r.st
    <3>. DEFINE c == [r EXCEPT !.mode = mode]
    <3>1. c \in Request /\ c.cnt < MaxCount /\ c.st = r.st
      BY <1>2, <1>5 DEF Upgrade, CanAsk, Request
    <3>. QED
      BY <3>1, <1>2, CountedType
  <2>2. /\ req' \in [Lock -> [Xct -> Request]]
        /\ \A k \in Lock, y \in Xct :
             req'[k][y] = IF k = l /\ y = x THEN u ELSE req[k][y]
    BY <1>5, <2>1, SetReqEffect DEF Upgrade
  <2>3. gmode' \in [Lock -> Mode]
    BY <1>5, <1>2, <1>3, SuprIsMode DEF TypeOK, Upgrade
  <2>4. TypeOK'
    BY <1>5, <2>2, <2>3 DEF TypeOK, Upgrade, infoVars
  <2>5. Queued'
    BY <1>5, <2>1, <2>2, QueuedKept DEF Upgrade
  <2>6. RoomToCount'
    BY <1>5, <2>2, ZenonT(60) DEF Upgrade, CanAsk, At, RoomToCount, Awaiting, TypeOK, Call
  <2>. QED
    BY <2>4, <2>5, <2>6
<1>6. CASE Grant(x, l, m, d)
  <2>. DEFINE g == Counted([NoReq EXCEPT !.st = "granted", !.mode = m], d)
  <2>1. g \in Request /\ g.st = "granted"
    <3>. DEFINE c == [NoReq EXCEPT !.st = "granted", !.mode = m]
    <3>1. c \in Request /\ c.cnt < MaxCount /\ c.st = "granted"
      <4>1. "granted" \in Status
        BY DEF Status
      <4>2. c \in Request /\ c.cnt = 0 /\ c.st = "granted"
        BY <4>1, <1>2, NewReqType, Zenon, ZenonT(60)
      <4>. QED
        BY <4>2, CountAssumption
    <3>. QED
      BY <3>1, <1>2, CountedType
  <2>2. /\ req' \in [Lock -> [Xct -> Request]]
        /\ \A k \in Lock, y \in Xct :
             req'[k][y] = IF k = l /\ y = x THEN g ELSE req[k][y]
    BY <1>6, <2>1, SetReqEffect DEF Grant
  <2>3. gmode' \in [Lock -> Mode]
    BY <1>6, <1>2, <1>3, SuprIsMode DEF TypeOK, Grant
  <2>4. Queued' /\ queue' \in [Lock -> Seq(Xct)]
    <3>1. /\ req[l][x].st = "none"
          /\ queue' = [queue EXCEPT ![l] = Append(@, x)]
      BY <1>6 DEF Grant
    <3>2. \A k \in Lock, y \in Xct :
            req'[k][y].st = "none" <=> req[k][y].st = "none" /\ ~(k = l /\ y = x)
      BY <2>1, <2>2
    <3>. QED
      BY <3>1, <3>2, QueuedAppended
  <2>5. TypeOK'
    BY <1>6, <2>2, <2>3, <2>4 DEF TypeOK, Grant, infoVars
  <2>6. RoomToCount'
    BY <1>6, <2>2, ZenonT(60) DEF Grant, CanAsk, At, RoomToCount, Awaiting, TypeOK, Call
  <2>. QED
    BY <2>4, <2>5, <2>6
<1>7. ASSUME NEW p \in Patience, StartWait(x, l, d, p)
      PROVE  /\ waiting' \in [Lock -> BOOLEAN]
             /\ owner' \in [Lock -> Xct \union {NoXct}]
             /\ call' \in [Xct -> Call]
             /\ call'[x].lock = l
             /\ \A y \in Xct \ {x} : pc'[y] = pc[y] /\ call'[y] = call[y]
             /\ pc' \in [Xct -> PC]
  <2>1. p \in Nat \union {Forever}
    BY PatienceAssumption
  <2>2. [lock |-> l, pos |-> 1, left |-> p, long |-> d] \in Call
    BY <2>1, <1>2 DEF Call
  <2>. QED
    BY <1>7, <2>2 DEF TypeOK, StartWait, Go, PC, Awaiting
<1>8. ASSUME NEW p \in Patience, AwaitUpgrade(x, l, m, d, p)
      PROVE  TypeInv'
  <2>. DEFINE u == [r EXCEPT !.st = "converting", !.cmode = mode]
  <2>1. u \in Request /\ u.st # "none" /\ u.cnt = r.cnt
    BY <1>2 DEF Request, Status
  <2>2. /\ req' \in [Lock -> [Xct -> Request]]
        /\ \A k \in Lock, y \in Xct :
             req'[k][y] = IF k = l /\ y = x THEN u ELSE req[k][y]
    BY <1>8, <2>1, SetReqEffect DEF AwaitUpgrade
  <2>3. StartWait(x, l, d, p)
    BY <1>8 DEF AwaitUpgrade
  <2>4. TypeOK'
    BY <1>7, <1>8, <2>2, <2>3 DEF TypeOK, AwaitUpgrade, StartWait, infoVars
  <2>5. Queued'
    BY <1>8, <2>1, <2>2, QueuedKept DEF AwaitUpgrade
  <2>6. RoomToCount'
    <3>. SUFFICES ASSUME NEW y \in Xct, pc'[y] \in Awaiting
                  PROVE  /\ req'[call'[y].lock][y].st # "none"
                         /\ req'[call'[y].lock][y].cnt < MaxCount
      BY DEF RoomToCount
    <3>1. CASE y = x
      BY <3>1, <1>7, <1>8, <2>1, <2>2, <2>3 DEF AwaitUpgrade, CanAsk
    <3>2. CASE y # x
      <4>1. pc'[y] = pc[y] /\ call'[y] = call[y] /\ call[y].lock \in Lock
        BY <3>2, <1>7, <2>3 DEF TypeOK, Call
      <4>. QED
        BY <3>2, <4>1, <2>2 DEF RoomToCount
    <3>. QED
      BY <3>1, <3>2
  <2>. QED
    BY <2>4, <2>5, <2>6
<1>9. ASSUME NEW p \in Patience, AwaitGrant(x, l, m, d, p)
      PROVE  TypeInv'
  <2>. DEFINE g == [NoReq EXCEPT !.st = "waiting", !.mode = m, !.long = d]
  <2>1. g \in Request /\ g.st = "waiting" /\ g.cnt = 0
    <3>1. "waiting" \in Status
      BY DEF Status
    <3>2. NoReq \in Request /\ NoReq.cnt = 0
      BY NoReqType DEF NoReq
    <3>. QED
      BY <3>1, <3>2, <1>2 DEF Request
  <2>. HIDE DEF g
  <2>2. /\ req' \in [Lock -> [Xct -> Request]]
        /\ \A k \in Lock, y \in Xct :
             req'[k][y] = IF k = l /\ y = x THEN g ELSE req[k][y]
    BY <1>9, <2>1, SetReqEffect DEF AwaitGrant, g
  <2>3. StartWait(x, l, d, p)
    BY <1>9 DEF AwaitGrant
  <2>4. Queued' /\ queue' \in [Lock -> Seq(Xct)]
    <3>1. /\ req[l][x].st = "none"
          /\ queue' = [queue EXCEPT ![l] = Append(@, x)]
      BY <1>9 DEF AwaitGrant
    <3>2. \A k \in Lock, y \in Xct :
            req'[k][y].st = "none" <=> req[k][y].st = "none" /\ ~(k = l /\ y = x)
      BY <2>1, <2>2
    <3>. QED
      BY <3>1, <3>2, QueuedAppended
  <2>5. TypeOK'
    BY <1>7, <1>9, <2>2, <2>3, <2>4 DEF TypeOK, AwaitGrant, StartWait, infoVars
  <2>6. RoomToCount'
    <3>. SUFFICES ASSUME NEW y \in Xct, pc'[y] \in Awaiting
                  PROVE  /\ req'[call'[y].lock][y].st # "none"
                         /\ req'[call'[y].lock][y].cnt < MaxCount
      BY DEF RoomToCount
    <3>1. CASE y = x
      <4>1. req'[l][x] = g /\ call'[x].lock = l
        BY <1>7, <2>2, <2>3
      <4>. QED
        BY <3>1, <4>1, <2>1, CountAssumption
    <3>2. CASE y # x
      <4>1. pc'[y] = pc[y] /\ call'[y] = call[y] /\ call[y].lock \in Lock
        BY <3>2, <1>7, <2>3 DEF TypeOK, Call
      <4>. QED
        BY <3>2, <4>1, <2>2 DEF RoomToCount
    <3>. QED
      BY <3>1, <3>2
  <2>. QED
    BY <2>4, <2>5, <2>6
<1>. QED
  BY <1>1, <1>4, <1>5, <1>6, <1>8, <1>9

\* A walk over the queue that wakes waiters.
LEMMA StartScanTypes ==
  ASSUME TypeOK, NEW x \in Xct, NEW l \in Lock, StartScan(x, l)
  PROVE  /\ waiting' \in [Lock -> BOOLEAN]
         /\ owner' \in [Lock -> Xct \union {NoXct}]
         /\ call' \in [Xct -> Call]
         /\ pc' \in [Xct -> PC]
         /\ sig' \in [Xct -> Signal]
         /\ pc'[x] \notin Awaiting
         /\ \A y \in Xct \ {x} : pc'[y] = pc[y] /\ call'[y] = call[y]
<1>1. NoCall \in Call /\ [NoCall EXCEPT !.lock = l] \in Call
  BY NoCallType DEF Call
<1>. HIDE DEF NoCall
<1>2. CASE UNCHANGED sig /\ Go(x, "scan") /\ owner' = [owner EXCEPT ![l] = x]
           /\ waiting' = [waiting EXCEPT ![l] = FALSE]
           /\ call' = [call EXCEPT ![x] = [NoCall EXCEPT !.lock = l]]
  BY <1>1, <1>2 DEF TypeOK, Go, PC, InHead, Awaiting
<1>3. CASE Return(x) /\ owner' = [owner EXCEPT ![l] = NoXct] /\ UNCHANGED waiting
  BY <1>1, <1>3 DEF TypeOK, Return, Go, PC, Awaiting, Signal
<1>. QED
  BY <1>2, <1>3 DEF StartScan

LEMMA UnblockTypes ==
  ASSUME TypeOK, NEW y \in Xct, NEW e \in Signal, Unblock(y, e)
  PROVE  sig' \in [Xct -> Signal]
  BY DEF TypeOK, Unblock

\* The request at place i of the queue that x walks.
LEMMA AtPlace ==
  ASSUME TypeInv, NEW x \in Xct, NEW i \in 1..Len(queue[call[x].lock])
  PROVE  /\ call[x].lock \in Lock
         /\ queue[call[x].lock][i] \in Xct
         /\ req[call[x].lock][queue[call[x].lock][i]].st # "none"
<1>1. call[x].lock \in Lock /\ queue[call[x].lock] \in Seq(Xct)
  BY DEF TypeInv, TypeOK, Call
<1>2. queue[call[x].lock][i] \in Xct
  BY <1>1
<1>3. In(queue[call[x].lock][i], queue[call[x].lock])
  BY DEF In
<1>. QED
  BY <1>1, <1>2, <1>3 DEF TypeInv, Queued

LEMMA PlaceTypes ==
  ASSUME TypeOK, NEW x \in Xct, NEW n \in Nat, call' = [call EXCEPT ![x].pos = n]
  PROVE  /\ call' \in [Xct -> Call]
         /\ \A y \in Xct : call'[y].lock = call[y].lock
<1>. DEFINE c == [call[x] EXCEPT !.pos = n]
<1>1. c \in Call /\ c.lock = call[x].lock
  BY DEF TypeOK, Call
<1>2. call' = [call EXCEPT ![x] = c]
  OBVIOUS
<1>. HIDE DEF c
<1>. QED
  BY <1>1, <1>2 DEF TypeOK

LEMMA ScanTypes ==
  ASSUME TypeInv, NEW x \in Xct, Scan(x)
  PROVE  TypeInv'
<1>. USE DEF TypeInv
<1>. DEFINE l == call[x].lock
<1>1. CASE ScanGrant(x)
  <2>1. PICK i \in 1..Len(queue[l]) :
          LET y == queue[l][i]
              mode == WantedMode(req[l][y])
          IN  /\ NextPending(x, i)
              /\ SetReq(l, y, [req[l][y] EXCEPT !.st = "granted", !.mode = mode, !.cmode = "NL"])
              /\ gmode' = [gmode EXCEPT ![l] = supr[mode][@]]
              /\ Unblock(y, "ok")
              /\ call' = [call EXCEPT ![x].pos = i + 1]
              /\ UNCHANGED <<queue, waiting, owner, pc, infoVars, fatal>>
    BY <1>1 DEF ScanGrant
  <2>. DEFINE y == queue[l][i]
              mode == WantedMode(req[l][y])
              g == [req[l][y] EXCEPT !.st = "granted", !.mode = mode, !.cmode = "NL"]
  <2>2. l \in Lock /\ y \in Xct /\ req[l][y].st # "none" /\ req[l][y] \in Request
    BY AtPlace DEF TypeOK
  <2>3. mode \in Mode
    BY <2>2 DEF WantedMode, Request
  <2>4. g \in Request /\ g.st = "granted" /\ g.cnt = req[l][y].cnt
    BY <2>2, <2>3, ModeFacts DEF Request, Status
  <2>. HIDE DEF l, y, g, mode
  <2>5. /\ req' \in [Lock -> [Xct -> Request]]
        /\ \A k \in Lock, z \in Xct :
             req'[k][z] = IF k = l /\ z = y THEN g ELSE req[k][z]
    BY <2>1, <2>2, <2>4, SetReqEffect DEF y, g, mode
  <2>6. gmode' \in [Lock -> Mode]
    BY <2>1, <2>2, <2>3, SuprIsMode DEF TypeOK, y, mode
  <2>7. sig' \in [Xct -> Signal]
    BY <2>1, <2>2, UnblockTypes DEF Signal, y
  <2>8. call' \in [Xct -> Call] /\ \A z \in Xct : call'[z].lock = call[z].lock
    <3>1. i + 1 \in Nat /\ call' = [call EXCEPT ![x].pos = i + 1]
      BY <2>1
    <3>. QED
      BY <3>1, PlaceTypes
  <2>9. TypeOK'
    BY <2>1, <2>5, <2>6, <2>7, <2>8 DEF TypeOK, infoVars
  <2>10. Queued'
    BY <2>1, <2>2, <2>4, <2>5, QueuedKept
  <2>11. RoomToCount'
    <3>. SUFFICES ASSUME NEW z \in Xct, pc'[z] \in Awaiting
                  PROVE  /\ req'[call'[z].lock][z].st # "none"
                         /\ req'[call'[z].lock][z].cnt < MaxCount
      BY DEF RoomToCount
    <3>1. pc[z] \in Awaiting /\ call'[z].lock = call[z].lock /\ call[z].lock \in Lock
      BY <2>1, <2>8 DEF TypeOK, Call
    <3>. QED
      BY <3>1, <2>4, <2>5 DEF RoomToCount
  <2>. QED
    BY <2>9, <2>10, <2>11
<1>2. CASE ScanPass(x)
  <2>1. /\ call' \in [Xct -> Call] /\ \A z \in Xct : call'[z].lock = call[z].lock
        /\ UNCHANGED <<headVars, owner, pc, infoVars, sig, fatal>>
    <3>1. PICK i \in 1..Len(queue[l]) :
            /\ call' = [call EXCEPT ![x].pos = i + 1]
            /\ UNCHANGED <<headVars, owner, pc, infoVars, sig, fatal>>
      BY <1>2 DEF ScanPass
    <3>2. i + 1 \in Nat
      OBVIOUS
    <3>. QED
      BY <3>1, <3>2, PlaceTypes
  <2>2. TypeOK'
    BY <2>1 DEF TypeOK, headVars, infoVars
  <2>3. Queued'
    BY <2>1, QueuedKept DEF headVars
  <2>4. RoomToCount'
    BY <2>1 DEF RoomToCount, headVars
  <2>. QED
    BY <2>2, <2>3, <2>4
<1>3. CASE ScanEnd(x)
  <2>1. l \in Lock
    BY DEF TypeOK, Call
  <2>2. /\ waiting' \in [Lock -> BOOLEAN]
        /\ owner' \in [Lock -> Xct \union {NoXct}]
        /\ UNCHANGED <<queue, req, gmode, infoVars, fatal>>
    BY <1>3, <2>1 DEF ScanEnd, TypeOK
  <2>3. /\ call' \in [Xct -> Call]
        /\ pc' \in [Xct -> PC]
        /\ sig' \in [Xct -> Signal]
        /\ pc'[x] = "idle"
        /\ \A y \in Xct \ {x} : pc'[y] = pc[y] /\ call'[y] = call[y]
    BY <1>3, NoCallType DEF ScanEnd, Return, Go, TypeOK, PC, Signal
  <2>4. TypeOK'
    BY <2>2, <2>3 DEF TypeOK, infoVars
  <2>5. Queued'
    BY <2>2, QueuedKept
  <2>6. RoomToCount'
    BY <2>2, <2>3 DEF RoomToCount, Awaiting
  <2>. QED
    BY <2>4, <2>5, <2>6
<1>. QED
  BY <1>1, <1>2, <1>3 DEF Scan

\* Detecting deadlocks, and a wait that failed.
LEMMA DenyTypes ==
  ASSUME TypeInv, NEW x \in Xct, pc[x] \in Awaiting, NEW e \in Signal, Deny(x, e)
  PROVE  TypeInv'
<1>. USE DEF TypeInv
<1>. DEFINE l == call[x].lock
            r == IF req[l][x].st = "waiting" THEN NoReq
                 ELSE [req[l][x] EXCEPT !.st = "granted", !.cmode = "NL"]
<1>1. l \in Lock /\ req[l][x] \in Request /\ req[l][x].st # "none"
  BY DEF TypeOK, Call, RoomToCount
<1>2. r \in Request /\ (r.st = "none" <=> req[l][x].st = "waiting")
  BY <1>1, NoReqType, ModeFacts DEF Request, Status, NoReq
<1>. HIDE DEF l
<1>3. StartScan(x, l) /\ SetReq(l, x, r)
  BY DEF Deny, l
<1>. HIDE DEF r
<1>4. /\ req' \in [Lock -> [Xct -> Request]]
      /\ \A k \in Lock, y \in Xct : req'[k][y] = IF k = l /\ y = x THEN r ELSE req[k][y]
  BY <1>1, <1>2, <1>3, SetReqEffect
<1>5. Queued' /\ queue' \in [Lock -> Seq(Xct)]
  <2>1. CASE req[l][x].st = "waiting"
    <3>1. queue' = [queue EXCEPT ![l] = Detach(queue[l], x)]
      BY <2>1 DEF Deny, l
    <3>2. \A k \in Lock, y \in Xct :
            req'[k][y].st = "none" <=> req[k][y].st = "none" \/ (k = l /\ y = x)
      BY <2>1, <1>2, <1>4
    <3>. QED
      BY <3>1, <3>2, <1>1, QueuedDetached
  <2>2. CASE req[l][x].st # "waiting"
    <3>1. queue' = queue
      BY <2>2, <1>1 DEF Deny, l, TypeOK
    <3>2. \A k \in Lock, y \in Xct : req'[k][y].st = "none" <=> req[k][y].st = "none"
      BY <2>2, <1>1, <1>2, <1>4
    <3>. QED
      BY <3>1, <3>2, QueuedKept DEF TypeOK
  <2>. QED
    BY <2>1, <2>2
<1>6. TypeOK'
  <2>1. gmode' \in [Lock -> Mode]
    BY ModeFacts DEF Deny, TypeOK
  <2>2. /\ wmap' \in [Xct -> SUBSET Xct]
        /\ leaving' \in [Xct -> BOOLEAN]
        /\ UNCHANGED <<noblock, fatal>>
    BY DEF Deny, TypeOK
  <2>. QED
    BY <1>1, <1>3, <1>4, <1>5, <2>1, <2>2, StartScanTypes DEF TypeOK
<1>7. RoomToCount'
  <2>. SUFFICES ASSUME NEW y \in Xct, pc'[y] \in Awaiting
                PROVE  /\ req'[call'[y].lock][y].st # "none"
                       /\ req'[call'[y].lock][y].cnt < MaxCount
    BY DEF RoomToCount
  <2>1. y # x /\ pc[y] \in Awaiting /\ call'[y] = call[y] /\ call[y].lock \in Lock
    BY <1>1, <1>3, StartScanTypes DEF TypeOK, Call
  <2>. QED
    BY <2>1, <1>4 DEF RoomToCount
<1>. QED
  BY <1>5, <1>6, <1>7

LEMMA DetectTypes ==
  ASSUME TypeInv, NEW x \in Xct, Detect(x)
  PROVE  TypeInv'
<1>. USE DEF TypeInv
<1>. DEFINE l == call[x].lock
<1>0. l \in Lock /\ queue[l] \in Seq(Xct) /\ Len(queue[l]) \in Nat
  BY DEF TypeOK, Call
<1>1. CASE DldMerge(x)
  <2>1. PICK i \in 1..Len(queue[l]) :
          /\ wmap' = [wmap EXCEPT ![x] = MyMap(x) \union wmap[queue[l][i]]]
          /\ call' = [call EXCEPT ![x].pos = i + 1]
          /\ UNCHANGED <<headVars, owner, pc, leaving, noblock, sig, fatal>>
    BY <1>1 DEF DldMerge
  <2>2. i + 1 \in Nat /\ queue[l][i] \in Xct
    BY <1>0
  <2>3. /\ call' \in [Xct -> Call]
        /\ \A y \in Xct : call'[y].lock = call[y].lock
    BY <2>1, <2>2, PlaceTypes
  <2>4. wmap' \in [Xct -> SUBSET Xct]
    BY <2>1, <2>2 DEF TypeOK, MyMap
  <2>5. TypeOK'
    BY <2>1, <2>3, <2>4 DEF TypeOK, headVars
  <2>6. Queued'
    BY <2>1, QueuedKept DEF headVars
  <2>7. RoomToCount'
    BY <2>1, <2>3 DEF RoomToCount, headVars
  <2>. QED
    BY <2>5, <2>6, <2>7
<1>2. CASE DldSelf(x)
  <2>1. Deny(x, "dead") /\ pc[x] \in Awaiting
    BY <1>2 DEF DldSelf, NextAwaited, At, Awaiting
  <2>2. "dead" \in Signal
    BY DEF Signal
  <2>. QED
    BY <2>1, <2>2, DenyTypes
<1>3. CASE DldOther(x)
  <2>1. PICK i \in 1..Len(queue[l]) :
          /\ At(x, "dld")
          /\ wmap' = [wmap EXCEPT ![x] = {}]
          /\ \/ Go(x, "kill") /\ call' = [call EXCEPT ![x].pos = i]
             \/ SkipQueue(x) /\ UNCHANGED pc
          /\ UNCHANGED <<headVars, owner, leaving, noblock, sig, fatal>>
    BY <1>3 DEF DldOther, NextAwaited
  <2>2. PICK n \in Nat : call' = [call EXCEPT ![x].pos = n]
    <3>1. i \in Nat /\ Len(queue[l]) + 1 \in Nat
      BY <1>0
    <3>. QED
      BY <3>1, <2>1 DEF SkipQueue
  <2>3. /\ call' \in [Xct -> Call]
        /\ \A y \in Xct : call'[y].lock = call[y].lock
    BY <2>2, PlaceTypes
  <2>4. /\ pc' \in [Xct -> PC]
        /\ \A y \in Xct : pc'[y] \in Awaiting => pc[y] \in Awaiting
    BY <2>1 DEF TypeOK, Go, At, PC, InHead, Awaiting
  <2>5. TypeOK'
    BY <2>1, <2>3, <2>4 DEF TypeOK, headVars
  <2>6. Queued'
    BY <2>1, QueuedKept DEF headVars
  <2>7. RoomToCount'
    BY <2>1, <2>3, <2>4 DEF RoomToCount, headVars
  <2>. QED
    BY <2>5, <2>6, <2>7
<1>4. CASE DldKill(x)
  <2>1. /\ call' \in [Xct -> Call]
        /\ \A y \in Xct : call'[y].lock = call[y].lock
    <3>1. Len(queue[l]) + 1 \in Nat /\ call' = [call EXCEPT ![x].pos = Len(queue[l]) + 1]
      BY <1>0, <1>4 DEF DldKill, SkipQueue
    <3>. QED
      BY <3>1, PlaceTypes
  <2>2. /\ pc' \in [Xct -> PC]
        /\ \A y \in Xct : pc'[y] \in Awaiting => pc[y] \in Awaiting
    BY <1>4 DEF DldKill, TypeOK, Go, At, PC, InHead, Awaiting
  <2>3. sig' \in [Xct -> Signal]
    BY <1>4 DEF DldKill, Unblock, TypeOK, Signal
  <2>4. UNCHANGED <<headVars, owner, infoVars, fatal>>
    BY <1>4 DEF DldKill
  <2>5. TypeOK'
    BY <2>1, <2>2, <2>3, <2>4 DEF TypeOK, headVars, infoVars
  <2>6. Queued'
    BY <2>4, QueuedKept DEF headVars
  <2>7. RoomToCount'
    BY <2>1, <2>2, <2>4 DEF RoomToCount, headVars
  <2>. QED
    BY <2>5, <2>6, <2>7
<1>5. CASE DldDone(x)
  <2>. DEFINE n == IF call[x].left > 0 THEN call[x].left - 1 ELSE call[x].left
              c == [call[x] EXCEPT !.left = n]
  <2>1. n \in Nat \union {Forever}
    BY DEF TypeOK, Call, Forever
  <2>2. c \in Call /\ c.lock = call[x].lock
    BY <2>1 DEF TypeOK, Call
  <2>3. call' = [call EXCEPT ![x] = c]
    BY <1>5 DEF DldDone
  <2>. HIDE DEF n, c
  <2>4. /\ call' \in [Xct -> Call]
        /\ \A y \in Xct : call'[y].lock = call[y].lock
    BY <2>2, <2>3 DEF TypeOK
  <2>5. /\ pc' \in [Xct -> PC]
        /\ \A y \in Xct : pc'[y] \in Awaiting => pc[y] \in Awaiting
    BY <1>5 DEF DldDone, TypeOK, Go, At, PC, InHead, Awaiting
  <2>6. /\ owner' \in [Lock -> Xct \union {NoXct}]
        /\ UNCHANGED <<headVars, infoVars, sig, fatal>>
    BY <1>5 DEF DldDone, TypeOK
  <2>7. TypeOK'
    BY <2>4, <2>5, <2>6 DEF TypeOK, headVars, infoVars
  <2>8. Queued'
    BY <2>6, QueuedKept DEF headVars
  <2>9. RoomToCount'
    BY <2>4, <2>5, <2>6 DEF RoomToCount, headVars
  <2>. QED
    BY <2>7, <2>8, <2>9
<1>. QED
  BY <1>1, <1>2, <1>3, <1>4, <1>5 DEF Detect

\* Sleeping, waking up, and the end of a wait.
LEMMA SleepTypes ==
  ASSUME TypeInv, NEW x \in Xct, Sleep(x)
  PROVE  TypeInv'
<1>. USE DEF TypeInv
<1>1. UNCHANGED <<headVars, owner, call, infoVars, fatal>>
  BY DEF Sleep, Nap, EndNap
<1>2. sig' \in [Xct -> Signal]
  BY DEF Sleep, Nap, EndNap, NapEnds, TypeOK, Signal
<1>3. /\ pc' \in [Xct -> PC]
      /\ \A y \in Xct : pc'[y] \in Awaiting => pc[y] \in Awaiting
  BY DEF Sleep, Nap, EndNap, TypeOK, Go, At, PC, Awaiting
<1>4. TypeOK'
  BY <1>1, <1>2, <1>3 DEF TypeOK, headVars, infoVars
<1>5. Queued'
  BY <1>1, QueuedKept DEF headVars
<1>6. RoomToCount'
  BY <1>1, <1>3 DEF RoomToCount, headVars
<1>. QED
  BY <1>4, <1>5, <1>6

LEMMA WakeTypes ==
  ASSUME TypeInv, NEW x \in Xct, Wake(x)
  PROVE  TypeInv'
<1>. USE DEF TypeInv
<1>. DEFINE l == call[x].lock
<1>1. CASE TryAgain(x)
  <2>1. /\ call' \in [Xct -> Call]
        /\ \A y \in Xct : call'[y].lock = call[y].lock
    BY <1>1, PlaceTypes DEF TryAgain
  <2>2. /\ pc' \in [Xct -> PC]
        /\ \A y \in Xct : pc'[y] \in Awaiting => pc[y] \in Awaiting
    BY <1>1 DEF TryAgain, Retakes, TypeOK, Go, At, PC, InHead, Awaiting
  <2>3. /\ sig' \in [Xct -> Signal]
        /\ owner' \in [Lock -> Xct \union {NoXct}]
        /\ UNCHANGED <<headVars, infoVars, fatal>>
    BY <1>1 DEF TryAgain, TypeOK, Signal
  <2>4. TypeOK'
    BY <2>1, <2>2, <2>3 DEF TypeOK, headVars, infoVars
  <2>5. Queued'
    BY <2>3, QueuedKept DEF headVars
  <2>6. RoomToCount'
    BY <2>1, <2>2, <2>3 DEF RoomToCount, headVars
  <2>. QED
    BY <2>4, <2>5, <2>6
<1>2. CASE GiveUp(x)
  <2>1. pc[x] \in Awaiting /\ sig[x] \in Signal /\ Deny(x, sig[x])
    BY <1>2 DEF GiveUp, Retakes, At, Awaiting, TypeOK
  <2>. QED
    BY <2>1, DenyTypes
<1>3. CASE Granted(x)
  <2>. DEFINE g == Counted(req[l][x], call[x].long)
  <2>1. /\ l \in Lock /\ req[l][x] \in Request /\ call[x].long \in BOOLEAN
        /\ req[l][x].cnt < MaxCount
    BY <1>3 DEF Granted, Retakes, At, Awaiting, RoomToCount, TypeOK, Call
  <2>2. g \in Request /\ g.st = req[l][x].st
    BY <2>1, CountedType
  <2>. HIDE DEF g
  <2>3. /\ req' \in [Lock -> [Xct -> Request]]
        /\ \A k \in Lock, y \in Xct : req'[k][y] = IF k = l /\ y = x THEN g ELSE req[k][y]
    BY <1>3, <2>1, <2>2, SetReqEffect DEF Granted, g
  <2>4. /\ call' \in [Xct -> Call]
        /\ pc' \in [Xct -> PC]
        /\ sig' \in [Xct -> Signal]
        /\ pc'[x] = "idle"
        /\ \A y \in Xct \ {x} : pc'[y] = pc[y] /\ call'[y] = call[y]
    BY <1>3, NoCallType DEF Granted, Return, Go, TypeOK, PC, Signal
  <2>5. /\ wmap' \in [Xct -> SUBSET Xct]
        /\ UNCHANGED <<queue, gmode, waiting, owner, leaving, noblock, fatal>>
    BY <1>3 DEF Granted, TypeOK
  <2>6. TypeOK'
    BY <2>3, <2>4, <2>5 DEF TypeOK
  <2>7. Queued'
    BY <2>2, <2>3, <2>5, QueuedKept
  <2>8. RoomToCount'
    <3>. SUFFICES ASSUME NEW y \in Xct, pc'[y] \in Awaiting
                  PROVE  /\ req'[call'[y].lock][y].st # "none"
                         /\ req'[call'[y].lock][y].cnt < MaxCount
      BY DEF RoomToCount
    <3>1. y # x /\ pc[y] \in Awaiting /\ call'[y] = call[y] /\ call[y].lock \in Lock
      BY <2>4 DEF TypeOK, Call, Awaiting
    <3>. QED
      BY <3>1, <2>3 DEF RoomToCount
  <2>. QED
    BY <2>6, <2>7, <2>8
<1>. QED
  BY <1>1, <1>2, <1>3 DEF Wake

\* Releasing, ending, and a checkpoint.
LEMMA FreeTypes ==
  ASSUME TypeInv, NEW x \in Xct, Free(x)
  PROVE  TypeInv'
<1>. USE DEF TypeInv
<1>1. PICK l \in Lock : Uncount(x, l) \/ Release(x, l)
  BY DEF Free
<1>2. CASE Uncount(x, l)
  <2>. DEFINE r == [req[l][x] EXCEPT !.cnt = @ - 1]
  <2>1. r \in Request /\ r.st = req[l][x].st
    <3>1. req[l][x] \in Request /\ req[l][x].cnt - 1 \in 0..MaxCount
      BY <1>2, CountAssumption DEF Uncount, Request, TypeOK
    <3>. QED
      BY <3>1 DEF Request
  <2>. HIDE DEF r
  <2>2. /\ req' \in [Lock -> [Xct -> Request]]
        /\ \A k \in Lock, y \in Xct : req'[k][y] = IF k = l /\ y = x THEN r ELSE req[k][y]
    BY <1>2, <2>1, SetReqEffect DEF Uncount, r
  <2>3. /\ UNCHANGED <<queue, gmode, waiting, owner, pc, call, infoVars, sig, fatal>>
        /\ pc[x] \notin Awaiting
    BY <1>2 DEF Uncount, CanRelease, At, Awaiting
  <2>4. TypeOK'
    BY <2>2, <2>3 DEF TypeOK, infoVars
  <2>5. Queued'
    BY <2>1, <2>2, <2>3, QueuedKept
  <2>6. RoomToCount'
    BY <2>2, <2>3 DEF RoomToCount, TypeOK, Call
  <2>. QED
    BY <2>4, <2>5, <2>6
<1>3. CASE Release(x, l)
  <2>1. /\ req' \in [Lock -> [Xct -> Request]]
        /\ \A k \in Lock, y \in Xct :
             req'[k][y] = IF k = l /\ y = x THEN NoReq ELSE req[k][y]
    BY <1>3, NoReqType DEF Release, TypeOK
  <2>2. Queued' /\ queue' \in [Lock -> Seq(Xct)]
    <3>1. /\ req[l][x].st # "none"
          /\ queue' = [queue EXCEPT ![l] = Detach(queue[l], x)]
      BY <1>3 DEF Release, CanRelease
    <3>2. \A k \in Lock, y \in Xct :
            req'[k][y].st = "none" <=> req[k][y].st = "none" \/ (k = l /\ y = x)
      BY <2>1 DEF NoReq
    <3>. QED
      BY <3>1, <3>2, QueuedDetached
  <2>3. gmode' \in [Lock -> Mode]
    BY <1>3, GroupModeIsMode DEF Release, GrantedModeOther, TypeOK
  <2>4. StartScan(x, l) /\ UNCHANGED <<infoVars, fatal>>
    BY <1>3 DEF Release
  <2>5. TypeOK'
    BY <2>1, <2>2, <2>3, <2>4, StartScanTypes DEF TypeOK, infoVars
  <2>6. RoomToCount'
    <3>. SUFFICES ASSUME NEW y \in Xct, pc'[y] \in Awaiting
                  PROVE  /\ req'[call'[y].lock][y].st # "none"
                         /\ req'[call'[y].lock][y].cnt < MaxCount
      BY DEF RoomToCount
    <3>1. y # x /\ pc[y] \in Awaiting /\ call'[y] = call[y] /\ call[y].lock \in Lock
      BY <2>4, StartScanTypes DEF TypeOK, Call
    <3>. QED
      BY <3>1, <2>1 DEF RoomToCount
  <2>. QED
    BY <2>2, <2>5, <2>6
<1>. QED
  BY <1>1, <1>2, <1>3

LEMMA EndTypes ==
  ASSUME TypeInv, NEW x \in Xct, End(x) \/ Poison(x)
  PROVE  TypeInv'
<1>. USE DEF TypeInv
<1>1. TypeOK'
  <2>1. CASE End(x)
    BY <2>1 DEF End, TypeOK, headVars
  <2>2. CASE Poison(x)
    <3>1. fatal' \in BOOLEAN
      BY <2>2 DEF Poison
    <3>2. sig' \in [Xct -> Signal]
      BY <2>2, UnblockTypes DEF Poison, Signal
    <3>. QED
      BY <2>2, <3>1, <3>2 DEF Poison, TypeOK, headVars
  <2>. QED
    BY <2>1, <2>2
<1>2. Queued'
  BY QueuedKept DEF End, Poison, headVars
<1>3. RoomToCount'
  BY DEF End, Poison, headVars, RoomToCount
<1>. QED
  BY <1>1, <1>2, <1>3

LEMMA TypeStep == TypeInv /\ [Next]_vars => TypeInv'
<1>. SUFFICES ASSUME TypeInv, [Next]_vars PROVE TypeInv'
  OBVIOUS
<1>1. CASE UNCHANGED vars
  BY <1>1 DEF vars, headVars, infoVars, TypeInv, TypeOK, Queued, RoomToCount
<1>2. CASE \E x \in Xct : Ask(x) \/ Detect(x) \/ Sleep(x) \/ Wake(x) \/ Free(x) \/ Scan(x) \/ End(x)
  BY <1>2, AskTypes, DetectTypes, SleepTypes, WakeTypes, FreeTypes, ScanTypes, EndTypes
<1>3. CASE \E x \in Poisonable : Poison(x)
  BY <1>3, EndTypes, PoisonAssumption
<1>. QED
  BY <1>1, <1>2, <1>3 DEF Next, Finished, Crashed

\* Every state the lock core can reach is well typed: no count passes its bound, and no
\* queue or wait map names what is not a transaction.
THEOREM TypeCorrect == Spec => []TypeOK
<1>1. TypeInv => TypeOK
  BY DEF TypeInv
<1>. QED
  BY <1>1, TypeInit, TypeStep, PTL DEF Spec


-----------------------------------------------------------------------------
(***************************************************************************)
(* More about the tables.                                                  *)
(***************************************************************************)
LEMMA SuprAbsorbs ==
  \A a, b \in Mode : Leq(a, supr[a][b]) /\ Leq(b, supr[a][b])
  BY DEF Mode, supr, Leq

LEMMA SuprIdempotent == \A a \in Mode : Leq(a, a)
  BY DEF Mode, supr, Leq

LEMMA NLAbsorbed == \A a \in Mode : Leq("NL", a)
  BY DEF Mode, supr, Leq

LEMMA LeqSupr ==
  ASSUME NEW a \in Mode, NEW b \in Mode, NEW c \in Mode, Leq(a, b)
  PROVE  Leq(a, supr[b][c]) /\ Leq(a, supr[c][b])
<1>1. CASE a = "NL"
  BY <1>1, NLAbsorbed, SuprIsMode
<1>2. CASE a = "IS"
  BY <1>2 DEF Mode, supr, Leq
<1>3. CASE a = "IX"
  BY <1>3 DEF Mode, supr, Leq
<1>4. CASE a = "SH"
  BY <1>4 DEF Mode, supr, Leq
<1>5. CASE a = "SIX"
  BY <1>5 DEF Mode, supr, Leq
<1>6. CASE a = "UD"
  BY <1>6 DEF Mode, supr, Leq
<1>7. CASE a = "EX"
  BY <1>7 DEF Mode, supr, Leq
<1>. QED
  BY <1>1, <1>2, <1>3, <1>4, <1>5, <1>6, <1>7 DEF Mode

\* Whoever may join the group may join its members, but for UD and IS.
LEMMA JoinsMembers ==
  ASSUME NEW a \in Mode, NEW g \in Mode, NEW m \in Mode, Leq(a, g), g \in compat[m]
  PROVE  Tolerates(a, m) \/ {a, m} = {"UD", "IS"}
<1>1. a \in compat[m] \/ (m = "IS" /\ a = "UD") \/ (m = "UD" /\ a = "IS")
  BY DEF Mode, supr, Leq, compat
<1>. QED
  BY <1>1 DEF Tolerates

LEMMA GroupModeCovers ==
  ASSUME NEW S, NEW a \in S, a \in Mode
  PROVE  Leq(a, GroupMode(S))
<1>. DEFINE in(m) == IF m \in S THEN m ELSE "NL"
            g1 == in("IS")
            g2 == supr[in("IX")][g1]
            g3 == supr[in("SH")][g2]
            g4 == supr[in("SIX")][g3]
            g5 == supr[in("UD")][g4]
            g6 == supr[in("EX")][g5]
<1>1. GroupMode(S) = g6
  BY DEF GroupMode
<1>2. \A m \in Mode : in(m) \in Mode /\ (m = a => in(m) = a)
  BY DEF Mode
<1>3. {"EX", "UD", "SIX", "SH", "IX", "IS"} \subseteq Mode
  BY DEF Mode
<1>. HIDE DEF in
<1>4. g1 \in Mode /\ g2 \in Mode /\ g3 \in Mode /\ g4 \in Mode /\ g5 \in Mode /\ g6 \in Mode
  BY <1>2, <1>3, SuprIsMode
<1>5. CASE a = "NL"
  BY <1>1, <1>4, <1>5, NLAbsorbed
<1>6. a = "IS" => Leq(a, g1)
  BY <1>2, <1>3, <1>4, SuprIdempotent
<1>7. a = "IX" \/ Leq(a, g1) => Leq(a, g2)
  BY <1>2, <1>3, <1>4, SuprAbsorbs, LeqSupr
<1>8. a = "SH" \/ Leq(a, g2) => Leq(a, g3)
  BY <1>2, <1>3, <1>4, SuprAbsorbs, LeqSupr
<1>9. a = "SIX" \/ Leq(a, g3) => Leq(a, g4)
  BY <1>2, <1>3, <1>4, SuprAbsorbs, LeqSupr
<1>10. a = "UD" \/ Leq(a, g4) => Leq(a, g5)
  BY <1>2, <1>3, <1>4, SuprAbsorbs, LeqSupr
<1>11. a = "EX" \/ Leq(a, g5) => Leq(a, g6)
  BY <1>2, <1>3, <1>4, SuprAbsorbs, LeqSupr
<1>. QED
  BY <1>1, <1>5, <1>6, <1>7, <1>8, <1>9, <1>10, <1>11 DEF Mode

\* The least member of a set of numbers.
LEMMA LeastMember ==
  ASSUME NEW T \in SUBSET Nat, T # {}
  PROVE  \E n \in T : \A k \in T : n <= k
<1>. DEFINE R == OpToRel(<, Nat)
<1>1. \A a, b \in Nat : a < b => <<a, b>> \in R
  BY DEF OpToRel
<1>2. IsWellFoundedOn(R, Nat)
  BY NatLessThanWellFounded
<1>. HIDE DEF R
<1>3. PICK n \in T : \A k \in T : ~(<<k, n>> \in R)
  BY <1>2, WFMin
<1>4. ASSUME NEW k \in T
      PROVE  n <= k
  <2>1. n \in Nat /\ k \in Nat /\ ~(<<k, n>> \in R)
    BY <1>3
  <2>2. ~(k < n)
    BY <2>1, <1>1, Zenon
  <2>. QED
    BY <2>1, <2>2
<1>. QED
  BY <1>4

-----------------------------------------------------------------------------
(***************************************************************************)
(* What the steps do to the requests.                                      *)
(***************************************************************************)
OnlyRequest(l, x) ==
  \A k \in Lock, y \in Xct : k # l \/ y # x => req'[k][y] = req[k][y]

RequestsKept ==
  \A k \in Lock, y \in Xct :
    req'[k][y].st = req[k][y].st /\ req'[k][y].mode = req[k][y].mode

LEMMA AskedTypes ==
  ASSUME TypeOK, NEW x \in Xct, NEW l \in Lock, NEW m \in AskModes, NEW d \in Durations
  PROVE  /\ req[l][x] \in Request
         /\ m \in Mode /\ d \in BOOLEAN /\ NewMode(l, x, m) \in Mode
  BY ModeFacts, SuprIsMode, DurationAssumption DEF TypeOK, Request, NewMode

LEMMA ReacquireEffect ==
  ASSUME TypeOK, NEW x \in Xct, NEW l \in Lock, NEW m \in AskModes, NEW d \in Durations,
         Reacquire(x, l, m, d)
  PROVE  RequestsKept
<1>1. /\ Counted(req[l][x], d) \in Request
      /\ Counted(req[l][x], d).st = req[l][x].st
      /\ Counted(req[l][x], d).mode = req[l][x].mode
  BY AskedTypes, CountedType DEF Reacquire, CanAsk
<1>. QED
  BY <1>1, SetReqEffect DEF Reacquire, RequestsKept

LEMMA UpgradeEffect ==
  ASSUME TypeOK, NEW x \in Xct, NEW l \in Lock, NEW m \in AskModes, NEW d \in Durations,
         Upgrade(x, l, m, d)
  PROVE  /\ OnlyRequest(l, x)
         /\ req'[l][x].st = req[l][x].st
         /\ req'[l][x].mode = NewMode(l, x, m)
<1>. DEFINE c == [req[l][x] EXCEPT !.mode = NewMode(l, x, m)]
<1>1. c \in Request /\ c.cnt < MaxCount /\ c.st = req[l][x].st /\ c.mode = NewMode(l, x, m)
  BY AskedTypes DEF Upgrade, CanAsk, Request
<1>2. SetReq(l, x, Counted(c, d))
  BY DEF Upgrade
<1>. HIDE DEF c
<1>3. Counted(c, d) \in Request /\ Counted(c, d).st = c.st /\ Counted(c, d).mode = c.mode
  BY <1>1, AskedTypes, CountedType
<1>. QED
  BY <1>1, <1>2, <1>3, SetReqEffect DEF OnlyRequest

LEMMA GrantEffect ==
  ASSUME TypeOK, NEW x \in Xct, NEW l \in Lock, NEW m \in AskModes, NEW d \in Durations,
         Grant(x, l, m, d)
  PROVE  OnlyRequest(l, x) /\ req'[l][x].st = "granted" /\ req'[l][x].mode = m
<1>. DEFINE c == [NoReq EXCEPT !.st = "granted", !.mode = m]
<1>1. "granted" \in Status /\ m \in Mode /\ d \in BOOLEAN
  BY AskedTypes DEF Status
<1>2. c \in Request /\ c.cnt < MaxCount /\ c.st = "granted" /\ c.mode = m
  <2>1. c \in Request /\ c.cnt = 0 /\ c.st = "granted" /\ c.mode = m
    BY <1>1, NewReqType, ZenonT(60)
  <2>. QED
    BY <2>1, CountAssumption
<1>3. SetReq(l, x, Counted(c, d))
  BY DEF Grant
<1>. HIDE DEF c
<1>4. Counted(c, d) \in Request /\ Counted(c, d).st = c.st /\ Counted(c, d).mode = c.mode
  BY <1>1, <1>2, CountedType
<1>. QED
  BY <1>2, <1>3, <1>4, SetReqEffect DEF OnlyRequest

LEMMA AwaitUpgradeEffect ==
  ASSUME TypeOK, NEW x \in Xct, NEW l \in Lock, NEW m \in AskModes, NEW d \in Durations,
         NEW p \in Patience, AwaitUpgrade(x, l, m, d, p)
  PROVE  OnlyRequest(l, x) /\ req'[l][x].st = "converting" /\ req'[l][x].mode = req[l][x].mode
<1>. DEFINE c == [req[l][x] EXCEPT !.st = "converting", !.cmode = NewMode(l, x, m)]
<1>1. c \in Request /\ c.st = "converting" /\ c.mode = req[l][x].mode
  BY AskedTypes DEF Request, Status
<1>2. SetReq(l, x, c)
  BY DEF AwaitUpgrade
<1>. HIDE DEF c
<1>. QED
  BY <1>1, <1>2, SetReqEffect DEF OnlyRequest

LEMMA AwaitGrantEffect ==
  ASSUME TypeOK, NEW x \in Xct, NEW l \in Lock, NEW m \in AskModes, NEW d \in Durations,
         NEW p \in Patience, AwaitGrant(x, l, m, d, p)
  PROVE  OnlyRequest(l, x) /\ req'[l][x].st = "waiting"
<1>. DEFINE c == [NoReq EXCEPT !.st = "waiting", !.mode = m, !.long = d]
<1>1. c \in Request /\ c.st = "waiting"
  <2>1. "waiting" \in Status
    BY DEF Status
  <2>2. NoReq \in Request
    BY NoReqType
  <2>. QED
    BY <2>1, <2>2, AskedTypes DEF Request
<1>2. SetReq(l, x, c)
  BY DEF AwaitGrant
<1>. HIDE DEF c
<1>. QED
  BY <1>1, <1>2, SetReqEffect DEF OnlyRequest

LEMMA ScanGrantEffect ==
  ASSUME TypeInv, NEW x \in Xct, ScanGrant(x)
  PROVE  \E i \in 1..Len(queue[call[x].lock]) :
           LET l == call[x].lock
               y == queue[l][i]
           IN  /\ NextPending(x, i)
               /\ CanConvert(x, y) \/ CanJoin(x, y)
               /\ OnlyRequest(l, y)
               /\ req'[l][y].st = "granted"
               /\ req'[l][y].mode = WantedMode(req[l][y])
               /\ gmode' = [gmode EXCEPT ![l] = supr[WantedMode(req[l][y])][@]]
               /\ Unblock(y, "ok")
               /\ call' = [call EXCEPT ![x].pos = i + 1]
               /\ UNCHANGED <<queue, waiting, owner, pc, infoVars, fatal>>
<1>. DEFINE l == call[x].lock
<1>1. PICK i \in 1..Len(queue[l]) :
        LET y == queue[l][i]
            mode == WantedMode(req[l][y])
        IN  /\ NextPending(x, i)
            /\ CanConvert(x, y) \/ CanJoin(x, y)
            /\ SetReq(l, y, [req[l][y] EXCEPT !.st = "granted", !.mode = mode, !.cmode = "NL"])
            /\ gmode' = [gmode EXCEPT ![l] = supr[mode][@]]
            /\ Unblock(y, "ok")
            /\ call' = [call EXCEPT ![x].pos = i + 1]
            /\ UNCHANGED <<queue, waiting, owner, pc, infoVars, fatal>>
  BY DEF ScanGrant
<1>. DEFINE y == queue[l][i]
            g == [req[l][y] EXCEPT !.st = "granted", !.mode = WantedMode(req[l][y]), !.cmode = "NL"]
<1>2. l \in Lock /\ y \in Xct /\ req[l][y] \in Request
  BY AtPlace DEF TypeInv, TypeOK
<1>3. g \in Request /\ g.st = "granted" /\ g.mode = WantedMode(req[l][y])
  BY <1>2, ModeFacts DEF Request, Status, WantedMode
<1>. HIDE DEF g
<1>4. SetReq(l, y, g)
  BY <1>1 DEF g
<1>5. OnlyRequest(l, y) /\ req'[l][y] = g
  BY <1>2, <1>3, <1>4, SetReqEffect DEF OnlyRequest, TypeInv
<1>. QED
  BY <1>1, <1>3, <1>5

LEMMA DenyEffect ==
  ASSUME TypeInv, NEW x \in Xct, pc[x] \in Awaiting, NEW e, Deny(x, e)
  PROVE  LET l == call[x].lock
         IN  /\ OnlyRequest(l, x)
             /\ req[l][x].st = "waiting" => req'[l][x].st = "none"
             /\ req[l][x].st # "waiting" =>
                  req'[l][x].st = "granted" /\ req'[l][x].mode = req[l][x].mode
             /\ StartScan(x, l)
<1>. DEFINE l == call[x].lock
            r == IF req[l][x].st = "waiting" THEN NoReq
                 ELSE [req[l][x] EXCEPT !.st = "granted", !.cmode = "NL"]
<1>1. l \in Lock /\ req[l][x] \in Request
  BY DEF TypeInv, TypeOK, Call
<1>2. /\ r \in Request
      /\ req[l][x].st = "waiting" => r.st = "none"
      /\ req[l][x].st # "waiting" => r.st = "granted" /\ r.mode = req[l][x].mode
  BY <1>1, NoReqType, ModeFacts DEF Request, Status, NoReq
<1>3. StartScan(x, l) /\ SetReq(l, x, r)
  BY DEF Deny
<1>. HIDE DEF r
<1>. QED
  BY <1>1, <1>2, <1>3, SetReqEffect DEF OnlyRequest, TypeInv

LEMMA GrantedEffect ==
  ASSUME TypeInv, NEW x \in Xct, Granted(x)
  PROVE  RequestsKept
<1>. DEFINE l == call[x].lock
            g == Counted(req[l][x], call[x].long)
<1>1. /\ l \in Lock /\ req[l][x] \in Request /\ call[x].long \in BOOLEAN
      /\ req[l][x].cnt < MaxCount
  BY DEF Granted, Retakes, At, Awaiting, TypeInv, RoomToCount, TypeOK, Call
<1>2. g \in Request /\ g.st = req[l][x].st /\ g.mode = req[l][x].mode
  BY <1>1, CountedType
<1>3. SetReq(l, x, g)
  BY DEF Granted
<1>. HIDE DEF g
<1>. QED
  BY <1>1, <1>2, <1>3, SetReqEffect DEF RequestsKept, TypeInv

LEMMA UncountEffect ==
  ASSUME TypeOK, NEW x \in Xct, NEW l \in Lock, Uncount(x, l)
  PROVE  RequestsKept
<1>. DEFINE r == [req[l][x] EXCEPT !.cnt = @ - 1]
<1>1. r \in Request /\ r.st = req[l][x].st /\ r.mode = req[l][x].mode
  <2>1. req[l][x] \in Request /\ req[l][x].cnt - 1 \in 0..MaxCount
    BY CountAssumption DEF Uncount, Request, TypeOK
  <2>. QED
    BY <2>1 DEF Request
<1>2. SetReq(l, x, r)
  BY DEF Uncount
<1>. HIDE DEF r
<1>. QED
  BY <1>1, <1>2, SetReqEffect DEF RequestsKept

LEMMA ReleaseEffect ==
  ASSUME TypeOK, NEW x \in Xct, NEW l \in Lock, Release(x, l)
  PROVE  OnlyRequest(l, x) /\ req'[l][x].st = "none"
  BY NoReqType DEF Release, TypeOK, OnlyRequest, NoReq

-----------------------------------------------------------------------------
(***************************************************************************)
(* Layer 1.  Who is at work under a head mutex holds it; whose request is  *)
(* pending is in acquire_lock for that very lock; and the good news that   *)
(* reaches a thread is true.                                               *)
(***************************************************************************)
Exclusive == \A x \in Xct : pc[x] \in InHead => owner[call[x].lock] = x

PendingAwaits ==
  \A l \in Lock, x \in Xct :
    req[l][x].st \in Pending => pc[x] \in Awaiting /\ call[x].lock = l

Told ==
  \A x \in Xct :
    sig[x] = "ok" => pc[x] \in {"blocked", "woken"} /\ req[call[x].lock][x].st = "granted"

WaitInv == TypeInv /\ Exclusive /\ PendingAwaits /\ Told

LEMMA WaitInit == Init => WaitInv
  BY TypeInit DEF Init, WaitInv, Exclusive, PendingAwaits, Told, NoReq, Pending, InHead

\* A step of x, at work on the head of l if on any, keeps all this: what is to be shown
\* of the step is what it does to x itself, and that it takes no lock from others, makes
\* none of them wait, and brings them no false news.
LEMMA WaitKept ==
  ASSUME WaitInv, TypeOK', NEW x \in Xct, NEW l \in Lock,
         \A y \in Xct \ {x} : pc'[y] = pc[y] /\ call'[y].lock = call[y].lock,
         \A k \in Lock \ {l} : owner'[k] = owner[k],
         owner'[l] = owner[l] \/ owner[l] \in {NoXct, x},
         pc'[x] \in InHead => call'[x].lock = l /\ owner'[l] = x,
         \A k \in Lock, y \in Xct \ {x} :
           /\ req'[k][y].st \in Pending => req[k][y].st \in Pending
           /\ req[k][y].st = "granted" => req'[k][y].st = "granted",
         \A k \in Lock : req'[k][x].st \in Pending => pc'[x] \in Awaiting /\ call'[x].lock = k,
         \A y \in Xct \ {x} :
           sig'[y] = "ok" =>
             \/ sig[y] = "ok"
             \/ pc[y] \in {"blocked", "woken"} /\ req'[call[y].lock][y].st = "granted",
         sig'[x] = "ok" =>
           pc'[x] \in {"blocked", "woken"} /\ req'[call'[x].lock][x].st = "granted"
  PROVE  Exclusive' /\ PendingAwaits' /\ Told'
<1>. USE DEF WaitInv
<1>0. \A y \in Xct : y # NoXct /\ call[y].lock \in Lock
  BY XctAssumption DEF TypeInv, TypeOK, Call
<1>1. Exclusive'
  <2>. SUFFICES ASSUME NEW y \in Xct, pc'[y] \in InHead
                PROVE  owner'[call'[y].lock] = y
    BY DEF Exclusive
  <2>1. CASE y = x
    BY <2>1
  <2>2. CASE y # x
    BY <2>2, <1>0 DEF Exclusive
  <2>. QED
    BY <2>1, <2>2
<1>2. PendingAwaits'
  <2>. SUFFICES ASSUME NEW k \in Lock, NEW y \in Xct, req'[k][y].st \in Pending
                PROVE  pc'[y] \in Awaiting /\ call'[y].lock = k
    BY DEF PendingAwaits
  <2>1. CASE y = x
    BY <2>1
  <2>2. CASE y # x
    BY <2>2 DEF PendingAwaits
  <2>. QED
    BY <2>1, <2>2
<1>3. Told'
  <2>. SUFFICES ASSUME NEW y \in Xct, sig'[y] = "ok"
                PROVE  pc'[y] \in {"blocked", "woken"} /\ req'[call'[y].lock][y].st = "granted"
    BY DEF Told
  <2>1. CASE y = x
    BY <2>1
  <2>2. CASE y # x
    BY <2>2, <1>0 DEF Told
  <2>. QED
    BY <2>1, <2>2
<1>. QED
  BY <1>1, <1>2, <1>3

LEMMA KeptWaits ==
  ASSUME WaitInv, TypeInv', RequestsKept, UNCHANGED <<owner, pc, call, sig>>
  PROVE  WaitInv'
<1>1. \A k \in Lock, y \in Xct : req'[k][y].st = req[k][y].st
  BY DEF RequestsKept
<1>2. \A y \in Xct : call[y].lock \in Lock
  BY DEF WaitInv, TypeInv, TypeOK, Call
<1>3. Exclusive'
  BY DEF WaitInv, Exclusive
<1>4. PendingAwaits'
  BY <1>1 DEF WaitInv, PendingAwaits
<1>5. Told'
  BY <1>1, <1>2 DEF WaitInv, Told
<1>. QED
  BY <1>3, <1>4, <1>5 DEF WaitInv

LEMMA AskWaits ==
  ASSUME WaitInv, TypeOK', NEW x \in Xct, Ask(x)
  PROVE  WaitInv'
<1>. USE DEF WaitInv
<1>0. PICK l \in Lock, m \in AskModes, d \in Durations :
        \/ Reacquire(x, l, m, d)
        \/ Upgrade(x, l, m, d)
        \/ Grant(x, l, m, d)
        \/ \E p \in Patience : AwaitUpgrade(x, l, m, d, p) \/ AwaitGrant(x, l, m, d, p)
  BY DEF Ask
<1>1. TypeOK /\ TypeInv'
  BY AskTypes DEF TypeInv
<1>2. pc[x] = "idle" /\ owner[l] = NoXct
  BY <1>0 DEF Reacquire, Upgrade, Grant, AwaitUpgrade, AwaitGrant, CanAsk, At
<1>3. sig[x] # "ok" /\ \A k \in Lock : req[k][x].st \notin Pending
  BY <1>2 DEF PendingAwaits, Awaiting, Told
<1>4. CASE Reacquire(x, l, m, d)
  <2>1. RequestsKept
    BY <1>1, <1>4, ReacquireEffect
  <2>2. UNCHANGED <<owner, pc, call, sig>>
    BY <1>4 DEF Reacquire
  <2>. QED
    BY <1>1, <2>1, <2>2, KeptWaits
<1>5. ASSUME OnlyRequest(l, x), req'[l][x].st \notin Pending, UNCHANGED <<owner, pc, call, sig>>
      PROVE  WaitInv'
  <2>1. \A k \in Lock : req'[k][x].st \notin Pending
    BY <1>3, <1>5 DEF OnlyRequest
  <2>2. \A k \in Lock, y \in Xct \ {x} : req'[k][y] = req[k][y]
    BY <1>5 DEF OnlyRequest
  <2>3. pc'[x] \notin InHead /\ sig'[x] # "ok" /\ owner' = owner /\ pc' = pc /\ call' = call /\ sig' = sig
    BY <1>2, <1>3, <1>5 DEF InHead
  <2>. QED
    BY <1>1, <1>2, <2>1, <2>2, <2>3, WaitKept
<1>6. CASE Upgrade(x, l, m, d)
  BY <1>1, <1>3, <1>5, <1>6, UpgradeEffect DEF Upgrade
<1>7. CASE Grant(x, l, m, d)
  BY <1>1, <1>5, <1>7, GrantEffect DEF Grant, Pending
<1>8. ASSUME OnlyRequest(l, x), NEW p \in Patience, StartWait(x, l, d, p)
      PROVE  WaitInv'
  <2>1. /\ pc'[x] = "dld" /\ call'[x].lock = l /\ owner'[l] = x
        /\ \A y \in Xct \ {x} : pc'[y] = pc[y] /\ call'[y].lock = call[y].lock
        /\ \A k \in Lock \ {l} : owner'[k] = owner[k]
        /\ sig' = sig
    BY <1>1, <1>8 DEF StartWait, Go, TypeOK
  <2>2. \A k \in Lock : req'[k][x].st \in Pending => k = l
    BY <1>3, <1>8 DEF OnlyRequest
  <2>3. \A k \in Lock, y \in Xct \ {x} : req'[k][y] = req[k][y]
    BY <1>8 DEF OnlyRequest
  <2>4. \A k \in Lock : req'[k][x].st \in Pending => pc'[x] \in Awaiting /\ call'[x].lock = k
    BY <2>1, <2>2 DEF Awaiting
  <2>. QED
    BY <1>1, <1>2, <1>3, <2>1, <2>3, <2>4, WaitKept
<1>9. CASE \E p \in Patience : AwaitUpgrade(x, l, m, d, p) \/ AwaitGrant(x, l, m, d, p)
  <2>1. PICK p \in Patience : AwaitUpgrade(x, l, m, d, p) \/ AwaitGrant(x, l, m, d, p)
    BY <1>9
  <2>2. OnlyRequest(l, x)
    BY <1>1, <2>1, AwaitUpgradeEffect, AwaitGrantEffect
  <2>. QED
    BY <1>8, <2>1, <2>2 DEF AwaitUpgrade, AwaitGrant
<1>. QED
  BY <1>0, <1>4, <1>6, <1>7, <1>9

\* What starting a walk does to the threads.
LEMMA StartScanEffect ==
  ASSUME TypeOK, NEW x \in Xct, NEW l \in Lock, StartScan(x, l)
  PROVE  /\ \A y \in Xct \ {x} :
              pc'[y] = pc[y] /\ call'[y].lock = call[y].lock /\ sig'[y] = sig[y]
         /\ \A k \in Lock \ {l} : owner'[k] = owner[k] /\ waiting'[k] = waiting[k]
         /\ sig'[x] = "ok" => sig[x] = "ok"
         /\ ~waiting'[l]
         /\ \/ waiting[l] /\ pc'[x] = "scan" /\ owner'[l] = x
               /\ call'[x].lock = l /\ call'[x].pos = 1
            \/ ~waiting[l] /\ pc'[x] = "idle" /\ owner'[l] = NoXct
<1>. DEFINE c == [NoCall EXCEPT !.lock = l]
<1>1. c.lock = l /\ c.pos = 1
  BY DEF NoCall
<1>. HIDE DEF c
<1>2. CASE /\ UNCHANGED sig /\ Go(x, "scan") /\ owner' = [owner EXCEPT ![l] = x]
           /\ waiting[l] /\ waiting' = [waiting EXCEPT ![l] = FALSE]
           /\ call' = [call EXCEPT ![x] = c]
  BY <1>1, <1>2 DEF TypeOK, Go
<1>3. CASE /\ Return(x) /\ owner' = [owner EXCEPT ![l] = NoXct]
           /\ ~waiting[l] /\ UNCHANGED waiting
  BY <1>3 DEF TypeOK, Return, Go
<1>. QED
  BY <1>2, <1>3 DEF StartScan, c

LEMMA ScanWaits ==
  ASSUME WaitInv, TypeOK', NEW x \in Xct, Scan(x)
  PROVE  WaitInv'
<1>. USE DEF WaitInv
<1>. DEFINE l == call[x].lock
<1>1. TypeOK /\ TypeInv'
  BY ScanTypes DEF TypeInv
<1>2. l \in Lock /\ pc[x] = "scan" /\ owner[l] = x
  BY <1>1 DEF Scan, ScanGrant, ScanPass, ScanEnd, NextPending, At, TypeOK, Call, Exclusive, InHead
<1>3. sig[x] # "ok" /\ \A k \in Lock : req[k][x].st \notin Pending
  BY <1>2 DEF PendingAwaits, Awaiting, Told
<1>4. CASE ScanGrant(x)
  <2>1. PICK i \in 1..Len(queue[l]) :
          LET y == queue[l][i]
          IN  /\ NextPending(x, i)
              /\ OnlyRequest(l, y)
              /\ req'[l][y].st = "granted"
              /\ Unblock(y, "ok")
              /\ call' = [call EXCEPT ![x].pos = i + 1]
              /\ UNCHANGED <<queue, waiting, owner, pc, infoVars, fatal>>
    BY <1>4, ScanGrantEffect
  <2>. DEFINE y == queue[l][i]
  <2>2. y \in Xct /\ call[y].lock = l
    <3>1. y \in Xct
      BY AtPlace
    <3>2. req[l][y].st \in Pending
      BY <2>1 DEF NextPending
    <3>. QED
      BY <3>1, <3>2, <1>2 DEF PendingAwaits
  <2>3. i + 1 \in Nat /\ call' = [call EXCEPT ![x].pos = i + 1]
    BY <2>1
  <2>4. \A z \in Xct : call'[z].lock = call[z].lock
    BY <1>1, <2>3, PlaceTypes
  <2>5. \A z \in Xct \ {y} : sig'[z] = sig[z]
    BY <1>1, <2>1, <2>2 DEF Unblock, TypeOK
  <2>. HIDE DEF y
  <2>6. \A k \in Lock, z \in Xct :
          /\ req'[k][z].st \in Pending => req[k][z].st \in Pending
          /\ req[k][z].st = "granted" => req'[k][z].st = "granted"
    BY <2>1 DEF OnlyRequest, y, Pending
  <2>7. \A z \in Xct : sig'[z] = "ok" =>
          \/ sig[z] = "ok"
          \/ pc[z] \in {"blocked", "woken"} /\ req'[call[z].lock][z].st = "granted"
    <3>1. sig'[y] = "ok" => sig[y] = "ok" \/ pc[y] = "blocked"
      BY <1>1, <2>1, <2>2 DEF Unblock, Unblockable, TypeOK, y
    <3>. QED
      BY <2>1, <2>2, <2>5, <3>1 DEF y
  <2>8. UNCHANGED <<pc, owner>>
    BY <2>1
  <2>. QED
    BY <1>1, <1>2, <1>3, <2>4, <2>6, <2>7, <2>8, WaitKept
<1>5. CASE ScanPass(x)
  <2>1. PICK i \in 1..Len(queue[l]) :
          /\ call' = [call EXCEPT ![x].pos = i + 1]
          /\ UNCHANGED <<headVars, owner, pc, infoVars, sig, fatal>>
    BY <1>5 DEF ScanPass
  <2>2. i + 1 \in Nat
    OBVIOUS
  <2>3. \A z \in Xct : call'[z].lock = call[z].lock
    BY <1>1, <2>1, <2>2, PlaceTypes
  <2>. QED
    BY <1>1, <2>1, <2>3 DEF headVars, Exclusive, PendingAwaits, Told
<1>6. CASE ScanEnd(x)
  <2>1. /\ UNCHANGED <<queue, req>>
        /\ pc'[x] = "idle"
        /\ sig'[x] = "none"
        /\ \A y \in Xct \ {x} : pc'[y] = pc[y] /\ call'[y] = call[y] /\ sig'[y] = sig[y]
        /\ \A k \in Lock \ {l} : owner'[k] = owner[k]
    BY <1>1, <1>6 DEF ScanEnd, Return, Go, TypeOK
  <2>. QED
    BY <1>1, <1>2, <1>3, <2>1, WaitKept DEF InHead
<1>. QED
  BY <1>4, <1>5, <1>6 DEF Scan

LEMMA DenyWaits ==
  ASSUME WaitInv, TypeInv', NEW x \in Xct, pc[x] \in Awaiting, NEW e, Deny(x, e),
         owner[call[x].lock] \in {NoXct, x}, sig[x] # "ok"
  PROVE  WaitInv'
<1>. USE DEF WaitInv
<1>. DEFINE l == call[x].lock
<1>1. TypeOK /\ TypeOK' /\ l \in Lock
  BY DEF TypeInv, TypeOK, Call
<1>2. /\ OnlyRequest(l, x)
      /\ req'[l][x].st \in {"none", "granted"}
      /\ StartScan(x, l)
  BY DenyEffect
<1>3. \A k \in Lock : req'[k][x].st \notin Pending
  BY <1>1, <1>2 DEF PendingAwaits, OnlyRequest, Pending
<1>. HIDE DEF l
<1>4. owner[l] \in {NoXct, x}
  BY DEF l
<1>. QED
  BY <1>1, <1>2, <1>3, <1>4, StartScanEffect, WaitKept DEF OnlyRequest, InHead

LEMMA DetectWaits ==
  ASSUME WaitInv, TypeInv', NEW x \in Xct, Detect(x)
  PROVE  WaitInv'
<1>. USE DEF WaitInv
<1>. DEFINE l == call[x].lock
<1>1. TypeOK /\ TypeOK' /\ l \in Lock
  BY DEF TypeInv, TypeOK, Call
<1>2. pc[x] \in {"dld", "kill"} /\ owner[l] = x
  BY <1>1 DEF Detect, DldMerge, DldSelf, DldOther, DldKill, DldDone, NextAwaited, At,
              Exclusive, InHead
<1>3. CASE DldSelf(x)
  BY <1>2, <1>3, DenyWaits DEF DldSelf, Awaiting, Told
<1>4. CASE DldMerge(x) \/ DldOther(x) \/ DldKill(x) \/ DldDone(x)
  <2>1. req' = req
    BY <1>4 DEF DldMerge, DldOther, DldKill, DldDone, headVars
  <2>2. \A y \in Xct : call'[y].lock = call[y].lock
    <3>1. CASE DldMerge(x) \/ DldOther(x) \/ DldKill(x)
      <4>1. ASSUME DldMerge(x) PROVE \E n : call' = [call EXCEPT ![x].pos = n]
        BY <4>1, Zenon DEF DldMerge
      <4>2. ASSUME DldOther(x) PROVE \E n : call' = [call EXCEPT ![x].pos = n]
        BY <4>2, Zenon DEF DldOther, SkipQueue
      <4>3. ASSUME DldKill(x) PROVE \E n : call' = [call EXCEPT ![x].pos = n]
        BY <4>3, Zenon DEF DldKill, SkipQueue
      <4>4. \E n : call' = [call EXCEPT ![x].pos = n]
        BY <3>1, <4>1, <4>2, <4>3
      <4>. QED
        BY <1>1, <4>4 DEF TypeOK, Call
    <3>2. CASE DldDone(x)
      <4>1. \E n : call' = [call EXCEPT ![x].left = n]
        BY <3>2 DEF DldDone
      <4>. QED
        BY <1>1, <4>1 DEF TypeOK, Call
    <3>. QED
      BY <1>4, <3>1, <3>2
  <2>3. \A y \in Xct \ {x} : pc'[y] = pc[y]
    BY <1>1, <1>4 DEF DldMerge, DldOther, DldKill, DldDone, Go, TypeOK
  <2>4. \/ pc'[x] \in {"dld", "kill"} /\ owner' = owner
        \/ pc'[x] = "prep" /\ \A k \in Lock \ {l} : owner'[k] = owner[k]
    BY <1>1, <1>2, <1>4 DEF DldMerge, DldOther, DldKill, DldDone, Go, TypeOK
  <2>5. \A y \in Xct : sig'[y] = "ok" => sig[y] = "ok"
    BY <1>1, <1>4 DEF DldMerge, DldOther, DldKill, DldDone, Unblock, TypeOK
  <2>6. \A k \in Lock : req'[k][x].st \in Pending => pc'[x] \in Awaiting /\ call'[x].lock = k
    BY <1>2, <2>1, <2>2, <2>4 DEF PendingAwaits, Awaiting
  <2>. HIDE DEF l
  <2>7. call'[x].lock = l /\ owner[l] = x
    BY <1>2, <2>2 DEF l
  <2>. QED
    <3>1. \A k \in Lock \ {l} : owner'[k] = owner[k]
      BY <2>4
    <3>2. owner[l] \in {NoXct, x} /\ sig[x] # "ok"
      BY <1>2, <2>7 DEF Told
    <3>3. pc'[x] \in InHead => call'[x].lock = l /\ owner'[l] = x
      BY <1>2, <2>4, <2>7 DEF InHead
    <3>. QED
      BY <1>1, <2>1, <2>2, <2>3, <2>5, <2>6, <3>1, <3>2, <3>3, WaitKept
<1>. QED
  BY <1>3, <1>4 DEF Detect

LEMMA SleepWaits ==
  ASSUME WaitInv, TypeInv', NEW x \in Xct, Sleep(x), ~Spurious
  PROVE  WaitInv'
<1>. USE DEF WaitInv
<1>1. TypeOK /\ call[x].lock \in Lock
  BY DEF TypeInv, TypeOK, Call
<1>2. UNCHANGED <<headVars, owner, call>>
  BY DEF Sleep, Nap, EndNap
<1>3. pc[x] \in {"prep", "blocked"} /\ pc'[x] \in {"blocked", "woken"}
  BY <1>1 DEF Sleep, Nap, EndNap, At, Go, TypeOK
<1>4. \A y \in Xct \ {x} : pc'[y] = pc[y] /\ sig'[y] = sig[y]
  BY <1>1 DEF Sleep, Nap, EndNap, Go, TypeOK
<1>5. sig'[x] = "ok" => sig[x] = "ok"
  BY <1>1 DEF Sleep, Nap, EndNap, NapEnds, TypeOK
<1>6. req' = req /\ call' = call /\ owner' = owner
  BY <1>2 DEF headVars
<1>7. Exclusive'
  BY <1>3, <1>4, <1>6 DEF Exclusive, InHead
<1>8. PendingAwaits'
  BY <1>3, <1>4, <1>6 DEF PendingAwaits, Awaiting
<1>9. Told'
  BY <1>3, <1>4, <1>5, <1>6 DEF Told
<1>. QED
  BY <1>7, <1>8, <1>9

LEMMA WakeWaits ==
  ASSUME WaitInv, TypeInv', NEW x \in Xct, Wake(x)
  PROVE  WaitInv'
<1>. USE DEF WaitInv
<1>. DEFINE l == call[x].lock
<1>1. TypeOK /\ TypeOK' /\ l \in Lock
  BY DEF TypeInv, TypeOK, Call
<1>2. pc[x] = "woken" /\ owner[l] = NoXct
  BY DEF Wake, TryAgain, GiveUp, Granted, Retakes, At
<1>3. CASE TryAgain(x)
  <2>1. /\ req' = req
        /\ pc'[x] = "dld" /\ owner'[l] = x /\ call'[x].lock = l /\ sig'[x] = "none"
        /\ \A y \in Xct \ {x} : pc'[y] = pc[y] /\ call'[y] = call[y] /\ sig'[y] = sig[y]
        /\ \A k \in Lock \ {l} : owner'[k] = owner[k]
    BY <1>1, <1>3 DEF TryAgain, headVars, Go, TypeOK, Call
  <2>2. \A k \in Lock : req'[k][x].st \in Pending => pc'[x] \in Awaiting /\ call'[x].lock = k
    BY <2>1 DEF PendingAwaits, Awaiting
  <2>. QED
    BY <1>1, <1>2, <2>1, <2>2, WaitKept
<1>4. CASE GiveUp(x)
  <2>1. Deny(x, sig[x]) /\ sig[x] # "ok"
    BY <1>4 DEF GiveUp
  <2>. QED
    BY <1>2, <2>1, DenyWaits DEF Awaiting
<1>5. CASE Granted(x)
  <2>1. RequestsKept
    BY <1>5, GrantedEffect
  <2>2. /\ owner' = owner /\ pc'[x] = "idle" /\ sig'[x] = "none"
        /\ \A y \in Xct \ {x} : pc'[y] = pc[y] /\ call'[y] = call[y] /\ sig'[y] = sig[y]
    BY <1>1, <1>5 DEF Granted, Return, Go, TypeOK
  <2>3. req[l][x].st = "granted"
    BY <1>5 DEF Granted, MyStatus, Told
  <2>4. \A k \in Lock : req[k][x].st \notin Pending
    BY <2>3 DEF PendingAwaits, Pending
  <2>5. \A k \in Lock, y \in Xct : req'[k][y].st = req[k][y].st
    BY <2>1 DEF RequestsKept
  <2>. QED
    BY <1>1, <1>2, <2>2, <2>4, <2>5, WaitKept DEF InHead
<1>. QED
  BY <1>3, <1>4, <1>5 DEF Wake

LEMMA FreeWaits ==
  ASSUME WaitInv, TypeInv', NEW x \in Xct, Free(x)
  PROVE  WaitInv'
<1>. USE DEF WaitInv
<1>1. PICK l \in Lock : Uncount(x, l) \/ Release(x, l)
  BY DEF Free
<1>2. TypeOK /\ TypeOK' /\ pc[x] = "idle" /\ owner[l] = NoXct
  BY <1>1 DEF TypeInv, Uncount, Release, CanRelease, At
<1>3. sig[x] # "ok" /\ \A k \in Lock : req[k][x].st \notin Pending
  BY <1>2 DEF PendingAwaits, Awaiting, Told
<1>4. CASE Uncount(x, l)
  <2>1. RequestsKept
    BY <1>2, <1>4, UncountEffect
  <2>2. UNCHANGED <<owner, pc, call, sig>>
    BY <1>4 DEF Uncount
  <2>. QED
    BY <2>1, <2>2, KeptWaits
<1>5. CASE Release(x, l)
  <2>1. OnlyRequest(l, x) /\ req'[l][x].st = "none" /\ StartScan(x, l)
    BY <1>2, <1>5, ReleaseEffect DEF Release
  <2>2. \A k \in Lock : req'[k][x].st \notin Pending
    BY <1>3, <2>1 DEF OnlyRequest, Pending
  <2>. QED
    BY <1>2, <1>3, <2>1, <2>2, StartScanEffect, WaitKept DEF OnlyRequest, InHead
<1>. QED
  BY <1>1, <1>4, <1>5

LEMMA EndWaits ==
  ASSUME WaitInv, TypeInv', NEW x \in Xct, End(x) \/ Poison(x)
  PROVE  WaitInv'
<1>1. UNCHANGED <<headVars, owner, pc, call>>
  BY DEF End, Poison
<1>2. \A y \in Xct : sig'[y] = "ok" => sig[y] = "ok"
  BY ZenonT(60) DEF End, Poison, Unblock, WaitInv, TypeInv, TypeOK
<1>. QED
  BY <1>1, <1>2 DEF WaitInv, headVars, Exclusive, PendingAwaits, Told

LEMMA WaitStep == ~Spurious /\ WaitInv /\ [Next]_vars => WaitInv'
<1>. SUFFICES ASSUME ~Spurious, WaitInv, [Next]_vars PROVE WaitInv'
  OBVIOUS
<1>1. TypeInv' /\ TypeOK'
  BY TypeStep DEF WaitInv, TypeInv
<1>2. CASE UNCHANGED vars
  BY <1>1, <1>2 DEF vars, headVars, infoVars, WaitInv, Exclusive, PendingAwaits, Told
<1>3. CASE \E x \in Xct : Ask(x) \/ Detect(x) \/ Sleep(x) \/ Wake(x) \/ Free(x) \/ Scan(x) \/ End(x)
  BY <1>1, <1>3, AskWaits, DetectWaits, SleepWaits, WakeWaits, FreeWaits, ScanWaits, EndWaits
<1>4. CASE \E x \in Poisonable : Poison(x)
  BY <1>1, <1>4, EndWaits, PoisonAssumption
<1>. QED
  BY <1>2, <1>3, <1>4 DEF Next, Finished, Crashed

\* A thread that wakes up with the news that it has the lock has it, whatever raced with
\* its nap: timeouts, victims' unblocks, releases.
THEOREM AwakeGranted ==
  ASSUME ~Spurious
  PROVE  Spec => []AwakeMeansGranted
<1>1. WaitInv => AwakeMeansGranted
  BY DEF WaitInv, Told, AwakeMeansGranted
<1>2. WaitInv /\ [Next]_vars => WaitInv'
  BY WaitStep
<1>. QED
  BY <1>1, <1>2, WaitInit, PTL DEF Spec

-----------------------------------------------------------------------------
(***************************************************************************)
(* Layer 2.  While the detector works, the flag is up and its own request  *)
(* is pending; while a walk over the queue works, the flag is down and     *)
(* what it has passed is granted or an upgrade.  So the flag is true again *)
(* when the mutex is free, and holders stay ahead of waiters.              *)
(***************************************************************************)
Detecting ==
  \A x \in Xct :
    pc[x] \in {"dld", "kill"} =>
      waiting[call[x].lock] /\ req[call[x].lock][x].st \in Pending

Passed(l, n) == \A j \in 1..Len(queue[l]) : j < n => req[l][queue[l][j]].st # "waiting"

Scanning ==
  \A x \in Xct :
    pc[x] = "scan" => ~waiting[call[x].lock] /\ Passed(call[x].lock, call[x].pos)

FlagTrue(l) ==
  owner[l] = NoXct => (waiting[l] <=> \E x \in Xct : req[l][x].st \in Pending)

HoldersAhead(l) ==
  \A i, j \in 1..Len(queue[l]) : i < j /\ Holds(l, queue[l][j]) => Holds(l, queue[l][i])

OrderInv == Detecting /\ Scanning /\ FlagTellsWaiters /\ HoldersFirst

LEMMA OrderInit == Init => OrderInv
  BY DEF Init, OrderInv, Detecting, Scanning, FlagTellsWaiters, HoldersFirst, NoReq, Pending,
         Holds, Held

\* A step of x on the head of l keeps this, if it does so for l and x.
LEMMA OrderKept ==
  ASSUME WaitInv, OrderInv, TypeOK', NEW x \in Xct, NEW l \in Lock,
         owner[l] \in {NoXct, x},
         \A y \in Xct \ {x} : pc'[y] = pc[y] /\ call'[y] = call[y],
         \A k \in Lock \ {l} :
           /\ owner'[k] = owner[k] /\ queue'[k] = queue[k] /\ waiting'[k] = waiting[k]
           /\ \A y \in Xct : req'[k][y].st = req[k][y].st,
         pc'[x] \in InHead => call'[x].lock = l,
         pc'[x] \in {"dld", "kill"} => waiting'[l] /\ req'[l][x].st \in Pending,
         pc'[x] = "scan" => ~waiting'[l] /\ Passed(l, call[x].pos)',
         FlagTrue(l)',
         HoldersAhead(l)'
  PROVE  OrderInv'
<1>. USE DEF WaitInv, OrderInv
<1>0. /\ \A y \in Xct : y # NoXct /\ call[y].lock \in Lock
      /\ \A k \in Lock : \A i \in 1..Len(queue[k]) : queue[k][i] \in Xct
  BY XctAssumption, SMTT(60) DEF TypeInv, TypeOK, Call
<1>1. \A y \in Xct \ {x} : pc[y] \in InHead => call[y].lock # l
  BY <1>0 DEF Exclusive
<1>2. Detecting'
  <2>. SUFFICES ASSUME NEW y \in Xct, pc'[y] \in {"dld", "kill"}
                PROVE  waiting'[call'[y].lock] /\ req'[call'[y].lock][y].st \in Pending
    BY DEF Detecting
  <2>1. CASE y = x
    BY <2>1 DEF InHead
  <2>2. CASE y # x
    BY <2>2, <1>0, <1>1 DEF Detecting, InHead
  <2>. QED
    BY <2>1, <2>2
<1>3. Scanning'
  <2>. SUFFICES ASSUME NEW y \in Xct, pc'[y] = "scan"
                PROVE  ~waiting'[call'[y].lock] /\ Passed(call[y].lock, call[y].pos)'
    BY DEF Scanning
  <2>1. CASE y = x
    BY <2>1 DEF InHead, Passed
  <2>2. CASE y # x
    <3>1. call'[y] = call[y] /\ pc[y] = "scan" /\ call[y].lock \in Lock \ {l}
      BY <2>2, <1>0, <1>1 DEF InHead
    <3>. QED
      BY <3>1, <1>0, SMTT(60) DEF Scanning, Passed
  <2>. QED
    BY <2>1, <2>2
<1>4. FlagTellsWaiters'
  BY DEF FlagTellsWaiters, FlagTrue
<1>5. HoldersFirst'
  <2>. SUFFICES ASSUME NEW k \in Lock
                PROVE  HoldersAhead(k)'
    BY DEF HoldersFirst, HoldersAhead
  <2>1. CASE k # l
    BY <2>1, <1>0, SMTT(60) DEF HoldersFirst, HoldersAhead, Holds
  <2>. QED
    BY <2>1
<1>. QED
  BY <1>2, <1>3, <1>4, <1>5

\* So does a step that leaves the heads alone and takes no mutex.
LEMMA OrderUntouched ==
  ASSUME WaitInv, OrderInv, NEW x \in Xct,
         \A k \in Lock, y \in Xct : req'[k][y].st = req[k][y].st,
         queue' = queue, waiting' = waiting, owner' = owner,
         \A y \in Xct : pc'[y] \in InHead => pc'[y] = pc[y] /\ call'[y] = call[y]
  PROVE  OrderInv'
<1>. USE DEF WaitInv, OrderInv
<1>0. /\ \A y \in Xct : call[y].lock \in Lock
      /\ \A k \in Lock : \A i \in 1..Len(queue[k]) : queue[k][i] \in Xct
  BY DEF TypeInv, TypeOK, Call
<1>1. Detecting'
  BY <1>0 DEF Detecting, InHead
<1>2. Scanning'
  <2>. SUFFICES ASSUME NEW y \in Xct, pc'[y] = "scan"
                PROVE  ~waiting'[call'[y].lock] /\ Passed(call[y].lock, call[y].pos)'
    BY DEF Scanning
  <2>1. call'[y] = call[y] /\ pc[y] = "scan"
    BY DEF InHead
  <2>. QED
    BY <2>1, <1>0 DEF Scanning, Passed
<1>3. FlagTellsWaiters'
  BY DEF FlagTellsWaiters
<1>4. HoldersFirst'
  BY <1>0 DEF HoldersFirst, Holds
<1>. QED
  BY <1>1, <1>2, <1>3, <1>4

\* Nobody waits at a free head whose flag is down.
LEMMA NobodyWaits ==
  ASSUME WaitInv, OrderInv, NEW l \in Lock, owner[l] = NoXct, ~waiting[l]
  PROVE  \A i \in 1..Len(queue[l]) : req[l][queue[l][i]].st = "granted"
<1>1. \A y \in Xct : req[l][y].st \in {"none", "granted"}
  BY DEF WaitInv, TypeInv, TypeOK, Request, Status, OrderInv, FlagTellsWaiters, Pending
<1>2. \A i \in 1..Len(queue[l]) : queue[l][i] \in Xct /\ In(queue[l][i], queue[l])
  BY DEF WaitInv, TypeInv, TypeOK, In
<1>. QED
  BY <1>1, <1>2 DEF WaitInv, TypeInv, Queued

LEMMA AskOrder ==
  ASSUME WaitInv, OrderInv, TypeOK', NEW x \in Xct, Ask(x)
  PROVE  OrderInv'
<1>. USE DEF WaitInv, OrderInv
<1>0. PICK l \in Lock, m \in AskModes, d \in Durations :
        \/ Reacquire(x, l, m, d)
        \/ Upgrade(x, l, m, d)
        \/ Grant(x, l, m, d)
        \/ \E p \in Patience : AwaitUpgrade(x, l, m, d, p) \/ AwaitGrant(x, l, m, d, p)
  BY DEF Ask
<1>1. /\ TypeOK /\ queue[l] \in Seq(Xct)
      /\ \A i \in 1..Len(queue[l]) : queue[l][i] \in Xct
  BY DEF TypeInv, TypeOK
<1>2. pc[x] = "idle" /\ owner[l] = NoXct
  BY <1>0 DEF Reacquire, Upgrade, Grant, AwaitUpgrade, AwaitGrant, CanAsk, At
<1>3. req[l][x].st \notin Pending
  BY <1>2 DEF PendingAwaits, Awaiting
<1>4. ASSUME \A k \in Lock, y \in Xct : req'[k][y].st = req[k][y].st,
             UNCHANGED <<queue, waiting, owner, pc, call>>
      PROVE  OrderInv'
  BY <1>4, OrderUntouched
<1>5. CASE Reacquire(x, l, m, d)
  BY <1>1, <1>4, <1>5, ReacquireEffect DEF Reacquire, RequestsKept
<1>6. CASE Upgrade(x, l, m, d)
  BY <1>1, <1>4, <1>6, UpgradeEffect, ZenonT(60) DEF Upgrade, OnlyRequest
<1>7. ASSUME OnlyRequest(l, x), queue' = [queue EXCEPT ![l] = Append(@, x)],
             req'[l][x].st \in {"granted", "waiting"},
             req'[l][x].st = "granted" => ~waiting[l],
             req[l][x].st = "none"
      PROVE  /\ HoldersAhead(l)'
             /\ \A k \in Lock \ {l} : queue'[k] = queue[k]
  <2>1. /\ queue'[l] = Append(queue[l], x)
        /\ \A k \in Lock \ {l} : queue'[k] = queue[k]
    BY <1>1, <1>7 DEF TypeOK
  <2>2. /\ Len(queue'[l]) = Len(queue[l]) + 1
        /\ queue'[l][Len(queue[l]) + 1] = x
        /\ \A i \in 1..Len(queue[l]) : queue'[l][i] = queue[l][i]
    BY <1>1, <2>1
  <2>3. \A i \in 1..Len(queue[l]) : queue[l][i] # x
    BY <1>7 DEF TypeInv, Queued, In
  <2>4. \A i \in 1..Len(queue[l]) : req'[l][queue[l][i]] = req[l][queue[l][i]]
    BY <1>1, <1>7, <2>3 DEF OnlyRequest
  <2>5. req'[l][x].st = "granted" =>
          \A i \in 1..Len(queue[l]) : req[l][queue[l][i]].st = "granted"
    BY <1>2, <1>7, NobodyWaits
  <2>6. HoldersAhead(l)'
    <3>. SUFFICES ASSUME NEW i \in 1..Len(queue'[l]), NEW j \in 1..Len(queue'[l]),
                         i < j, Holds(l, queue[l][j])'
                  PROVE  Holds(l, queue[l][i])'
      BY DEF HoldersAhead
    <3>1. Len(queue[l]) \in Nat
      BY <1>1
    <3>2. CASE j = Len(queue[l]) + 1
      <4>1. i \in 1..Len(queue[l]) /\ req'[l][x].st = "granted"
        BY <3>1, <3>2, <2>2, <1>7 DEF Holds, Held
      <4>. QED
        BY <4>1, <2>2, <2>4, <2>5, SMTT(60) DEF Holds, Held
    <3>3. CASE j # Len(queue[l]) + 1
      <4>1. i \in 1..Len(queue[l]) /\ j \in 1..Len(queue[l])
        BY <3>1, <3>3, <2>2
      <4>. QED
        BY <4>1, <2>2, <2>4 DEF Holds, HoldersFirst
    <3>. QED
      BY <3>2, <3>3
  <2>. QED
    BY <2>1, <2>6
<1>8. CASE Grant(x, l, m, d)
  <2>1. OnlyRequest(l, x) /\ req'[l][x].st = "granted"
    BY <1>1, <1>8, GrantEffect
  <2>2. /\ ~waiting[l] /\ req[l][x].st = "none"
        /\ queue' = [queue EXCEPT ![l] = Append(@, x)]
        /\ UNCHANGED <<waiting, owner, pc, call>>
    BY <1>8 DEF Grant, Joins
  <2>3. HoldersAhead(l)' /\ \A k \in Lock \ {l} : queue'[k] = queue[k]
    BY <1>7, <2>1, <2>2
  <2>4. FlagTrue(l)'
    BY <1>2, <2>1, <2>2 DEF FlagTrue, FlagTellsWaiters, OnlyRequest, Pending
  <2>. QED
    BY <1>2, <2>1, <2>2, <2>3, <2>4, OrderKept DEF OnlyRequest, InHead
<1>9. ASSUME OnlyRequest(l, x), req'[l][x].st \in Pending, HoldersAhead(l)',
             \A k \in Lock \ {l} : queue'[k] = queue[k],
             NEW p \in Patience, StartWait(x, l, d, p)
      PROVE  OrderInv'
  <2>1. /\ pc'[x] = "dld" /\ call'[x].lock = l /\ owner'[l] = x /\ waiting'[l]
        /\ \A y \in Xct \ {x} : pc'[y] = pc[y] /\ call'[y] = call[y]
        /\ \A k \in Lock \ {l} : owner'[k] = owner[k] /\ waiting'[k] = waiting[k]
    BY <1>1, <1>9 DEF StartWait, Go, TypeOK
  <2>2. FlagTrue(l)'
    BY <2>1, XctAssumption DEF FlagTrue
  <2>3. \A k \in Lock \ {l} : \A y \in Xct : req'[k][y].st = req[k][y].st
    BY <1>9 DEF OnlyRequest
  <2>. QED
    BY <1>2, <1>9, <2>1, <2>2, <2>3, OrderKept
<1>10. ASSUME NEW p \in Patience, AwaitUpgrade(x, l, m, d, p)
       PROVE  OrderInv'
  <2>1. OnlyRequest(l, x) /\ req'[l][x].st = "converting"
    BY <1>1, <1>10, AwaitUpgradeEffect
  <2>2. queue' = queue /\ StartWait(x, l, d, p)
    BY <1>10 DEF AwaitUpgrade
  <2>3. req[l][x].st = "granted"
    BY <1>1, <1>3, <1>10 DEF AwaitUpgrade, TypeOK, Request, Status, Pending
  <2>4. HoldersAhead(l)'
    BY <1>1, <2>1, <2>2, <2>3 DEF HoldersAhead, HoldersFirst, Holds, Held, OnlyRequest
  <2>. QED
    BY <1>9, <2>1, <2>2, <2>4 DEF Pending
<1>11. ASSUME NEW p \in Patience, AwaitGrant(x, l, m, d, p)
       PROVE  OrderInv'
  <2>1. OnlyRequest(l, x) /\ req'[l][x].st = "waiting"
    BY <1>1, <1>11, AwaitGrantEffect
  <2>2. /\ queue' = [queue EXCEPT ![l] = Append(@, x)]
        /\ StartWait(x, l, d, p)
        /\ req[l][x].st = "none"
    BY <1>11 DEF AwaitGrant
  <2>3. HoldersAhead(l)' /\ \A k \in Lock \ {l} : queue'[k] = queue[k]
    BY <1>7, <2>1, <2>2
  <2>. QED
    BY <1>9, <2>1, <2>2, <2>3 DEF Pending
<1>. QED
  BY <1>0, <1>5, <1>6, <1>8, <1>10, <1>11

\* A queue keeps its order when a request leaves it.
LEMMA DetachOrder ==
  ASSUME TypeInv, NEW l \in Lock, NEW x \in Xct, req[l][x].st # "none", HoldersAhead(l),
         queue' = [queue EXCEPT ![l] = Detach(queue[l], x)], OnlyRequest(l, x)
  PROVE  /\ HoldersAhead(l)'
         /\ \A k \in Lock \ {l} : queue'[k] = queue[k]
<1>. DEFINE q == queue[l]
<1>1. /\ q \in Seq(Xct) /\ NoDuplicates(q) /\ In(x, q)
      /\ queue'[l] = Detach(q, x) /\ \A k \in Lock \ {l} : queue'[k] = queue[k]
  BY DEF TypeInv, TypeOK, Queued
<1>2. PICK n \in 1..Len(q) : q[n] = x
  BY <1>1 DEF In
<1>3. /\ Len(queue'[l]) = Len(q) - 1
      /\ \A j \in 1..(Len(q) - 1) : queue'[l][j] = IF j < n THEN q[j] ELSE q[j + 1]
  <2>1. queue'[l] = Detach(q, q[n])
    BY <1>1, <1>2
  <2>2. \A j \in 1..(Len(q) - 1) : Detach(q, q[n])[j] = IF j < n THEN q[j] ELSE q[j + 1]
    BY <1>1, DetachShifts, Zenon
  <2>3. Len(Detach(q, q[n])) = Len(q) - 1
    BY <1>1, DetachShifts, Zenon
  <2>. QED
    BY <2>1, <2>2, <2>3
<1>. DEFINE from(j) == IF j < n THEN j ELSE j + 1
<1>4. \A j \in 1..(Len(q) - 1) : from(j) \in 1..Len(q) /\ queue'[l][j] = q[from(j)] /\ from(j) # n
  BY <1>1, <1>3
<1>5. \A i, j \in 1..(Len(q) - 1) : i < j => from(i) < from(j)
  OBVIOUS
<1>. HIDE DEF from
<1>6. \A j \in 1..(Len(q) - 1) : req'[l][queue'[l][j]] = req[l][q[from(j)]]
  <2>. TAKE j \in 1..(Len(q) - 1)
  <2>1. q[from(j)] \in Xct /\ q[from(j)] # x
    BY <1>1, <1>2, <1>4 DEF NoDuplicates
  <2>. QED
    BY <1>4, <2>1 DEF OnlyRequest
<1>7. HoldersAhead(l)'
  <2>. SUFFICES ASSUME NEW i \in 1..(Len(q) - 1), NEW j \in 1..(Len(q) - 1), i < j,
                       Holds(l, queue[l][j])'
                PROVE  Holds(l, queue[l][i])'
    BY <1>3 DEF HoldersAhead
  <2>1. Holds(l, q[from(j)]) /\ from(i) < from(j)
    BY <1>5, <1>6 DEF Holds
  <2>2. Holds(l, q[from(i)])
    BY <1>4, <2>1 DEF HoldersAhead
  <2>. QED
    BY <1>6, <2>2 DEF Holds
<1>. QED
  BY <1>1, <1>7

LEMMA DenyOrder ==
  ASSUME WaitInv, OrderInv, TypeOK', NEW x \in Xct, pc[x] \in Awaiting, NEW e, Deny(x, e),
         req[call[x].lock][x].st \in Pending,
         \/ owner[call[x].lock] = NoXct
         \/ owner[call[x].lock] = x /\ pc[x] = "dld"
  PROVE  OrderInv'
<1>. USE DEF WaitInv, OrderInv
<1>0. PICK l \in Lock : l = call[x].lock
  BY DEF TypeInv, TypeOK, Call
<1>1. TypeOK /\ l = call[x].lock /\ req[l][x].st \in Pending
  BY <1>0 DEF TypeInv
<1>2. /\ OnlyRequest(l, x)
      /\ req[l][x].st = "waiting" => req'[l][x].st = "none"
      /\ req[l][x].st # "waiting" => req'[l][x].st = "granted"
      /\ StartScan(x, l)
  BY <1>0, DenyEffect
<1>3. waiting[l]
  BY <1>1 DEF FlagTellsWaiters, Detecting
<1>4. HoldersAhead(l)' /\ \A k \in Lock \ {l} : queue'[k] = queue[k]
  <2>1. CASE req[l][x].st = "waiting"
    <3>1. queue' = [queue EXCEPT ![l] = Detach(queue[l], x)]
      BY <1>1, <2>1 DEF Deny
    <3>. QED
      BY <1>1, <1>2, <3>1, DetachOrder DEF HoldersFirst, HoldersAhead, Pending
  <2>2. CASE req[l][x].st # "waiting"
    <3>1. queue' = queue
      BY <1>1, <2>2 DEF Deny, TypeOK
    <3>2. \A i \in 1..Len(queue[l]) : queue[l][i] \in Xct
      BY <1>1 DEF TypeOK
    <3>3. req[l][x].st \in Held /\ req'[l][x].st \in Held
      BY <1>1, <1>2, <2>2 DEF Held, Pending
    <3>4. \A y \in Xct : Holds(l, y)' <=> Holds(l, y)
      BY <1>2, <3>3 DEF OnlyRequest, Holds
    <3>5. HoldersAhead(l)
      BY DEF HoldersFirst, HoldersAhead
    <3>. QED
      BY <3>1, <3>2, <3>4, <3>5 DEF HoldersAhead
  <2>. QED
    BY <2>1, <2>2
<1>5. /\ \A k \in Lock \ {l} : owner'[k] = owner[k] /\ waiting'[k] = waiting[k]
      /\ ~waiting'[l] /\ pc'[x] = "scan" /\ owner'[l] = x
      /\ call'[x].lock = l /\ call'[x].pos = 1
  BY <1>1, <1>2, <1>3, StartScanEffect
<1>6. \A y \in Xct \ {x} : pc'[y] = pc[y] /\ call'[y] = call[y]
  BY <1>1, <1>2, StartScanTypes
<1>7. FlagTrue(l)'
  BY <1>5, XctAssumption DEF FlagTrue
<1>8. Passed(l, call[x].pos)'
  BY <1>5 DEF Passed
<1>9. owner[l] \in {NoXct, x} /\ \A k \in Lock \ {l} : \A y \in Xct : req'[k][y].st = req[k][y].st
  BY <1>0, <1>2 DEF OnlyRequest
<1>. QED
  BY <1>1, <1>4, <1>5, <1>6, <1>7, <1>8, <1>9, OrderKept

\* What x's walk finds where it is: everything before that is granted or an upgrade.
LEMMA ScanPlace ==
  ASSUME WaitInv, OrderInv, NEW x \in Xct, NEW l \in Lock, l = call[x].lock,
         NEW i \in 1..Len(queue[l]), NextPending(x, i)
  PROVE  /\ Passed(l, i)
         /\ \A j \in 1..Len(queue[l]) : j < i => Holds(l, queue[l][j])
<1>1. Passed(l, call[x].pos)
  BY DEF NextPending, At, OrderInv, Scanning
<1>2. ASSUME NEW j \in 1..Len(queue[l]), j < i
      PROVE  req[l][queue[l][j]].st \in Held
  <2>1. queue[l][j] \in Xct /\ In(queue[l][j], queue[l])
    BY DEF WaitInv, TypeInv, TypeOK, In
  <2>2. req[l][queue[l][j]].st \in {"granted", "waiting", "converting"}
    BY <2>1 DEF WaitInv, TypeInv, TypeOK, Request, Status, Queued
  <2>3. j \in 1..(i - 1) /\ call[x].pos \in Nat
    BY <1>2 DEF WaitInv, TypeInv, TypeOK, Call
  <2>4. j < call[x].pos \/ req[l][queue[l][j]].st \notin Pending
    BY <2>3 DEF NextPending
  <2>. QED
    BY <1>1, <2>2, <2>4 DEF Passed, Held, Pending
<1>. QED
  BY <1>2 DEF Passed, Holds, Held

LEMMA ScanOrder ==
  ASSUME WaitInv, OrderInv, TypeOK', NEW x \in Xct, Scan(x)
  PROVE  OrderInv'
<1>. USE DEF WaitInv, OrderInv
<1>0. PICK l \in Lock : l = call[x].lock
  BY DEF TypeInv, TypeOK, Call
<1>1. /\ TypeOK /\ pc[x] = "scan" /\ owner[l] = x /\ ~waiting[l]
      /\ \A i \in 1..Len(queue[l]) : queue[l][i] \in Xct
      /\ Passed(l, call[x].pos)
      /\ Len(queue[l]) \in Nat /\ call[x].pos \in Nat
  <2>1. pc[x] = "scan"
    BY DEF Scan, ScanGrant, ScanPass, ScanEnd, NextPending, At
  <2>2. owner[l] = x /\ ~waiting[l] /\ Passed(l, call[x].pos)
    BY <1>0, <2>1 DEF Exclusive, InHead, Scanning
  <2>3. queue[l] \in Seq(Xct) /\ call[x].pos \in Nat
    BY DEF TypeInv, TypeOK, Call
  <2>. QED
    BY <2>1, <2>2, <2>3 DEF TypeInv
<1>2. HoldersAhead(l)
  BY DEF HoldersFirst, HoldersAhead
<1>3. CASE ScanGrant(x)
  <2>1. PICK i \in 1..Len(queue[l]) :
          LET y == queue[l][i]
          IN  /\ NextPending(x, i)
              /\ OnlyRequest(l, y)
              /\ req'[l][y].st = "granted"
              /\ call' = [call EXCEPT ![x].pos = i + 1]
              /\ UNCHANGED <<queue, waiting, owner, pc, infoVars, fatal>>
    BY <1>0, <1>3, ScanGrantEffect
  <2>2. PICK y \in Xct : y = queue[l][i]
    BY <1>1
  <2>3. /\ OnlyRequest(l, y) /\ req'[l][y].st = "granted"
        /\ UNCHANGED <<queue, waiting, owner, pc>>
    BY <2>1, <2>2
  <2>4. Passed(l, i) /\ \A j \in 1..Len(queue[l]) : j < i => Holds(l, queue[l][j])
    BY <1>0, <2>1, ScanPlace
  <2>5. \A z \in Xct : Holds(l, z)' <=> Holds(l, z) \/ z = y
    BY <2>3 DEF OnlyRequest, Holds, Held
  <2>6. HoldersAhead(l)'
    <3>. SUFFICES ASSUME NEW j \in 1..Len(queue[l]), NEW k \in 1..Len(queue[l]),
                         j < k, Holds(l, queue[l][k])'
                  PROVE  Holds(l, queue[l][j])'
      BY <2>3 DEF HoldersAhead
    <3>1. queue'[l] = queue[l] /\ queue[l][j] \in Xct /\ queue[l][k] \in Xct
      BY <1>1, <2>3
    <3>2. Holds(l, queue[l][k]) \/ queue[l][k] = y
      BY <2>5, <3>1
    <3>3. CASE Holds(l, queue[l][k])
      BY <1>2, <2>5, <3>1, <3>3 DEF HoldersAhead
    <3>4. CASE queue[l][k] = y
      <4>1. k = i
        BY <2>2, <3>4 DEF TypeInv, Queued, NoDuplicates
      <4>. QED
        BY <2>4, <2>5, <3>1, <4>1
    <3>. QED
      BY <3>2, <3>3, <3>4
  <2>7. /\ call'[x].lock = l /\ call'[x].pos = i + 1
        /\ \A z \in Xct \ {x} : call'[z] = call[z]
    BY <1>0, <1>1, <2>1 DEF TypeOK, Call
  <2>8. Passed(l, call[x].pos)'
    <3>. SUFFICES ASSUME NEW j \in 1..Len(queue[l]), j < i + 1
                  PROVE  req'[l][queue[l][j]].st # "waiting"
      BY <2>3, <2>7 DEF Passed
    <3>1. CASE j < i
      BY <1>1, <2>3, <2>4, <3>1 DEF Passed, OnlyRequest
    <3>2. CASE j = i
      BY <2>2, <2>3, <3>2
    <3>. QED
      BY <3>1, <3>2
  <2>9. FlagTrue(l)'
    BY <1>1, <2>3, XctAssumption DEF FlagTrue
  <2>10. \A k \in Lock \ {l} : \A z \in Xct : req'[k][z].st = req[k][z].st
    BY <2>3 DEF OnlyRequest
  <2>. QED
    BY <1>1, <2>3, <2>6, <2>7, <2>8, <2>9, <2>10, OrderKept
<1>4. CASE ScanPass(x)
  <2>1. PICK i \in 1..Len(queue[l]) :
          /\ NextPending(x, i)
          /\ req[l][queue[l][i]].st = "converting"
          /\ call' = [call EXCEPT ![x].pos = i + 1]
          /\ UNCHANGED <<headVars, owner, pc, infoVars, sig, fatal>>
    BY <1>0, <1>4 DEF ScanPass
  <2>2. UNCHANGED <<req, queue, waiting, owner, pc>>
    BY <2>1 DEF headVars
  <2>3. /\ call'[x].lock = l /\ call'[x].pos = i + 1
        /\ \A z \in Xct \ {x} : call'[z] = call[z]
    BY <1>0, <1>1, <2>1 DEF TypeOK, Call
  <2>4. Passed(l, i)
    BY <1>0, <2>1, ScanPlace
  <2>5. Passed(l, call[x].pos)'
    BY <2>1, <2>2, <2>3, <2>4 DEF Passed
  <2>6. FlagTrue(l)' /\ HoldersAhead(l)'
    BY <1>1, <1>2, <2>2, XctAssumption DEF FlagTrue, HoldersAhead, Holds
  <2>. QED
    BY <1>1, <2>2, <2>3, <2>5, <2>6, OrderKept
<1>5. CASE ScanEnd(x)
  <2>. DEFINE stopped == \E i \in 1..Len(queue[l]) :
                           /\ NextPending(x, i)
                           /\ req[l][queue[l][i]].st = "waiting"
                           /\ ~CanJoin(x, queue[l][i])
              flag == stopped \/ CvtPending(x)
  <2>1. /\ stopped \/ \A i \in 1..Len(queue[l]) : ~NextPending(x, i)
        /\ waiting' = [waiting EXCEPT ![l] = flag]
        /\ owner' = [owner EXCEPT ![l] = NoXct]
        /\ Return(x)
        /\ UNCHANGED <<queue, req>>
    BY <1>0, <1>5 DEF ScanEnd
  <2>2. flag <=> \E y \in Xct : req[l][y].st \in Pending
    <3>1. ASSUME flag
          PROVE  \E y \in Xct : req[l][y].st \in Pending
      BY <3>1, <1>0, <1>1 DEF CvtPending, Pending
    <3>2. ASSUME NEW y \in Xct, req[l][y].st \in Pending, ~stopped
          PROVE  CvtPending(x)
      <4>1. PICK k \in 1..Len(queue[l]) : queue[l][k] = y
        BY <3>2 DEF TypeInv, Queued, In, Pending
      <4>2. CASE k < call[x].pos
        <5>1. req[l][queue[l][k]].st = "converting"
          BY <1>1, <3>2, <4>1, <4>2 DEF Passed, Pending
        <5>. QED
          BY <1>0, <4>2, <5>1 DEF CvtPending
      <4>3. CASE k >= call[x].pos
        <5>. DEFINE T == {j \in 1..Len(queue[l]) :
                            j >= call[x].pos /\ req[l][queue[l][j]].st \in Pending}
        <5>1. k \in T /\ T \in SUBSET Nat
          BY <3>2, <4>1, <4>3
        <5>2. PICK n \in T : \A j \in T : n <= j
          BY <5>1, LeastMember
        <5>3. \A j \in 1..(n - 1) : j \notin T /\ j \in 1..Len(queue[l])
          BY <1>1, <5>2
        <5>4. NextPending(x, n)
          BY <1>0, <1>5, <5>2, <5>3 DEF NextPending, ScanEnd
        <5>. QED
          BY <2>1, <3>2, <5>2, <5>4
      <4>. QED
        BY <1>1, <4>2, <4>3
    <3>. QED
      BY <3>1, <3>2
  <2>. HIDE DEF flag
  <2>3. /\ waiting'[l] = flag /\ pc'[x] = "idle"
        /\ \A y \in Xct \ {x} : pc'[y] = pc[y] /\ call'[y] = call[y]
        /\ \A k \in Lock \ {l} : owner'[k] = owner[k] /\ waiting'[k] = waiting[k]
    BY <1>1, <2>1 DEF Return, Go, TypeOK
  <2>4. FlagTrue(l)' /\ HoldersAhead(l)'
    BY <1>2, <2>1, <2>2, <2>3 DEF FlagTrue, HoldersAhead, Holds
  <2>. QED
    BY <1>1, <2>1, <2>3, <2>4, OrderKept DEF InHead
<1>. QED
  BY <1>3, <1>4, <1>5 DEF Scan

LEMMA DetectOrder ==
  ASSUME WaitInv, OrderInv, TypeOK', NEW x \in Xct, Detect(x)
  PROVE  OrderInv'
<1>. USE DEF WaitInv, OrderInv
<1>0. PICK l \in Lock : l = call[x].lock
  BY DEF TypeInv, TypeOK, Call
<1>1. /\ pc[x] \in {"dld", "kill"} /\ owner[l] = x
      /\ waiting[l] /\ req[l][x].st \in Pending
  BY <1>0 DEF Detect, DldMerge, DldSelf, DldOther, DldKill, DldDone, NextAwaited, At,
              Exclusive, InHead, Detecting
<1>2. CASE DldSelf(x)
  <2>1. Deny(x, "dead") /\ pc[x] = "dld"
    BY <1>2 DEF DldSelf, NextAwaited, At
  <2>. QED
    BY <1>0, <1>1, <2>1, DenyOrder DEF Awaiting
<1>3. CASE DldMerge(x) \/ DldOther(x) \/ DldKill(x) \/ DldDone(x)
  <2>1. UNCHANGED <<req, queue, waiting>>
    BY <1>3 DEF DldMerge, DldOther, DldKill, DldDone, headVars
  <2>2. \/ \E n : call' = [call EXCEPT ![x].pos = n]
        \/ \E n : call' = [call EXCEPT ![x].left = n]
    <3>1. ASSUME DldMerge(x) PROVE \E n : call' = [call EXCEPT ![x].pos = n]
      BY <3>1, Zenon DEF DldMerge
    <3>2. ASSUME DldOther(x) PROVE \E n : call' = [call EXCEPT ![x].pos = n]
      BY <3>2, Zenon DEF DldOther, SkipQueue
    <3>3. ASSUME DldKill(x) PROVE \E n : call' = [call EXCEPT ![x].pos = n]
      BY <3>3, Zenon DEF DldKill, SkipQueue
    <3>4. ASSUME DldDone(x) PROVE \E n : call' = [call EXCEPT ![x].left = n]
      BY <3>4 DEF DldDone
    <3>. QED
      BY <1>3, <3>1, <3>2, <3>3, <3>4
  <2>3. \E p \in {pc[x], "kill", "dld", "prep"} : pc' = [pc EXCEPT ![x] = p]
    <3>1. CASE DldMerge(x)
      <4>1. pc' = pc
        BY <3>1, Zenon DEF DldMerge
      <4>. QED
        BY <4>1 DEF TypeInv, TypeOK
    <3>2. CASE DldOther(x)
      <4>1. Go(x, "kill") \/ pc' = pc
        BY <3>2, Zenon DEF DldOther
      <4>. QED
        BY <4>1 DEF Go, TypeInv, TypeOK
    <3>3. CASE DldKill(x)
      BY <3>3 DEF DldKill, Go
    <3>4. CASE DldDone(x)
      BY <3>4 DEF DldDone, Go
    <3>. QED
      BY <1>3, <3>1, <3>2, <3>3, <3>4
  <2>4. owner' = owner \/ owner' = [owner EXCEPT ![l] = NoXct]
    BY <1>0, <1>3, Zenon DEF DldMerge, DldOther, DldKill, DldDone
  <2>5. /\ \A y \in Xct \ {x} : pc'[y] = pc[y] /\ call'[y] = call[y]
        /\ \A k \in Lock \ {l} : owner'[k] = owner[k]
        /\ pc'[x] # "scan" /\ call'[x].lock = l
    <3>1. \A y \in Xct \ {x} : call'[y] = call[y]
      BY <2>2 DEF TypeInv, TypeOK
    <3>2. call'[x].lock = l
      BY <1>0, <2>2 DEF TypeInv, TypeOK, Call
    <3>3. pc'[x] # "scan" /\ \A y \in Xct \ {x} : pc'[y] = pc[y]
      BY <1>1, <2>3 DEF TypeInv, TypeOK
    <3>4. \A k \in Lock \ {l} : owner'[k] = owner[k]
      BY <2>4 DEF TypeInv, TypeOK
    <3>. QED
      BY <3>1, <3>2, <3>3, <3>4
  <2>6. FlagTrue(l)' /\ HoldersAhead(l)'
    BY <1>1, <2>1 DEF FlagTrue, HoldersFirst, HoldersAhead, Holds
  <2>. QED
    BY <1>1, <2>1, <2>5, <2>6, OrderKept
<1>. QED
  BY <1>2, <1>3 DEF Detect

LEMMA SleepOrder ==
  ASSUME WaitInv, OrderInv, TypeOK', NEW x \in Xct, Sleep(x) \/ End(x) \/ Poison(x)
  PROVE  OrderInv'
<1>1. UNCHANGED <<req, queue, waiting, owner, call>>
  BY DEF Sleep, Nap, EndNap, End, Poison, headVars
<1>2. \A y \in Xct : pc'[y] \in InHead => pc'[y] = pc[y]
  BY DEF Sleep, Nap, EndNap, End, Poison, Go, WaitInv, TypeInv, TypeOK, InHead
<1>. QED
  BY <1>1, <1>2, OrderUntouched

LEMMA WakeOrder ==
  ASSUME WaitInv, OrderInv, TypeOK', NEW x \in Xct, Wake(x)
  PROVE  OrderInv'
<1>. USE DEF WaitInv, OrderInv
<1>0. PICK l \in Lock : l = call[x].lock
  BY DEF TypeInv, TypeOK, Call
<1>1. pc[x] = "woken" /\ owner[l] = NoXct
  BY <1>0 DEF Wake, TryAgain, GiveUp, Granted, Retakes, At
<1>2. req[l][x].st \in {"granted", "waiting", "converting"}
  BY <1>0, <1>1 DEF TypeInv, TypeOK, RoomToCount, Awaiting, Request, Status
<1>3. CASE TryAgain(x)
  <2>1. /\ UNCHANGED <<req, queue, waiting>>
        /\ pc'[x] = "dld" /\ owner'[l] = x /\ call'[x].lock = l
        /\ \A y \in Xct \ {x} : pc'[y] = pc[y] /\ call'[y] = call[y]
        /\ \A k \in Lock \ {l} : owner'[k] = owner[k]
    BY <1>0, <1>3 DEF TryAgain, headVars, Go, TypeInv, TypeOK, Call
  <2>2. req[l][x].st \in Pending
    BY <1>0, <1>2, <1>3 DEF TryAgain, MyStatus, Pending
  <2>3. waiting[l]
    BY <1>1, <2>2 DEF FlagTellsWaiters
  <2>4. FlagTrue(l)' /\ HoldersAhead(l)'
    BY <2>1, XctAssumption DEF FlagTrue, HoldersFirst, HoldersAhead, Holds
  <2>. QED
    BY <1>1, <2>1, <2>2, <2>3, <2>4, OrderKept
<1>4. CASE GiveUp(x)
  <2>1. Deny(x, sig[x]) /\ req[l][x].st \in Pending
    BY <1>0, <1>2, <1>4 DEF GiveUp, MyStatus, Pending
  <2>. QED
    BY <1>0, <1>1, <2>1, DenyOrder DEF Awaiting
<1>5. CASE Granted(x)
  <2>1. \A k \in Lock, y \in Xct : req'[k][y].st = req[k][y].st
    BY <1>5, GrantedEffect DEF RequestsKept
  <2>2. /\ UNCHANGED <<queue, waiting, owner>>
        /\ \A y \in Xct : pc'[y] \in InHead => pc'[y] = pc[y] /\ call'[y] = call[y]
    BY <1>5 DEF Granted, Return, Go, TypeInv, TypeOK, InHead
  <2>. QED
    BY <2>1, <2>2, OrderUntouched
<1>. QED
  BY <1>3, <1>4, <1>5 DEF Wake

LEMMA FreeOrder ==
  ASSUME WaitInv, OrderInv, TypeOK', NEW x \in Xct, Free(x)
  PROVE  OrderInv'
<1>. USE DEF WaitInv, OrderInv
<1>1. PICK l \in Lock : Uncount(x, l) \/ Release(x, l)
  BY DEF Free
<1>2. TypeOK /\ owner[l] = NoXct
  BY <1>1 DEF TypeInv, Uncount, Release, CanRelease
<1>3. CASE Uncount(x, l)
  <2>1. \A k \in Lock, y \in Xct : req'[k][y].st = req[k][y].st
    BY <1>2, <1>3, UncountEffect DEF RequestsKept
  <2>. QED
    BY <1>3, <2>1, OrderUntouched DEF Uncount
<1>4. CASE Release(x, l)
  <2>1. /\ OnlyRequest(l, x) /\ req'[l][x].st = "none" /\ StartScan(x, l)
        /\ req[l][x].st # "none"
        /\ queue' = [queue EXCEPT ![l] = Detach(queue[l], x)]
    BY <1>2, <1>4, ReleaseEffect DEF Release, CanRelease
  <2>2. HoldersAhead(l)' /\ \A k \in Lock \ {l} : queue'[k] = queue[k]
    BY <2>1, DetachOrder DEF HoldersFirst, HoldersAhead
  <2>3. \A y \in Xct \ {x} : pc'[y] = pc[y] /\ call'[y] = call[y]
    BY <1>2, <2>1, StartScanTypes
  <2>4. /\ \A k \in Lock \ {l} : owner'[k] = owner[k] /\ waiting'[k] = waiting[k]
        /\ ~waiting'[l]
        /\ \/ waiting[l] /\ pc'[x] = "scan" /\ owner'[l] = x
              /\ call'[x].lock = l /\ call'[x].pos = 1
           \/ ~waiting[l] /\ pc'[x] = "idle" /\ owner'[l] = NoXct
    BY <1>2, <2>1, StartScanEffect
  <2>5. FlagTrue(l)'
    <3>1. CASE waiting[l]
      BY <3>1, <2>4, XctAssumption DEF FlagTrue
    <3>2. CASE ~waiting[l]
      <4>1. \A y \in Xct : req[l][y].st \notin Pending
        BY <1>2, <3>2 DEF FlagTellsWaiters
      <4>2. \A y \in Xct : req'[l][y].st \notin Pending
        BY <2>1, <4>1 DEF OnlyRequest, Pending
      <4>. QED
        BY <2>4, <4>2 DEF FlagTrue
    <3>. QED
      BY <3>1, <3>2
  <2>6. Passed(l, call[x].pos)' \/ pc'[x] # "scan"
    BY <2>4 DEF Passed
  <2>7. \A k \in Lock \ {l} : \A y \in Xct : req'[k][y].st = req[k][y].st
    BY <2>1 DEF OnlyRequest
  <2>. QED
    BY <1>2, <2>2, <2>3, <2>4, <2>5, <2>6, <2>7, OrderKept DEF InHead
<1>. QED
  BY <1>1, <1>3, <1>4

LEMMA OrderStep == WaitInv /\ WaitInv' /\ OrderInv /\ [Next]_vars => OrderInv'
<1>. SUFFICES ASSUME WaitInv, WaitInv', OrderInv, [Next]_vars PROVE OrderInv'
  OBVIOUS
<1>1. TypeOK'
  BY DEF WaitInv, TypeInv
<1>2. CASE UNCHANGED vars
  BY <1>2, OrderUntouched DEF vars, headVars, OrderInv, Detecting, Scanning, FlagTellsWaiters,
     HoldersFirst, Passed, Holds
<1>3. CASE \E x \in Xct : Ask(x) \/ Detect(x) \/ Sleep(x) \/ Wake(x) \/ Free(x) \/ Scan(x) \/ End(x)
  BY <1>1, <1>3, AskOrder, DetectOrder, SleepOrder, WakeOrder, FreeOrder, ScanOrder
<1>4. CASE \E x \in Poisonable : Poison(x)
  BY <1>1, <1>4, SleepOrder, PoisonAssumption
<1>. QED
  BY <1>2, <1>3, <1>4 DEF Next, Finished, Crashed

LEMMA OrderAlways ==
  ASSUME ~Spurious
  PROVE  Spec => [](WaitInv /\ OrderInv)
<1>1. Init => WaitInv /\ OrderInv
  BY WaitInit, OrderInit
<1>2. WaitInv /\ OrderInv /\ [Next]_vars => WaitInv' /\ OrderInv'
  BY WaitStep, OrderStep
<1>. QED
  BY <1>1, <1>2, PTL DEF Spec

\* No holder of a lock stands behind a waiter, so a queue is served in its order and the
\* group mode may be computed from the part before the first waiter.
THEOREM HoldersAreFirst ==
  ASSUME ~Spurious
  PROVE  Spec => []HoldersFirst
<1>1. OrderInv => HoldersFirst
  BY DEF OrderInv
<1>. QED
  BY <1>1, OrderAlways, PTL

\* When no thread is at work on a lock head, its flag says whether somebody waits there.
THEOREM FlagTruthful ==
  ASSUME ~Spurious
  PROVE  Spec => []FlagTellsWaiters
<1>1. OrderInv => FlagTellsWaiters
  BY DEF OrderInv
<1>. QED
  BY <1>1, OrderAlways, PTL

-----------------------------------------------------------------------------
(***************************************************************************)
(* Layer 3.  The granted mode of a head absorbs what each holder holds, so *)
(* who may join it may join them all.                                      *)
(***************************************************************************)
CoveredAt(l) == \A y \in Xct : Holds(l, y) => Leq(HeldMode(l, y), gmode[l])

Agree(l, x, y) ==
  \/ Tolerates(HeldMode(l, x), HeldMode(l, y))
  \/ {HeldMode(l, x), HeldMode(l, y)} = {"UD", "IS"}

AgreedAt(l) == \A x, y \in Xct : x # y /\ Holds(l, x) /\ Holds(l, y) => Agree(l, x, y)

ModeInv == \A l \in Lock : CoveredAt(l) /\ AgreedAt(l)

LEMMA ModeInit == Init => ModeInv
  BY DEF Init, ModeInv, CoveredAt, AgreedAt, Holds, Held, NoReq

\* A step on the head of l keeps this, if it does so for l.
LEMMA ModesKept ==
  ASSUME ModeInv, NEW l \in Lock,
         \A k \in Lock \ {l} :
           /\ gmode'[k] = gmode[k]
           /\ \A y \in Xct : req'[k][y].st = req[k][y].st /\ req'[k][y].mode = req[k][y].mode,
         (CoveredAt(l) /\ AgreedAt(l))'
  PROVE  ModeInv'
<1>. SUFFICES ASSUME NEW k \in Lock \ {l}
              PROVE  (CoveredAt(k) /\ AgreedAt(k))'
  BY DEF ModeInv
<1>1. \A y \in Xct : (Holds(k, y)' <=> Holds(k, y)) /\ HeldMode(k, y)' = HeldMode(k, y)
  BY DEF Holds, HeldMode
<1>2. CoveredAt(k)'
  BY <1>1 DEF ModeInv, CoveredAt
<1>3. AgreedAt(k)'
  BY <1>1 DEF ModeInv, AgreedAt, Agree
<1>. QED
  BY <1>2, <1>3

\* A step that makes nobody a holder, and nobody's mode stronger, keeps the agreement.
LEMMA AgreedKept ==
  ASSUME NEW l \in Lock, AgreedAt(l),
         \A y \in Xct : Holds(l, y)' => Holds(l, y) /\ HeldMode(l, y)' = HeldMode(l, y)
  PROVE  AgreedAt(l)'
  BY DEF AgreedAt, Agree

LEMMA ModesUntouched ==
  ASSUME ModeInv, RequestsKept, gmode' = gmode
  PROVE  ModeInv'
<1>1. \A k \in Lock, y \in Xct :
        (Holds(k, y)' <=> Holds(k, y)) /\ HeldMode(k, y)' = HeldMode(k, y)
  BY DEF RequestsKept, Holds, HeldMode
<1>. SUFFICES ASSUME NEW k \in Lock
              PROVE  (CoveredAt(k) /\ AgreedAt(k))'
  BY DEF ModeInv
<1>2. CoveredAt(k)'
  BY <1>1 DEF ModeInv, CoveredAt
<1>3. AgreedAt(k)'
  BY <1>1, AgreedKept DEF ModeInv
<1>. QED
  BY <1>2, <1>3

\* x takes, or strengthens to, a mode that g may be joined with, where g absorbs what the
\* others hold; the head gets the supremum of both.
LEMMA ModeTaken ==
  ASSUME TypeOK, ModeInv, NEW l \in Lock, NEW x \in Xct, NEW m \in Mode, NEW g \in Mode,
         NEW h \in Mode, g \in compat[m],
         \A y \in Xct \ {x} : Holds(l, y) => Leq(HeldMode(l, y), g),
         \A y \in Xct \ {x} : Holds(l, y) => Leq(HeldMode(l, y), h),
         OnlyRequest(l, x), req'[l][x].mode = m,
         gmode'[l] = supr[h][m] \/ gmode'[l] = supr[m][h],
         \A k \in Lock \ {l} : gmode'[k] = gmode[k]
  PROVE  ModeInv'
<1>1. \A y \in Xct : HeldMode(l, y) \in Mode
  BY DEF HeldMode, TypeOK, Request
<1>2. \A y \in Xct \ {x} : (Holds(l, y)' <=> Holds(l, y)) /\ HeldMode(l, y)' = HeldMode(l, y)
  BY DEF OnlyRequest, Holds, HeldMode
<1>3. HeldMode(l, x)' = m
  BY DEF HeldMode
<1>4. \A y \in Xct \ {x} : Holds(l, y) =>
        Leq(HeldMode(l, y), supr[h][m]) /\ Leq(HeldMode(l, y), supr[m][h])
  BY <1>1, LeqSupr
<1>5. Leq(m, supr[h][m]) /\ Leq(m, supr[m][h])
  BY SuprAbsorbs
<1>6. CoveredAt(l)'
  BY <1>2, <1>3, <1>4, <1>5 DEF CoveredAt
<1>7. \A y \in Xct \ {x} : Holds(l, y) =>
        Tolerates(HeldMode(l, y), m) \/ {HeldMode(l, y), m} = {"UD", "IS"}
  BY <1>1, JoinsMembers
<1>8. \A y \in Xct \ {x} : Holds(l, y) =>
        Tolerates(m, HeldMode(l, y)) \/ {m, HeldMode(l, y)} = {"UD", "IS"}
  BY <1>7 DEF Tolerates
<1>9. AgreedAt(l)'
  <2>. SUFFICES ASSUME NEW y \in Xct, NEW z \in Xct, y # z, Holds(l, y)', Holds(l, z)'
                PROVE  Agree(l, y, z)'
    BY DEF AgreedAt
  <2>1. CASE y = x
    BY <2>1, <1>2, <1>3, <1>8 DEF Agree
  <2>2. CASE z = x
    BY <2>2, <1>2, <1>3, <1>7 DEF Agree
  <2>3. CASE y # x /\ z # x
    BY <2>3, <1>2 DEF Agree, ModeInv, AgreedAt
  <2>. QED
    BY <2>1, <2>2, <2>3
<1>10. \A k \in Lock \ {l} : \A y \in Xct : req'[k][y] = req[k][y]
  BY DEF OnlyRequest
<1>. QED
  BY <1>6, <1>9, <1>10, ModesKept

\* granted_mode_other absorbs what the others hold, for holders stand before waiters.
LEMMA GroupModeOther ==
  ASSUME NEW q \in Seq(Xct), NEW r \in [Xct -> Request], NEW x, NEW y \in Xct, y # x,
         In(y, q), r[y].st \in Held,
         \A i, j \in 1..Len(q) : i < j /\ r[q[j]].st \in Held => r[q[i]].st \in Held
  PROVE  Leq(r[y].mode, GrantedModeOther(q, r, x))
<1>. DEFINE S == {r[q[i]].mode : i \in {k \in 1..Len(q) :
                    q[k] # x /\ \A j \in 1..k : r[q[j]].st # "waiting"}}
<1>1. PICK k \in 1..Len(q) : q[k] = y
  BY DEF In
<1>2. \A j \in 1..k : r[q[j]].st # "waiting"
  BY <1>1 DEF Held
<1>3. r[y].mode \in S
  BY <1>1, <1>2
<1>4. r[y].mode \in Mode
  BY DEF Request
<1>5. GrantedModeOther(q, r, x) = GroupMode(S)
  BY DEF GrantedModeOther
<1>. HIDE DEF S
<1>. QED
  BY <1>3, <1>4, <1>5, GroupModeCovers

LEMMA OthersCovered ==
  ASSUME WaitInv, OrderInv, NEW l \in Lock, NEW x, NEW y \in Xct, y # x, Holds(l, y)
  PROVE  Leq(HeldMode(l, y), GrantedModeOther(queue[l], req[l], x))
<1>1. queue[l] \in Seq(Xct) /\ req[l] \in [Xct -> Request] /\ In(y, queue[l])
  BY DEF WaitInv, TypeInv, TypeOK, Queued, Holds, Held
<1>2. \A i, j \in 1..Len(queue[l]) :
        i < j /\ req[l][queue[l][j]].st \in Held => req[l][queue[l][i]].st \in Held
  BY DEF OrderInv, HoldersFirst, Holds
<1>. QED
  BY <1>1, <1>2, GroupModeOther DEF Holds, HeldMode

LEMMA AskModesKept ==
  ASSUME WaitInv, OrderInv, ModeInv, NEW x \in Xct, Ask(x)
  PROVE  ModeInv'
<1>0. PICK l \in Lock, m \in AskModes, d \in Durations :
        \/ Reacquire(x, l, m, d)
        \/ Upgrade(x, l, m, d)
        \/ Grant(x, l, m, d)
        \/ \E p \in Patience : AwaitUpgrade(x, l, m, d, p) \/ AwaitGrant(x, l, m, d, p)
  BY DEF Ask
<1>. DEFINE mode == NewMode(l, x, m)
<1>1. TypeOK /\ m \in Mode /\ mode \in Mode /\ gmode[l] \in Mode
  BY AskedTypes DEF WaitInv, TypeInv, TypeOK
<1>2. \A y \in Xct : HeldMode(l, y) \in Mode
  BY <1>1 DEF HeldMode, TypeOK, Request
<1>3. CASE Reacquire(x, l, m, d)
  <2>1. RequestsKept /\ gmode' = gmode
    BY <1>1, <1>3, ReacquireEffect DEF Reacquire
  <2>. QED
    BY <2>1, ModesUntouched
<1>4. CASE Upgrade(x, l, m, d)
  <2>. DEFINE g == OthersMode(l, x, mode)
  <2>1. /\ OnlyRequest(l, x) /\ req'[l][x].mode = mode /\ g \in compat[mode]
        /\ gmode'[l] = supr[g][mode] /\ \A k \in Lock \ {l} : gmode'[k] = gmode[k]
    BY <1>1, <1>4, UpgradeEffect DEF Upgrade, TypeOK
  <2>2. g \in Mode
    BY <1>1, SuprIsMode, GroupModeIsMode DEF OthersMode, GrantedModeOther
  <2>3. \A y \in Xct \ {x} : Holds(l, y) => Leq(HeldMode(l, y), g)
    <3>. SUFFICES ASSUME NEW y \in Xct \ {x}, Holds(l, y)
                  PROVE  Leq(HeldMode(l, y), g)
      OBVIOUS
    <3>1. Leq(HeldMode(l, y), supr[gmode[l]][mode])
      BY <1>1, <1>2, LeqSupr DEF ModeInv, CoveredAt
    <3>2. Leq(HeldMode(l, y), GrantedModeOther(queue[l], req[l], x))
      BY OthersCovered
    <3>. QED
      BY <3>1, <3>2 DEF OthersMode
  <2>. HIDE DEF g, mode
  <2>. QED
    BY <1>1, <2>1, <2>2, <2>3, ModeTaken
<1>5. CASE Grant(x, l, m, d)
  <2>1. /\ OnlyRequest(l, x) /\ req'[l][x].mode = m /\ gmode[l] \in compat[m]
        /\ gmode'[l] = supr[m][gmode[l]] /\ \A k \in Lock \ {l} : gmode'[k] = gmode[k]
    BY <1>1, <1>5, GrantEffect DEF Grant, Joins, TypeOK
  <2>2. \A y \in Xct \ {x} : Holds(l, y) => Leq(HeldMode(l, y), gmode[l])
    BY DEF ModeInv, CoveredAt
  <2>. QED
    BY <1>1, <2>1, <2>2, ModeTaken
<1>6. ASSUME NEW p \in Patience, AwaitUpgrade(x, l, m, d, p) \/ AwaitGrant(x, l, m, d, p)
      PROVE  ModeInv'
  <2>1. OnlyRequest(l, x) /\ gmode' = gmode
    <3>1. OnlyRequest(l, x)
      BY <1>1, <1>6, AwaitUpgradeEffect, AwaitGrantEffect
    <3>2. StartWait(x, l, d, p)
      BY <1>6 DEF AwaitUpgrade, AwaitGrant
    <3>. QED
      BY <3>1, <3>2 DEF StartWait
  <2>2. Holds(l, x)' => Holds(l, x) /\ HeldMode(l, x)' = HeldMode(l, x)
    <3>1. CASE AwaitUpgrade(x, l, m, d, p)
      <4>1. req[l][x].st \in {"granted", "waiting", "converting"}
        BY <1>1, <3>1 DEF AwaitUpgrade, TypeOK, Request, Status
      <4>2. req[l][x].st \notin Pending
        BY <3>1 DEF AwaitUpgrade, CanAsk, At, WaitInv, PendingAwaits, Awaiting
      <4>. QED
        BY <1>1, <3>1, <4>1, <4>2, AwaitUpgradeEffect DEF Holds, Held, HeldMode, Pending
    <3>2. CASE AwaitGrant(x, l, m, d, p)
      BY <1>1, <3>2, AwaitGrantEffect DEF Holds, Held
    <3>. QED
      BY <1>6, <3>1, <3>2
  <2>3. \A y \in Xct : Holds(l, y)' => Holds(l, y) /\ HeldMode(l, y)' = HeldMode(l, y)
    BY <2>1, <2>2 DEF OnlyRequest, Holds, HeldMode
  <2>4. CoveredAt(l)' /\ AgreedAt(l)'
    BY <2>1, <2>3, AgreedKept DEF ModeInv, CoveredAt
  <2>. QED
    BY <2>1, <2>4, ModesKept DEF OnlyRequest
<1>. QED
  BY <1>0, <1>3, <1>4, <1>5, <1>6

LEMMA DenyModes ==
  ASSUME WaitInv, TypeInv', ModeInv, NEW x \in Xct, pc[x] \in Awaiting, NEW e, Deny(x, e),
         req[call[x].lock][x].st \in Pending
  PROVE  ModeInv'
<1>0. PICK l \in Lock : l = call[x].lock
  BY DEF WaitInv, TypeInv, TypeOK, Call
<1>1. /\ OnlyRequest(l, x)
      /\ req[l][x].st = "waiting" => req'[l][x].st = "none"
      /\ req[l][x].st # "waiting" =>
           req'[l][x].st = "granted" /\ req'[l][x].mode = req[l][x].mode
  BY <1>0, DenyEffect DEF WaitInv
<1>2. Holds(l, x)' => Holds(l, x) /\ HeldMode(l, x)' = HeldMode(l, x)
  BY <1>0, <1>1 DEF Holds, HeldMode, Held, Pending
<1>3. \A y \in Xct : Holds(l, y)' => Holds(l, y) /\ HeldMode(l, y)' = HeldMode(l, y)
  BY <1>1, <1>2 DEF OnlyRequest, Holds, HeldMode
<1>4. /\ \A k \in Lock \ {l} : gmode'[k] = gmode[k]
      /\ gmode'[l] = gmode[l] \/ queue'[l] = <<>>
  <2>. DEFINE q == IF req[l][x].st = "waiting" THEN Detach(queue[l], x) ELSE queue[l]
  <2>1. /\ queue' = [queue EXCEPT ![l] = q]
        /\ gmode' = [gmode EXCEPT ![l] = IF e = "dead" /\ q = <<>> THEN "NL" ELSE @]
    BY <1>0, Zenon DEF Deny
  <2>. HIDE DEF q
  <2>. QED
    BY <2>1 DEF WaitInv, TypeInv, TypeOK
<1>5. CoveredAt(l)'
  <2>1. CASE gmode'[l] = gmode[l]
    BY <1>3, <2>1 DEF ModeInv, CoveredAt
  <2>2. CASE queue'[l] = <<>>
    <3>1. \A y \in Xct : req'[l][y].st = "none"
      BY <2>2 DEF TypeInv, Queued, In
    <3>. QED
      BY <3>1 DEF CoveredAt, Holds, Held
  <2>. QED
    BY <1>4, <2>1, <2>2
<1>6. AgreedAt(l)'
  BY <1>3, AgreedKept DEF ModeInv
<1>. QED
  BY <1>1, <1>4, <1>5, <1>6, ModesKept DEF OnlyRequest

LEMMA ScanModes ==
  ASSUME WaitInv, OrderInv, ModeInv, NEW x \in Xct, Scan(x)
  PROVE  ModeInv'
<1>0. PICK l \in Lock : l = call[x].lock
  BY DEF WaitInv, TypeInv, TypeOK, Call
<1>1. TypeOK /\ gmode[l] \in Mode
  BY DEF WaitInv, TypeInv, TypeOK
<1>2. CASE ScanGrant(x)
  <2>1. PICK i \in 1..Len(queue[l]) :
          LET y == queue[l][i]
          IN  /\ CanConvert(x, y) \/ CanJoin(x, y)
              /\ OnlyRequest(l, y)
              /\ req'[l][y].mode = WantedMode(req[l][y])
              /\ gmode' = [gmode EXCEPT ![l] = supr[WantedMode(req[l][y])][@]]
    BY <1>0, <1>2, ScanGrantEffect DEF WaitInv
  <2>2. PICK y \in Xct : y = queue[l][i]
    BY <1>1 DEF TypeOK
  <2>3. PICK m : m = WantedMode(req[l][y])
    OBVIOUS
  <2>4. m \in Mode
    BY <1>1, <2>3 DEF WantedMode, TypeOK, Request
  <2>5. /\ CanConvert(x, y) \/ CanJoin(x, y)
        /\ OnlyRequest(l, y) /\ req'[l][y].mode = m
        /\ gmode'[l] = supr[m][gmode[l]] /\ \A k \in Lock \ {l} : gmode'[k] = gmode[k]
    BY <1>1, <2>1, <2>2, <2>3 DEF TypeOK
  <2>6. \A z \in Xct \ {y} : Holds(l, z) => Leq(HeldMode(l, z), gmode[l])
    BY DEF ModeInv, CoveredAt
  <2>7. CASE CanConvert(x, y)
    <3>. DEFINE g == GrantedModeOther(queue[l], req[l], y)
    <3>1. g \in Mode
      BY GroupModeIsMode DEF GrantedModeOther
    <3>2. g \in compat[m]
      BY <1>0, <2>3, <2>7 DEF CanConvert, WantedMode
    <3>3. \A z \in Xct \ {y} : Holds(l, z) => Leq(HeldMode(l, z), g)
      BY OthersCovered
    <3>. HIDE DEF g
    <3>. QED
      BY <1>1, <2>4, <2>5, <2>6, <3>1, <3>2, <3>3, ModeTaken
  <2>8. CASE CanJoin(x, y)
    <3>1. gmode[l] \in compat[m]
      BY <1>0, <2>3, <2>8 DEF CanJoin, WantedMode
    <3>. QED
      BY <1>1, <2>4, <2>5, <2>6, <3>1, ModeTaken
  <2>. QED
    BY <2>5, <2>7, <2>8
<1>3. CASE ScanPass(x) \/ ScanEnd(x)
  <2>1. UNCHANGED <<req, gmode>>
    BY <1>3 DEF ScanPass, ScanEnd, headVars
  <2>. QED
    BY <2>1 DEF ModeInv, CoveredAt, AgreedAt, Agree, Holds, HeldMode
<1>. QED
  BY <1>2, <1>3 DEF Scan

LEMMA FreeModes ==
  ASSUME WaitInv, OrderInv, WaitInv', OrderInv', ModeInv, NEW x \in Xct, Free(x)
  PROVE  ModeInv'
<1>1. PICK l \in Lock : Uncount(x, l) \/ Release(x, l)
  BY DEF Free
<1>2. TypeOK
  BY DEF WaitInv, TypeInv
<1>3. CASE Uncount(x, l)
  <2>1. RequestsKept /\ gmode' = gmode
    BY <1>2, <1>3, UncountEffect DEF Uncount
  <2>. QED
    BY <2>1, ModesUntouched
<1>4. CASE Release(x, l)
  <2>1. OnlyRequest(l, x) /\ req'[l][x].st = "none"
    BY <1>2, <1>4, ReleaseEffect
  <2>2. /\ gmode'[l] = GrantedModeOther(queue[l], req[l], NoXct)'
        /\ \A k \in Lock \ {l} : gmode'[k] = gmode[k]
    BY <1>2, <1>4 DEF Release, TypeOK, GrantedModeOther
  <2>3. \A y \in Xct : Holds(l, y)' => Holds(l, y) /\ HeldMode(l, y)' = HeldMode(l, y)
    BY <2>1 DEF OnlyRequest, Holds, Held, HeldMode
  <2>4. CoveredAt(l)'
    <3>. SUFFICES ASSUME NEW y \in Xct, Holds(l, y)'
                  PROVE  Leq(HeldMode(l, y)', gmode'[l])
      BY DEF CoveredAt, Leq
    <3>1. queue'[l] \in Seq(Xct) /\ req'[l] \in [Xct -> Request] /\ In(y, queue[l])'
      BY DEF WaitInv, TypeInv, TypeOK, Queued, Holds, Held
    <3>2. \A i, j \in 1..Len(queue'[l]) :
            i < j /\ req'[l][queue'[l][j]].st \in Held => req'[l][queue'[l][i]].st \in Held
      BY DEF OrderInv, HoldersFirst, Holds
    <3>3. y # NoXct /\ req'[l][y].st \in Held
      BY XctAssumption DEF Holds
    <3>4. Leq(req'[l][y].mode, GrantedModeOther(queue'[l], req'[l], NoXct))
      BY <3>1, <3>2, <3>3, GroupModeOther DEF In
    <3>. QED
      BY <2>2, <3>4 DEF HeldMode, GrantedModeOther
  <2>5. AgreedAt(l)'
    BY <2>3, AgreedKept DEF ModeInv
  <2>. QED
    BY <2>1, <2>2, <2>4, <2>5, ModesKept DEF OnlyRequest
<1>. QED
  BY <1>1, <1>3, <1>4

LEMMA ModeStep ==
  WaitInv /\ OrderInv /\ WaitInv' /\ OrderInv' /\ ModeInv /\ [Next]_vars => ModeInv'
<1>. SUFFICES ASSUME WaitInv, OrderInv, WaitInv', OrderInv', ModeInv, [Next]_vars
              PROVE  ModeInv'
  OBVIOUS
<1>1. ASSUME UNCHANGED <<req, gmode>>
      PROVE  ModeInv'
  BY <1>1 DEF ModeInv, CoveredAt, AgreedAt, Agree, Holds, HeldMode
<1>2. CASE UNCHANGED vars
  BY <1>1, <1>2 DEF vars, headVars
<1>3. ASSUME NEW x \in Xct, Detect(x)
      PROVE  ModeInv'
  <2>1. CASE DldSelf(x)
    <3>1. Deny(x, "dead") /\ pc[x] = "dld"
      BY <2>1 DEF DldSelf, NextAwaited, At
    <3>. QED
      BY <3>1, DenyModes DEF WaitInv, Awaiting, OrderInv, Detecting
  <2>2. CASE DldMerge(x) \/ DldOther(x) \/ DldKill(x) \/ DldDone(x)
    BY <1>1, <2>2 DEF DldMerge, DldOther, DldKill, DldDone, headVars
  <2>. QED
    BY <1>3, <2>1, <2>2 DEF Detect
<1>4. ASSUME NEW x \in Xct, Wake(x)
      PROVE  ModeInv'
  <2>1. CASE TryAgain(x)
    BY <1>1, <2>1 DEF TryAgain, headVars
  <2>2. CASE GiveUp(x)
    <3>1. Deny(x, sig[x]) /\ pc[x] \in Awaiting /\ req[call[x].lock][x].st # "granted"
      BY <2>2 DEF GiveUp, Retakes, At, Awaiting, MyStatus
    <3>2. call[x].lock \in Lock /\ req[call[x].lock][x].st # "none"
      BY <3>1 DEF WaitInv, TypeInv, TypeOK, Call, RoomToCount
    <3>3. req[call[x].lock][x].st \in Pending
      BY <3>1, <3>2 DEF WaitInv, TypeInv, TypeOK, Request, Status, Pending
    <3>. QED
      BY <3>1, <3>3, DenyModes DEF WaitInv
  <2>3. CASE Granted(x)
    <3>1. RequestsKept /\ gmode' = gmode
      BY <2>3, GrantedEffect DEF Granted, WaitInv
    <3>. QED
      BY <3>1, ModesUntouched
  <2>. QED
    BY <1>4, <2>1, <2>2, <2>3 DEF Wake
<1>5. ASSUME NEW x \in Xct, Sleep(x) \/ End(x) \/ Poison(x)
      PROVE  ModeInv'
  BY <1>1, <1>5 DEF Sleep, Nap, EndNap, End, Poison, headVars
<1>6. CASE \E x \in Xct : Ask(x) \/ Detect(x) \/ Sleep(x) \/ Wake(x) \/ Free(x) \/ Scan(x) \/ End(x)
  BY <1>3, <1>4, <1>5, <1>6, AskModesKept, ScanModes, FreeModes
<1>7. CASE \E x \in Poisonable : Poison(x)
  BY <1>5, <1>7, PoisonAssumption
<1>. QED
  BY <1>2, <1>6, <1>7 DEF Next, Finished, Crashed

\* Two transactions never hold a lock in modes that exclude each other, but for UD beside
\* IS, whatever the interleaving of grants, upgrades, wakeups, timeouts, victims, releases.
THEOREM NoConflict ==
  ASSUME ~Spurious
  PROVE  Spec => []NoConflictingGrants
<1>1. ModeInv => NoConflictingGrants
  BY DEF ModeInv, AgreedAt, Agree, NoConflictingGrants
<1>2. Init => ModeInv
  BY ModeInit
<1>3. (WaitInv /\ OrderInv) /\ (WaitInv /\ OrderInv)' /\ ModeInv /\ [Next]_vars => ModeInv'
  BY ModeStep
<1>. QED
  BY <1>1, <1>2, <1>3, OrderAlways, PTL DEF Spec


-----------------------------------------------------------------------------
(***************************************************************************)
(* The mode of a group, case by case, and what follows for one that grows. *)
(***************************************************************************)
LEMMA GroupModeIs ==
  ASSUME NEW S
  PROVE  GroupMode(S) =
           IF "EX" \in S THEN "EX"
           ELSE IF "SIX" \in S \/ ("SH" \in S /\ "IX" \in S) THEN "SIX"
           ELSE IF "UD" \in S THEN (IF "IX" \in S THEN "EX" ELSE "UD")
           ELSE IF "SH" \in S THEN "SH"
           ELSE IF "IX" \in S THEN "IX"
           ELSE IF "IS" \in S THEN "IS" ELSE "NL"
<1>. DEFINE in(m) == IF m \in S THEN m ELSE "NL"
            g2 == supr[in("IX")][in("IS")]
            g3 == supr[in("SH")][g2]
            g4 == supr[in("SIX")][g3]
            g5 == supr[in("UD")][g4]
<1>1. g2 = IF "IX" \in S THEN "IX" ELSE in("IS")
  BY DEF supr
<1>2. g3 = IF "SH" \in S THEN (IF "IX" \in S THEN "SIX" ELSE "SH") ELSE g2
  <2>. HIDE DEF g2
  <2>. QED BY <1>1 DEF supr
<1>3. g4 = IF "SIX" \in S THEN "SIX" ELSE g3
  <2>. HIDE DEF g2, g3
  <2>. QED BY <1>1, <1>2 DEF supr
<1>4. g5 = IF "UD" \in S THEN (IF g4 = "SIX" THEN "SIX" ELSE IF g4 = "IX" THEN "EX" ELSE "UD") ELSE g4
  <2>. HIDE DEF g2, g3, g4
  <2>. QED BY <1>1, <1>2, <1>3 DEF supr
<1>5. GroupMode(S) = supr[in("EX")][g5]
  BY DEF GroupMode
<1>6. GroupMode(S) = IF "EX" \in S THEN "EX" ELSE g5
  <2>. HIDE DEF g2, g3, g4, g5
  <2>. QED BY <1>1, <1>2, <1>3, <1>4, <1>5 DEF supr
<1>. HIDE DEF g2, g3, g4, g5
<1>. QED
  BY <1>1, <1>2, <1>3, <1>4, <1>6

LEMMA SuprSymmetric == \A a, b \in Mode : supr[a][b] = supr[b][a]
  BY DEF Mode, supr

\* The modes of a group whose members were let in one by one.
Agreeing(S) == \A a, b \in S : a # b => Tolerates(a, b) \/ {a, b} = {"UD", "IS"}

\* Where m may join the group, its supremum with the group and with what is given up for m
\* is the group with m.
LEMMA GroupJoined ==
  ASSUME NEW S, NEW a \in Mode, NEW m \in Mode, GroupMode(S) \in compat[m], Leq(a, m)
  PROVE  GroupMode(S \union {m}) = supr[m][GroupMode(S \union {a})]
<1>1. CASE m = "NL"
  BY <1>1, GroupModeIs DEF Mode, supr, Leq, compat
<1>2. CASE m = "IS"
  BY <1>2, GroupModeIs DEF Mode, supr, Leq, compat
<1>3. CASE m = "IX"
  BY <1>3, GroupModeIs DEF Mode, supr, Leq, compat
<1>4. CASE m = "SH"
  BY <1>4, GroupModeIs DEF Mode, supr, Leq, compat
<1>5. CASE m = "SIX"
  BY <1>5, GroupModeIs DEF Mode, supr, Leq, compat
<1>6. CASE m = "UD"
  BY <1>6, GroupModeIs DEF Mode, supr, Leq, compat
<1>7. CASE m = "EX"
  BY <1>7, GroupModeIs DEF Mode, supr, Leq, compat
<1>. QED
  BY <1>1, <1>2, <1>3, <1>4, <1>5, <1>6, <1>7 DEF Mode

\* The cheap test of an upgrade from a to m: passed, it says what the full one would.
LEMMA GroupUpgraded ==
  ASSUME NEW S, NEW a \in Mode, NEW m \in Mode, Leq(a, m), NEW h \in Mode,
         h = GroupMode(S \union {a}), supr[h][m] \in compat[m]
  PROVE  /\ GroupMode(S) \in compat[m]
         /\ GroupMode(S \union {m}) = supr[supr[h][m]][m]
<1>1. CASE m = "NL"
  BY <1>1, GroupModeIs DEF Mode, supr, Leq, compat
<1>2. CASE m = "IS"
  BY <1>2, GroupModeIs DEF Mode, supr, Leq, compat
<1>3. CASE m = "IX"
  BY <1>3, GroupModeIs DEF Mode, supr, Leq, compat
<1>4. CASE m = "SH"
  BY <1>4, GroupModeIs DEF Mode, supr, Leq, compat
<1>5. CASE m = "SIX"
  BY <1>5, GroupModeIs DEF Mode, supr, Leq, compat
<1>6. CASE m = "UD"
  BY <1>6, GroupModeIs DEF Mode, supr, Leq, compat
<1>7. CASE m = "EX"
  BY <1>7, GroupModeIs DEF Mode, supr, Leq, compat
<1>. QED
  BY <1>1, <1>2, <1>3, <1>4, <1>5, <1>6, <1>7 DEF Mode

\* Whoever may join an agreeing group may join its members, but for UD beside IS with SH.
LEMMA MembersAdmit ==
  ASSUME NEW S, NEW m \in Mode, NEW a \in S \cap Mode, Agreeing(S), GroupMode(S) \in compat[m]
  PROVE  a \in compat[m] \/ (m = "UD" /\ a = "IS" /\ "SH" \in S)
<1>1. CASE m = "NL"
  BY <1>1, GroupModeIs DEF Mode, supr, Leq, compat, Agreeing, Tolerates
<1>2. CASE m = "IS"
  BY <1>2, GroupModeIs DEF Mode, supr, Leq, compat, Agreeing, Tolerates
<1>3. CASE m = "IX"
  BY <1>3, GroupModeIs DEF Mode, supr, Leq, compat, Agreeing, Tolerates
<1>4. CASE m = "SH"
  BY <1>4, GroupModeIs DEF Mode, supr, Leq, compat, Agreeing, Tolerates
<1>5. CASE m = "SIX"
  BY <1>5, GroupModeIs DEF Mode, supr, Leq, compat, Agreeing, Tolerates
<1>6. CASE m = "UD"
  BY <1>6, GroupModeIs DEF Mode, supr, Leq, compat, Agreeing, Tolerates
<1>7. CASE m = "EX"
  BY <1>7, GroupModeIs DEF Mode, supr, Leq, compat, Agreeing, Tolerates
<1>. QED
  BY <1>1, <1>2, <1>3, <1>4, <1>5, <1>6, <1>7 DEF Mode

\* A stronger group refuses all that a weaker one refuses, but for UD and IS.
LEMMA StaysRefused ==
  ASSUME NEW g \in Mode, NEW h \in Mode, NEW w \in Mode \ {"UD", "IS"}, g \notin compat[w], Leq(g, h)
  PROVE  h \notin compat[w]
<1>1. CASE w = "NL"
  BY <1>1, GroupModeIs DEF Mode, supr, Leq, compat
<1>2. CASE w = "IS"
  BY <1>2, GroupModeIs DEF Mode, supr, Leq, compat
<1>3. CASE w = "IX"
  BY <1>3, GroupModeIs DEF Mode, supr, Leq, compat
<1>4. CASE w = "SH"
  BY <1>4, GroupModeIs DEF Mode, supr, Leq, compat
<1>5. CASE w = "SIX"
  BY <1>5, GroupModeIs DEF Mode, supr, Leq, compat
<1>6. CASE w = "UD"
  BY <1>6, GroupModeIs DEF Mode, supr, Leq, compat
<1>7. CASE w = "EX"
  BY <1>7, GroupModeIs DEF Mode, supr, Leq, compat
<1>. QED
  BY <1>1, <1>2, <1>3, <1>4, <1>5, <1>6, <1>7 DEF Mode

\* In an agreeing group the walk may take its members in any order.
LEMMA GroupGrows ==
  ASSUME NEW S, NEW m \in Mode, Agreeing(S \union {m})
  PROVE  GroupMode(S \union {m}) = supr[m][GroupMode(S)] /\ Leq(GroupMode(S), GroupMode(S \union {m}))
<1>1. CASE m = "NL"
  BY <1>1, GroupModeIs DEF Mode, supr, Leq, compat, Agreeing, Tolerates
<1>2. CASE m = "IS"
  BY <1>2, GroupModeIs DEF Mode, supr, Leq, compat, Agreeing, Tolerates
<1>3. CASE m = "IX"
  BY <1>3, GroupModeIs DEF Mode, supr, Leq, compat, Agreeing, Tolerates
<1>4. CASE m = "SH"
  BY <1>4, GroupModeIs DEF Mode, supr, Leq, compat, Agreeing, Tolerates
<1>5. CASE m = "SIX"
  BY <1>5, GroupModeIs DEF Mode, supr, Leq, compat, Agreeing, Tolerates
<1>6. CASE m = "UD"
  BY <1>6, GroupModeIs DEF Mode, supr, Leq, compat, Agreeing, Tolerates
<1>7. CASE m = "EX"
  BY <1>7, GroupModeIs DEF Mode, supr, Leq, compat, Agreeing, Tolerates
<1>. QED
  BY <1>1, <1>2, <1>3, <1>4, <1>5, <1>6, <1>7 DEF Mode

\* A stronger member makes a stronger group.
LEMMA GroupStrengthened ==
  ASSUME NEW S, NEW a \in Mode, NEW m \in Mode, Leq(a, m), Agreeing(S \union {m})
  PROVE  Leq(GroupMode(S \union {a}), GroupMode(S \union {m}))
<1>1. CASE m = "NL"
  BY <1>1, GroupModeIs DEF Mode, supr, Leq, compat, Agreeing, Tolerates
<1>2. CASE m = "IS"
  BY <1>2, GroupModeIs DEF Mode, supr, Leq, compat, Agreeing, Tolerates
<1>3. CASE m = "IX"
  BY <1>3, GroupModeIs DEF Mode, supr, Leq, compat, Agreeing, Tolerates
<1>4. CASE m = "SH"
  BY <1>4, GroupModeIs DEF Mode, supr, Leq, compat, Agreeing, Tolerates
<1>5. CASE m = "SIX"
  BY <1>5, GroupModeIs DEF Mode, supr, Leq, compat, Agreeing, Tolerates
<1>6. CASE m = "UD"
  BY <1>6, GroupModeIs DEF Mode, supr, Leq, compat, Agreeing, Tolerates
<1>7. CASE m = "EX"
  BY <1>7, GroupModeIs DEF Mode, supr, Leq, compat, Agreeing, Tolerates
<1>. QED
  BY <1>1, <1>2, <1>3, <1>4, <1>5, <1>6, <1>7 DEF Mode

LEMMA GroupModeSame ==
  ASSUME NEW S, NEW T, \A m \in Mode \ {"NL"} : m \in S <=> m \in T
  PROVE  GroupMode(S) = GroupMode(T)
  BY GroupModeIs DEF Mode

LEMMA SuprPossible ==
  ASSUME NEW a \in Mode, NEW m \in Mode, m # "NL", supr[m][a] = "UD"
  PROVE  a = "UD" \/ m = "UD"
  BY DEF Mode, supr

LEMMA GroupJoins ==
  ASSUME NEW S, NEW m \in Mode, GroupMode(S) \in compat[m]
  PROVE  GroupMode(S \union {m}) = supr[m][GroupMode(S)]
<1>1. "NL" \in Mode /\ Leq("NL", m)
  BY NLAbsorbed DEF Mode
<1>2. GroupMode(S \union {"NL"}) = GroupMode(S)
  BY GroupModeSame
<1>. QED
  BY <1>1, <1>2, GroupJoined

-----------------------------------------------------------------------------
(***************************************************************************)
(* What a transaction holds of a lock, and what it waits for.              *)
(***************************************************************************)
Has(l, x) == IF Holds(l, x) THEN HeldMode(l, x) ELSE "NL"
Wants(l, x) == IF req[l][x].st \in Pending THEN WantedMode(req[l][x]) ELSE "NL"

Others(l, x) == {Has(l, y) : y \in Xct \ {x}}
Modes(l) == {Has(l, y) : y \in Xct}

\* A mode that requests may come to: a supremum is UD only if one asked for UD.
Possible(m) == m # "NL" /\ (m = "UD" => "UD" \in AskModes)

\* What a request is for is never NL, and what an upgrade waits for is more than it has.
Wish(r) ==
  /\ r.st # "none" => Possible(r.mode)
  /\ r.st = "converting" => Possible(r.cmode) /\ r.cmode # r.mode /\ Leq(r.mode, r.cmode)

WishInv == \A l \in Lock, x \in Xct : Wish(req[l][x])

\* The head's granted mode is that of the holders, neither stronger nor weaker.
ExactInv == \A l \in Lock : gmode[l] = GroupMode(Modes(l))

LEMMA ServiceInit == Init => WishInv /\ ExactInv
<1>. SUFFICES ASSUME Init PROVE WishInv /\ ExactInv
  OBVIOUS
<1>1. \A l \in Lock, x \in Xct : req[l][x] = NoReq
  BY DEF Init
<1>2. WishInv
  BY <1>1 DEF WishInv, Wish, NoReq
<1>3. \A l \in Lock, x \in Xct : Has(l, x) = "NL"
  BY <1>1 DEF Has, Holds, Held, NoReq
<1>4. ExactInv
  <2>. SUFFICES ASSUME NEW l \in Lock PROVE gmode[l] = GroupMode(Modes(l))
    BY DEF ExactInv
  <2>1. \A m \in Mode \ {"NL"} : m \notin Modes(l)
    BY <1>3 DEF Modes
  <2>2. GroupMode(Modes(l)) = GroupMode({})
    BY <2>1, GroupModeSame
  <2>3. GroupMode({}) = "NL"
    BY GroupModeIs
  <2>. QED
    BY <2>2, <2>3 DEF Init
<1>. QED
  BY <1>2, <1>4

LEMMA HasModes ==
  ASSUME TypeOK, NEW l \in Lock, NEW x \in Xct
  PROVE  Has(l, x) \in Mode /\ Wants(l, x) \in Mode
  BY ModeFacts DEF TypeOK, Request, Has, Wants, HeldMode, WantedMode

LEMMA ModesSplit ==
  ASSUME NEW l \in Lock, NEW x \in Xct
  PROVE  Modes(l) = Others(l, x) \union {Has(l, x)}
  BY DEF Modes, Others

\* The walk of granted_mode_other finds all holders but x.
LEMMA WalkFindsHolders ==
  ASSUME NEW q \in Seq(Xct), NEW r \in [Xct -> Request], NEW x,
         \A y \in Xct : In(y, q) <=> r[y].st # "none",
         \A i, j \in 1..Len(q) : i < j /\ r[q[j]].st \in Held => r[q[i]].st \in Held
  PROVE  GrantedModeOther(q, r, x) =
           GroupMode({IF r[y].st \in Held THEN r[y].mode ELSE "NL" : y \in Xct \ {x}})
<1>. DEFINE S == {r[q[i]].mode : i \in {k \in 1..Len(q) :
                    q[k] # x /\ \A j \in 1..k : r[q[j]].st # "waiting"}}
            T == {IF r[y].st \in Held THEN r[y].mode ELSE "NL" : y \in Xct \ {x}}
<1>1. ASSUME NEW m \in Mode \ {"NL"}, m \in S
      PROVE  m \in T
  <2>1. PICK i \in 1..Len(q) : q[i] # x /\ r[q[i]].st # "waiting" /\ r[q[i]].mode = m
    BY <1>1
  <2>2. q[i] \in Xct /\ r[q[i]].st \in Status /\ r[q[i]].st # "none"
    BY DEF In, Request
  <2>3. r[q[i]].st \in Held
    BY <2>1, <2>2 DEF Status, Held
  <2>. QED
    BY <2>1, <2>2, <2>3
<1>2. ASSUME NEW m \in Mode \ {"NL"}, m \in T
      PROVE  m \in S
  <2>1. PICK y \in Xct \ {x} : r[y].st \in Held /\ r[y].mode = m
    BY <1>2
  <2>2. PICK k \in 1..Len(q) : q[k] = y
    BY <2>1 DEF In, Held
  <2>3. \A j \in 1..k : r[q[j]].st # "waiting"
    BY <2>1, <2>2 DEF Held
  <2>. QED
    BY <2>1, <2>2, <2>3
<1>3. GrantedModeOther(q, r, x) = GroupMode(S)
  BY DEF GrantedModeOther
<1>. HIDE DEF S, T
<1>4. GroupMode(S) = GroupMode(T)
  BY <1>1, <1>2, GroupModeSame
<1>. QED
  BY <1>3, <1>4 DEF T

LEMMA OthersFound ==
  ASSUME WaitInv, OrderInv, NEW l \in Lock, NEW x
  PROVE  GrantedModeOther(queue[l], req[l], x) = GroupMode(Others(l, x))
<1>1. /\ queue[l] \in Seq(Xct) /\ req[l] \in [Xct -> Request]
      /\ \A y \in Xct : In(y, queue[l]) <=> req[l][y].st # "none"
  BY DEF WaitInv, TypeInv, TypeOK, Queued
<1>2. \A i, j \in 1..Len(queue[l]) :
        i < j /\ req[l][queue[l][j]].st \in Held => req[l][queue[l][i]].st \in Held
  BY DEF OrderInv, HoldersFirst, Holds
<1>3. Others(l, x) = {IF req[l][y].st \in Held THEN req[l][y].mode ELSE "NL" : y \in Xct \ {x}}
  BY DEF Others, Has, Holds, HeldMode
<1>. QED
  BY <1>1, <1>2, <1>3, WalkFindsHolders

-----------------------------------------------------------------------------
(***************************************************************************)
(* The steps as a caller sees them.                                        *)
(***************************************************************************)
Same(l, x) == Has(l, x)' = Has(l, x) /\ Wants(l, x)' = Wants(l, x)
Only(l, x) == \A k \in Lock, y \in Xct : k # l \/ y # x => Same(k, y)

Untouched == \A k \in Lock, y \in Xct : Same(k, y)

WantsNothing(x) == \A k \in Lock : Wants(k, x) = "NL"

More(l, x, m) == m # Has(l, x) /\ Leq(Has(l, x), m)
Welcome(l, x, m) == GroupMode(Others(l, x)) \in compat[m]

Takes(l, x, m) ==
  /\ Only(l, x) /\ WantsNothing(x) /\ More(l, x, m) /\ Welcome(l, x, m)
  /\ Has(l, x)' = m /\ Wants(l, x)' = "NL"

Starts(l, x, m) ==
  /\ Only(l, x) /\ WantsNothing(x) /\ More(l, x, m)
  /\ Has(l, x)' = Has(l, x) /\ Wants(l, x)' = m

Gets(l, x) ==
  /\ Only(l, x) /\ Wants(l, x) # "NL" /\ More(l, x, Wants(l, x)) /\ Welcome(l, x, Wants(l, x))
  /\ Has(l, x)' = Wants(l, x) /\ Wants(l, x)' = "NL"

Refused(l, x) ==
  /\ Only(l, x) /\ Wants(l, x) # "NL"
  /\ Has(l, x)' = Has(l, x) /\ Wants(l, x)' = "NL"

Dropped(l, x) ==
  /\ Only(l, x) /\ WantsNothing(x) /\ Has(l, x) # "NL"
  /\ Has(l, x)' = "NL" /\ Wants(l, x)' = "NL"
  /\ Release(x, l)

Serves ==
  \/ Untouched
  \/ \E l \in Lock, x \in Xct :
       \/ \E m \in Mode : Takes(l, x, m) \/ Starts(l, x, m)
       \/ Gets(l, x) \/ Refused(l, x) \/ Dropped(l, x)

\* One request changes.
LEMMA SetReqOnly ==
  ASSUME TypeOK, NEW l \in Lock, NEW x \in Xct, NEW r, SetReq(l, x, r)
  PROVE  OnlyRequest(l, x) /\ req'[l][x] = r
  BY DEF TypeOK, SetReq, OnlyRequest

LEMMA GrantedOnly ==
  ASSUME TypeInv, NEW x \in Xct, Granted(x)
  PROVE  RequestsKept /\ gmode' = gmode /\ OnlyRequest(call[x].lock, x)
<1>1. TypeOK /\ call[x].lock \in Lock
  BY DEF TypeInv, TypeOK, Call
<1>2. OnlyRequest(call[x].lock, x)
  BY <1>1, SetReqOnly DEF Granted
<1>3. gmode' = gmode
  BY DEF Granted
<1>. QED
  BY <1>2, <1>3, GrantedEffect

LEMMA OnlyOne ==
  ASSUME WishInv, NEW l \in Lock, NEW x \in Xct, OnlyRequest(l, x)
  PROVE  /\ Only(l, x)
         /\ Wish(req[l][x])' => WishInv'
         /\ Others(l, x)' = Others(l, x)
<1>1. Only(l, x)
  BY DEF OnlyRequest, Only, Same, Has, Wants, Holds, HeldMode
<1>2. Wish(req[l][x])' => WishInv'
  BY DEF OnlyRequest, WishInv, Wish
<1>3. Others(l, x)' = Others(l, x)
  BY <1>1 DEF Others, Only, Same
<1>. QED
  BY <1>1, <1>2, <1>3

LEMMA ExactChanged ==
  ASSUME ExactInv, NEW l \in Lock, NEW x \in Xct, Only(l, x),
         gmode'[l] = GroupMode(Others(l, x) \union {Has(l, x)'}),
         \A k \in Lock \ {l} : gmode'[k] = gmode[k]
  PROVE  ExactInv'
<1>. SUFFICES ASSUME NEW k \in Lock PROVE gmode'[k] = GroupMode(Modes(k)')
  BY DEF ExactInv, GroupMode
<1>1. CASE k = l
  <2>1. Modes(l)' = Others(l, x) \union {Has(l, x)'}
    BY DEF Modes, Others, Only, Same
  <2>. QED
    BY <1>1, <2>1
<1>2. CASE k # l
  <2>1. Modes(k)' = Modes(k)
    BY <1>2 DEF Modes, Only, Same
  <2>. QED
    BY <1>2, <2>1 DEF ExactInv
<1>. QED
  BY <1>1, <1>2

LEMMA ExactKept ==
  ASSUME ExactInv, \A k \in Lock, y \in Xct : Has(k, y)' = Has(k, y), gmode' = gmode
  PROVE  ExactInv'
<1>1. \A k \in Lock : Modes(k)' = Modes(k)
  BY DEF Modes
<1>. QED
  BY <1>1 DEF ExactInv, GroupMode

\* A request is only counted once more, or less.
LEMMA CountServes ==
  ASSUME WishInv, ExactInv, NEW l \in Lock, NEW x \in Xct, OnlyRequest(l, x), RequestsKept,
         req[l][x].st \notin Pending, gmode' = gmode
  PROVE  Untouched /\ WishInv' /\ ExactInv'
<1>1. Same(l, x)
  BY DEF RequestsKept, Same, Has, Wants, Holds, HeldMode
<1>2. Untouched
  BY <1>1, OnlyOne DEF Untouched, Only
<1>3. WishInv'
  BY OnlyOne DEF RequestsKept, WishInv, Wish, Pending
<1>. QED
  BY <1>2, <1>3, ExactKept DEF Untouched, Same

LEMMA NothingChanges ==
  ASSUME WishInv, ExactInv, UNCHANGED <<req, gmode>>
  PROVE  Untouched /\ WishInv' /\ ExactInv'
<1>1. Untouched
  BY DEF Untouched, Same, Has, Wants, Holds, HeldMode
<1>. QED
  BY <1>1, ExactKept DEF Untouched, Same, WishInv, Wish

LEMMA AskServes ==
  ASSUME WaitInv, OrderInv, WishInv, ExactInv, NEW x \in Xct, Ask(x)
  PROVE  Serves /\ WishInv' /\ ExactInv'
<1>0. PICK l \in Lock, m \in AskModes, d \in Durations :
        \/ Reacquire(x, l, m, d)
        \/ Upgrade(x, l, m, d)
        \/ Grant(x, l, m, d)
        \/ \E p \in Patience : AwaitUpgrade(x, l, m, d, p) \/ AwaitGrant(x, l, m, d, p)
  BY DEF Ask
<1>. DEFINE mode == NewMode(l, x, m)
<1>1. TypeOK /\ m \in Mode /\ m # "NL" /\ mode \in Mode /\ gmode[l] \in Mode
  BY AskedTypes, AskAssumption DEF WaitInv, TypeInv, TypeOK
<1>2. /\ \A k \in Lock : req[k][x].st \notin Pending
      /\ WantsNothing(x)
  <2>1. pc[x] = "idle"
    BY <1>0 DEF Reacquire, Upgrade, Grant, AwaitUpgrade, AwaitGrant, CanAsk, At
  <2>. QED
    BY <2>1 DEF WaitInv, PendingAwaits, Awaiting, WantsNothing, Wants
<1>3. gmode[l] = GroupMode(Others(l, x) \union {Has(l, x)})
  BY ModesSplit DEF ExactInv
<1>4. Has(l, x) \in Mode
  BY <1>1, HasModes
<1>5. req[l][x].st # "none" =>
        /\ req[l][x].st = "granted" /\ Has(l, x) = req[l][x].mode
        /\ req[l][x].mode \in Mode /\ Leq(req[l][x].mode, mode)
  <2>1. req[l][x].st # "none" => req[l][x].st = "granted"
    BY <1>1, <1>2 DEF TypeOK, Request, Status, Pending
  <2>2. req[l][x].mode \in Mode
    BY <1>1 DEF TypeOK, Request
  <2>. QED
    BY <1>1, <2>1, <2>2, SuprAbsorbs DEF Has, Holds, Held, HeldMode, NewMode
<1>6. req[l][x].st = "none" => Has(l, x) = "NL"
  BY DEF Has, Holds, Held
<1>12. req[l][x].st # "none" /\ mode # "NL" => Possible(mode)
  <2>1. Wish(req[l][x]) /\ req[l][x].mode \in Mode
    BY <1>1 DEF WishInv, TypeOK, Request
  <2>2. mode = "UD" => req[l][x].mode = "UD" \/ m = "UD"
    BY <1>1, <2>1, SuprPossible DEF NewMode
  <2>. HIDE DEF mode
  <2>. QED
    BY <2>1, <2>2 DEF Wish, Possible
<1>7. CASE Reacquire(x, l, m, d)
  <2>1. RequestsKept /\ gmode' = gmode
    BY <1>1, <1>7, ReacquireEffect DEF Reacquire
  <2>2. OnlyRequest(l, x)
    BY <1>1, <1>7, SetReqOnly DEF Reacquire
  <2>. QED
    BY <1>2, <2>1, <2>2, CountServes DEF Serves
<1>8. CASE Upgrade(x, l, m, d)
  <2>. DEFINE rest == Others(l, x)
              has == Has(l, x)
              g == OthersMode(l, x, mode)
  <2>0. has \in Mode
    BY <1>4
  <2>1. /\ OnlyRequest(l, x) /\ req'[l][x].st = "granted" /\ req'[l][x].mode = mode
        /\ has = req[l][x].mode /\ mode # has /\ g \in compat[mode] /\ Leq(has, mode)
        /\ gmode'[l] = supr[g][mode] /\ \A k \in Lock \ {l} : gmode'[k] = gmode[k]
    BY <1>1, <1>5, <1>8, UpgradeEffect DEF Upgrade, TypeOK
  <2>2. /\ GroupMode(rest) \in compat[mode]
        /\ GroupMode(rest \union {mode}) = supr[g][mode]
    <3>1. CASE supr[gmode[l]][mode] \in compat[mode]
      <4>1. g = supr[gmode[l]][mode]
        BY <3>1 DEF OthersMode
      <4>2. /\ has \in Mode /\ mode \in Mode /\ Leq(has, mode) /\ gmode[l] \in Mode
            /\ gmode[l] = GroupMode(rest \union {has})
        BY <1>1, <1>3, <2>0, <2>1
      <4>. HIDE DEF g, has, rest, mode
      <4>. QED
        BY <3>1, <4>1, <4>2, GroupUpgraded
    <3>2. CASE supr[gmode[l]][mode] \notin compat[mode]
      <4>1. g = GroupMode(rest)
        BY <3>2, OthersFound DEF OthersMode
      <4>. HIDE DEF g, has, rest, mode
      <4>2. GroupMode(rest \union {mode}) = supr[mode][g]
        BY <1>1, <2>1, <4>1, GroupJoins
      <4>. QED
        BY <1>1, <2>1, <4>1, <4>2, SuprSymmetric, GroupModeIsMode
    <3>. HIDE DEF g, has, rest, mode
    <3>. QED
      BY <3>1, <3>2
  <2>3. Has(l, x)' = mode /\ Wants(l, x)' = "NL"
    BY <2>1 DEF Has, Holds, Held, HeldMode, Wants, Pending
  <2>4. Only(l, x)
    BY <2>1, OnlyOne
  <2>5. Takes(l, x, mode)
    BY <1>2, <2>1, <2>2, <2>3, <2>4 DEF Takes, More, Welcome
  <2>6. WishInv'
    <3>1. mode # "NL"
      BY <1>4, <2>1 DEF Mode, supr, Leq
    <3>2. req[l][x].st # "none"
      BY <1>8 DEF Upgrade
    <3>3. Possible(mode)
      BY <1>12, <3>1, <3>2
    <3>. QED
      BY <2>1, <3>3, OnlyOne DEF Wish
  <2>7. ExactInv'
    BY <2>1, <2>2, <2>3, <2>4, ExactChanged
  <2>. QED
    BY <1>1, <2>5, <2>6, <2>7 DEF Serves
<1>9. CASE Grant(x, l, m, d)
  <2>1. /\ OnlyRequest(l, x) /\ req'[l][x].st = "granted" /\ req'[l][x].mode = m
        /\ req[l][x].st = "none" /\ gmode[l] \in compat[m]
        /\ gmode'[l] = supr[m][gmode[l]] /\ \A k \in Lock \ {l} : gmode'[k] = gmode[k]
    BY <1>1, <1>9, GrantEffect DEF Grant, Joins, TypeOK
  <2>2. gmode[l] = GroupMode(Others(l, x))
    BY <1>3, <1>6, <2>1, GroupModeSame
  <2>3. Has(l, x)' = m /\ Wants(l, x)' = "NL"
    BY <2>1 DEF Has, Holds, Held, HeldMode, Wants, Pending
  <2>4. Only(l, x)
    BY <2>1, OnlyOne
  <2>5. Takes(l, x, m)
    BY <1>1, <1>2, <1>6, <2>1, <2>2, <2>3, <2>4, NLAbsorbed DEF Takes, More, Welcome
  <2>6. WishInv'
    BY <1>1, <2>1, OnlyOne DEF Wish, Possible
  <2>7. ExactInv'
    BY <1>1, <2>1, <2>2, <2>3, <2>4, GroupJoins, ExactChanged
  <2>. QED
    BY <1>1, <2>5, <2>6, <2>7 DEF Serves
<1>10. ASSUME NEW p \in Patience, AwaitUpgrade(x, l, m, d, p)
       PROVE  Serves /\ WishInv' /\ ExactInv'
  <2>. DEFINE c == [req[l][x] EXCEPT !.st = "converting", !.cmode = mode]
  <2>1. /\ SetReq(l, x, c) /\ gmode' = gmode
        /\ req[l][x].st # "none" /\ mode # req[l][x].mode
    BY <1>10 DEF AwaitUpgrade, StartWait
  <2>2. c.st = "converting" /\ c.mode = req[l][x].mode /\ c.cmode = mode
    BY <1>1 DEF TypeOK, Request
  <2>. HIDE DEF c, mode
  <2>3. /\ OnlyRequest(l, x) /\ req'[l][x].st = "converting"
        /\ req'[l][x].mode = req[l][x].mode /\ req'[l][x].cmode = mode
    BY <1>1, <2>1, <2>2, SetReqOnly
  <2>4. Has(l, x)' = Has(l, x) /\ Wants(l, x)' = mode
    BY <1>5, <2>1, <2>3 DEF Has, Holds, Held, HeldMode, Wants, WantedMode, Pending
  <2>5. Starts(l, x, mode)
    BY <1>2, <1>5, <2>1, <2>3, <2>4, OnlyOne DEF Starts, More
  <2>6. WishInv'
    <3>1. Possible(mode)
      BY <1>1, <1>5, <1>12, <2>1 DEF Mode, supr, Leq
    <3>. QED
      BY <1>5, <2>1, <2>3, <3>1, OnlyOne DEF Wish, WishInv
  <2>7. ExactInv'
    BY <2>1, <2>5, ExactKept DEF Starts, Only, Same
  <2>. QED
    BY <1>1, <2>5, <2>6, <2>7 DEF Serves
<1>11. ASSUME NEW p \in Patience, AwaitGrant(x, l, m, d, p)
       PROVE  Serves /\ WishInv' /\ ExactInv'
  <2>. DEFINE c == [NoReq EXCEPT !.st = "waiting", !.mode = m, !.long = d]
  <2>1. SetReq(l, x, c) /\ gmode' = gmode /\ req[l][x].st = "none"
    BY <1>11 DEF AwaitGrant, StartWait
  <2>2. c.st = "waiting" /\ c.mode = m
    BY DEF NoReq
  <2>. HIDE DEF c
  <2>3. OnlyRequest(l, x) /\ req'[l][x].st = "waiting" /\ req'[l][x].mode = m
    BY <1>1, <2>1, <2>2, SetReqOnly
  <2>4. Has(l, x)' = Has(l, x) /\ Wants(l, x)' = m
    BY <1>6, <2>1, <2>3 DEF Has, Holds, Held, HeldMode, Wants, WantedMode, Pending
  <2>5. Starts(l, x, m)
    BY <1>1, <1>2, <1>6, <2>1, <2>3, <2>4, OnlyOne, NLAbsorbed DEF Starts, More
  <2>6. WishInv'
    BY <1>1, <2>3, OnlyOne DEF Wish, Possible
  <2>7. ExactInv'
    BY <2>1, <2>5, ExactKept DEF Starts, Only, Same
  <2>. QED
    BY <1>1, <2>5, <2>6, <2>7 DEF Serves
<1>. QED
  BY <1>0, <1>7, <1>8, <1>9, <1>10, <1>11

\* x's wait for l fails.
LEMMA DenyServes ==
  ASSUME WaitInv, OrderInv, WishInv, ExactInv, NEW x \in Xct, pc[x] \in Awaiting, NEW e,
         Deny(x, e), req[call[x].lock][x].st \in Pending
  PROVE  Serves /\ WishInv' /\ ExactInv'
<1>0. PICK l \in Lock : l = call[x].lock
  BY DEF WaitInv, TypeInv, TypeOK, Call
<1>1. TypeOK /\ TypeInv /\ req[l][x].st \in Pending
  BY <1>0 DEF WaitInv, TypeInv
<1>2. /\ OnlyRequest(l, x)
      /\ req[l][x].st = "waiting" => req'[l][x].st = "none"
      /\ req[l][x].st # "waiting" =>
           req'[l][x].st = "granted" /\ req'[l][x].mode = req[l][x].mode
  BY <1>0, <1>1, DenyEffect
<1>3. Wants(l, x) # "NL"
  <2>1. Wish(req[l][x]) /\ req[l][x].st \in {"waiting", "converting"}
    BY <1>1 DEF WishInv, Pending
  <2>2. req[l][x].mode \in Mode /\ req[l][x].cmode \in Mode
    BY <1>1 DEF TypeOK, Request
  <2>3. req[l][x].st = "converting" => req[l][x].cmode # "NL"
    BY <2>1, <2>2 DEF Wish, Mode, supr, Leq
  <2>. QED
    BY <1>1, <2>1, <2>3 DEF Wants, WantedMode, Wish, Possible
<1>4. Has(l, x)' = Has(l, x) /\ Wants(l, x)' = "NL"
  BY <1>1, <1>2 DEF Has, Wants, Holds, Held, HeldMode, Pending
<1>5. Refused(l, x)
  BY <1>2, <1>3, <1>4, OnlyOne DEF Refused
<1>6. WishInv'
  <2>1. Wish(req[l][x])'
    BY <1>1, <1>2 DEF WishInv, Wish, Pending
  <2>. QED
    BY <1>2, <2>1, OnlyOne
<1>7. ExactInv'
  <2>. DEFINE q == IF req[l][x].st = "waiting" THEN Detach(queue[l], x) ELSE queue[l]
  <2>1. gmode' = [gmode EXCEPT ![l] = IF e = "dead" /\ q = <<>> THEN "NL" ELSE @]
    BY <1>0, Zenon DEF Deny
  <2>2. CASE q = <<>>
    <3>1. \A y \in Xct : Has(l, y) = "NL"
      <4>. SUFFICES ASSUME NEW y \in Xct, req[l][y].st \in Held PROVE FALSE
        BY DEF Has, Holds
      <4>1. queue[l] \in Seq(Xct) /\ NoDuplicates(queue[l]) /\ In(y, queue[l])
        BY <1>1 DEF TypeInv, TypeOK, Queued, Held
      <4>2. CASE req[l][x].st = "waiting"
        <5>1. In(x, queue[l]) /\ y # x
          BY <1>1, <4>2 DEF TypeInv, Queued, Held
        <5>2. In(y, Detach(queue[l], x))
          BY <4>1, <5>1, DetachElements
        <5>. QED
          BY <2>2, <4>2, <5>2 DEF In
      <4>3. CASE req[l][x].st # "waiting"
        BY <2>2, <4>1, <4>3 DEF In
      <4>. QED
        BY <4>2, <4>3
    <3>2. GroupMode(Modes(l)) = "NL"
      <4>1. \A m \in Mode \ {"NL"} : m \notin Modes(l)
        BY <3>1 DEF Modes
      <4>. QED
        BY <4>1, GroupModeIs DEF Mode
    <3>3. gmode' = gmode
      BY <1>1, <2>1, <3>2 DEF ExactInv, TypeOK
    <3>. QED
      BY <1>5, <3>3, ExactKept DEF Refused, Only, Same
  <2>3. CASE q # <<>>
    <3>1. gmode' = gmode
      BY <1>1, <2>1, <2>3 DEF TypeOK
    <3>. QED
      BY <1>5, <3>1, ExactKept DEF Refused, Only, Same
  <2>. QED
    BY <2>2, <2>3
<1>. QED
  BY <1>5, <1>6, <1>7 DEF Serves

LEMMA ScanServes ==
  ASSUME WaitInv, OrderInv, WishInv, ExactInv, NEW x \in Xct, Scan(x)
  PROVE  Serves /\ WishInv' /\ ExactInv'
<1>0. PICK l \in Lock : l = call[x].lock
  BY DEF WaitInv, TypeInv, TypeOK, Call
<1>1. TypeOK /\ TypeInv
  BY DEF WaitInv, TypeInv
<1>2. CASE ScanGrant(x)
  <2>1. PICK i \in 1..Len(queue[l]) :
          LET y == queue[l][i]
          IN  /\ CanConvert(x, y) \/ CanJoin(x, y)
              /\ OnlyRequest(l, y)
              /\ req'[l][y].st = "granted"
              /\ req'[l][y].mode = WantedMode(req[l][y])
              /\ gmode' = [gmode EXCEPT ![l] = supr[WantedMode(req[l][y])][@]]
    BY <1>0, <1>1, <1>2, ScanGrantEffect
  <2>2. PICK y \in Xct : y = queue[l][i]
    BY <1>1 DEF TypeOK
  <2>. DEFINE want == WantedMode(req[l][y])
              rest == Others(l, y)
              has == Has(l, y)
  <2>3. /\ CanConvert(x, y) \/ CanJoin(x, y)
        /\ OnlyRequest(l, y) /\ req'[l][y].st = "granted" /\ req'[l][y].mode = want
        /\ gmode'[l] = supr[want][gmode[l]] /\ \A k \in Lock \ {l} : gmode'[k] = gmode[k]
    BY <1>1, <2>1, <2>2 DEF TypeOK
  <2>4. Wish(req[l][y]) /\ req[l][y].mode \in Mode /\ req[l][y].cmode \in Mode /\ has \in Mode
    BY <1>1, HasModes DEF WishInv, TypeOK, Request
  <2>5. /\ want \in Mode /\ want # "NL" /\ want # has /\ Leq(has, want) /\ Wants(l, y) = want
        /\ GroupMode(rest) \in compat[want]
    <3>1. CASE CanConvert(x, y)
      <4>1. req[l][y].st = "converting" /\ GroupMode(rest) \in compat[req[l][y].cmode]
        BY <1>0, <3>1, OthersFound DEF CanConvert
      <4>2. want = req[l][y].cmode /\ has = req[l][y].mode /\ Wants(l, y) = want
        BY <4>1 DEF WantedMode, Has, Holds, Held, HeldMode, Wants, Pending
      <4>3. want # has /\ Leq(has, want)
        BY <2>4, <4>1, <4>2 DEF Wish
      <4>. HIDE DEF want, has, rest
      <4>4. want \in Mode /\ want # "NL"
        BY <2>4, <4>2, <4>3 DEF Mode, supr, Leq
      <4>. QED
        BY <4>1, <4>2, <4>3, <4>4
    <3>2. CASE CanJoin(x, y)
      <4>1. req[l][y].st = "waiting" /\ gmode[l] \in compat[req[l][y].mode]
        BY <1>0, <3>2 DEF CanJoin
      <4>2. want = req[l][y].mode /\ has = "NL" /\ Wants(l, y) = want /\ want # "NL"
        BY <2>4, <4>1 DEF WantedMode, Has, Holds, Held, Wants, Pending, Wish, Possible
      <4>3. gmode[l] = GroupMode(rest)
        <5>1. Modes(l) = rest \union {"NL"}
          BY <4>2, ModesSplit
        <5>. QED
          BY <5>1, GroupModeSame DEF ExactInv
      <4>. QED
        BY <2>4, <4>1, <4>2, <4>3, NLAbsorbed
    <3>. QED
      BY <2>3, <3>1, <3>2
  <2>10. Possible(want)
    BY <1>0, <2>3, <2>4 DEF Wish, WantedMode, CanConvert, CanJoin
  <2>6. Has(l, y)' = want /\ Wants(l, y)' = "NL"
    BY <2>3 DEF Has, Holds, Held, HeldMode, Wants, Pending
  <2>7. Gets(l, y)
    BY <2>3, <2>5, <2>6, OnlyOne DEF Gets, More, Welcome
  <2>8. WishInv'
    BY <2>3, <2>10, OnlyOne DEF Wish
  <2>9. ExactInv'
    <3>1. gmode[l] = GroupMode(rest \union {has})
      BY ModesSplit DEF ExactInv
    <3>2. GroupMode(rest \union {want}) = supr[want][gmode[l]]
      <4>1. has \in Mode /\ want \in Mode /\ Leq(has, want) /\ GroupMode(rest) \in compat[want]
        BY <2>4, <2>5
      <4>. HIDE DEF want, has, rest
      <4>2. GroupMode(rest \union {want}) = supr[want][GroupMode(rest \union {has})]
        BY <4>1, GroupJoined
      <4>. QED
        BY <3>1, <4>2
    <3>. QED
      BY <2>3, <2>6, <3>2, OnlyOne, ExactChanged
  <2>. QED
    BY <2>7, <2>8, <2>9 DEF Serves
<1>3. CASE ScanPass(x) \/ ScanEnd(x)
  BY <1>3, NothingChanges DEF ScanPass, ScanEnd, headVars, Serves
<1>. QED
  BY <1>2, <1>3 DEF Scan

LEMMA FreeServes ==
  ASSUME WaitInv, OrderInv, WishInv, ExactInv, WaitInv', OrderInv', NEW x \in Xct, Free(x)
  PROVE  Serves /\ WishInv' /\ ExactInv'
<1>1. PICK l \in Lock : Uncount(x, l) \/ Release(x, l)
  BY DEF Free
<1>2. TypeOK
  BY DEF WaitInv, TypeInv
<1>3. \A k \in Lock : req[k][x].st \notin Pending
  BY <1>1 DEF Uncount, Release, CanRelease, At, WaitInv, PendingAwaits, Awaiting
<1>4. CASE Uncount(x, l)
  <2>1. RequestsKept /\ gmode' = gmode /\ OnlyRequest(l, x)
    BY <1>2, <1>4, UncountEffect, SetReqOnly DEF Uncount
  <2>. QED
    BY <1>3, <2>1, CountServes DEF Serves
<1>5. CASE Release(x, l)
  <2>1. OnlyRequest(l, x) /\ req'[l][x].st = "none"
    BY <1>2, <1>5, ReleaseEffect
  <2>2. /\ gmode'[l] = GrantedModeOther(queue'[l], req'[l], NoXct)
        /\ \A k \in Lock \ {l} : gmode'[k] = gmode[k]
    BY <1>2, <1>5 DEF Release, TypeOK
  <2>3. Has(l, x)' = "NL" /\ Wants(l, x)' = "NL"
    BY <2>1 DEF Has, Holds, Held, Wants, Pending
  <2>4. Has(l, x) # "NL"
    <3>1. req[l][x].st # "none" /\ req[l][x].st \in Status /\ Wish(req[l][x])
      BY <1>2, <1>5 DEF Release, CanRelease, TypeOK, Request, WishInv
    <3>. QED
      BY <1>3, <3>1 DEF Status, Pending, Held, Has, Holds, HeldMode, Wish, Possible
  <2>5. Dropped(l, x)
    BY <1>3, <1>5, <2>1, <2>3, <2>4, OnlyOne DEF Dropped, WantsNothing, Wants
  <2>6. WishInv'
    BY <2>1, OnlyOne DEF Wish
  <2>7. ExactInv'
    <3>. DEFINE T == {IF req'[l][y].st \in Held THEN req'[l][y].mode ELSE "NL" : y \in Xct \ {NoXct}}
    <3>1. /\ queue'[l] \in Seq(Xct) /\ req'[l] \in [Xct -> Request]
          /\ \A y \in Xct : In(y, queue'[l]) <=> req'[l][y].st # "none"
      BY DEF WaitInv, TypeInv, TypeOK, Queued, In
    <3>2. \A i, j \in 1..Len(queue'[l]) :
            i < j /\ req'[l][queue'[l][j]].st \in Held => req'[l][queue'[l][i]].st \in Held
      BY DEF OrderInv, HoldersFirst, Holds
    <3>3. gmode'[l] = GroupMode(T)
      BY <2>2, <3>1, <3>2, WalkFindsHolders
    <3>4. T = Others(l, x) \union {Has(l, x)'}
      <4>1. Xct \ {NoXct} = Xct
        BY XctAssumption
      <4>2. T = {Has(l, y)' : y \in Xct}
        BY <4>1 DEF Has, Holds, HeldMode
      <4>3. \A y \in Xct \ {x} : Has(l, y)' = Has(l, y)
        BY <2>5 DEF Dropped, Only, Same
      <4>. HIDE DEF T
      <4>. QED
        BY <4>2, <4>3 DEF Others
    <3>. QED
      BY <2>2, <2>5, <3>3, <3>4, ExactChanged DEF Dropped
  <2>. QED
    BY <2>5, <2>6, <2>7 DEF Serves
<1>. QED
  BY <1>1, <1>4, <1>5

LEMMA ServiceStep ==
  WaitInv /\ OrderInv /\ WaitInv' /\ OrderInv' /\ WishInv /\ ExactInv /\ [Next]_vars
    => Serves /\ WishInv' /\ ExactInv'
<1>. SUFFICES ASSUME WaitInv, OrderInv, WaitInv', OrderInv', WishInv, ExactInv, [Next]_vars
              PROVE  Serves /\ WishInv' /\ ExactInv'
  OBVIOUS
<1>1. ASSUME UNCHANGED <<req, gmode>>
      PROVE  Serves /\ WishInv' /\ ExactInv'
  BY <1>1, NothingChanges DEF Serves
<1>2. CASE UNCHANGED vars
  BY <1>1, <1>2 DEF vars, headVars
<1>3. ASSUME NEW x \in Xct, Detect(x)
      PROVE  Serves /\ WishInv' /\ ExactInv'
  <2>1. CASE DldSelf(x)
    <3>1. Deny(x, "dead") /\ pc[x] = "dld"
      BY <2>1 DEF DldSelf, NextAwaited, At
    <3>. QED
      BY <3>1, DenyServes DEF Awaiting, OrderInv, Detecting
  <2>2. CASE DldMerge(x) \/ DldOther(x) \/ DldKill(x) \/ DldDone(x)
    BY <1>1, <2>2 DEF DldMerge, DldOther, DldKill, DldDone, headVars
  <2>. QED
    BY <1>3, <2>1, <2>2 DEF Detect
<1>4. ASSUME NEW x \in Xct, Wake(x)
      PROVE  Serves /\ WishInv' /\ ExactInv'
  <2>0. PICK l \in Lock : l = call[x].lock
    BY DEF WaitInv, TypeInv, TypeOK, Call
  <2>1. CASE TryAgain(x)
    BY <1>1, <2>1 DEF TryAgain, headVars
  <2>2. CASE GiveUp(x)
    <3>1. Deny(x, sig[x]) /\ pc[x] \in Awaiting /\ req[l][x].st # "granted"
      BY <2>0, <2>2 DEF GiveUp, Retakes, At, Awaiting, MyStatus
    <3>2. req[l][x].st # "none"
      BY <2>0, <3>1 DEF WaitInv, TypeInv, RoomToCount
    <3>3. req[l][x].st \in Pending
      BY <3>1, <3>2 DEF WaitInv, TypeInv, TypeOK, Request, Status, Pending
    <3>. QED
      BY <2>0, <3>1, <3>3, DenyServes
  <2>3. CASE Granted(x)
    <3>1. RequestsKept /\ gmode' = gmode /\ OnlyRequest(l, x)
      BY <2>0, <2>3, GrantedOnly DEF WaitInv
    <3>2. req[l][x].st = "granted"
      BY <2>0, <2>3 DEF Granted, MyStatus, WaitInv, Told
    <3>. QED
      BY <3>1, <3>2, CountServes DEF Serves, Pending
  <2>. QED
    BY <1>4, <2>1, <2>2, <2>3 DEF Wake
<1>5. ASSUME NEW x \in Xct, Sleep(x) \/ End(x) \/ Poison(x)
      PROVE  Serves /\ WishInv' /\ ExactInv'
  BY <1>1, <1>5 DEF Sleep, Nap, EndNap, End, Poison, headVars
<1>6. CASE \E x \in Xct : Ask(x) \/ Detect(x) \/ Sleep(x) \/ Wake(x) \/ Free(x) \/ Scan(x) \/ End(x)
  BY <1>3, <1>4, <1>5, <1>6, AskServes, ScanServes, FreeServes
<1>7. CASE \E x \in Poisonable : Poison(x)
  BY <1>5, <1>7, PoisonAssumption
<1>. QED
  BY <1>2, <1>6, <1>7 DEF Next, Finished, Crashed

-----------------------------------------------------------------------------
CoreInv == WaitInv /\ OrderInv /\ ModeInv /\ WishInv /\ ExactInv

LEMMA CoreInit == Init => CoreInv
  BY WaitInit, OrderInit, ModeInit, ServiceInit DEF CoreInv

LEMMA CoreStep == ~Spurious /\ CoreInv /\ [Next]_vars => CoreInv' /\ Serves
<1>. SUFFICES ASSUME ~Spurious, CoreInv, [Next]_vars PROVE CoreInv' /\ Serves
  OBVIOUS
<1>1. WaitInv'
  BY WaitStep DEF CoreInv
<1>2. OrderInv'
  BY <1>1, OrderStep DEF CoreInv
<1>3. ModeInv'
  BY <1>1, <1>2, ModeStep DEF CoreInv
<1>4. Serves /\ WishInv' /\ ExactInv'
  BY <1>1, <1>2, ServiceStep DEF CoreInv
<1>. QED
  BY <1>1, <1>2, <1>3, <1>4 DEF CoreInv

LEMMA CoreAlways ==
  ASSUME ~Spurious
  PROVE  Spec => []CoreInv
<1>1. CoreInv /\ [Next]_vars => CoreInv'
  BY CoreStep
<1>. QED
  BY <1>1, CoreInit, PTL DEF Spec

\* Nobody but the owner weakens or drops a lock.
THEOREM HoldersKeep ==
  ASSUME ~Spurious
  PROVE  Spec => HoldersKeepTheirs
<1>. DEFINE Keeps == \A l \in Lock, x \in Xct :
                       Holds(l, x) =>
                         \/ Holds(l, x)' /\ Leq(HeldMode(l, x), HeldMode(l, x)')
                         \/ Release(x, l)
<1>1. CoreInv /\ [Next]_vars => [Keeps]_vars
  <2>. SUFFICES ASSUME CoreInv, [Next]_vars, NEW l \in Lock, NEW x \in Xct, Holds(l, x),
                       ~Release(x, l)
                PROVE  Holds(l, x)' /\ Leq(HeldMode(l, x), HeldMode(l, x)')
    OBVIOUS
  <2>1. Serves
    BY CoreStep
  <2>2. HeldMode(l, x) \in Mode /\ HeldMode(l, x) = Has(l, x) /\ Has(l, x) # "NL"
    BY DEF CoreInv, WaitInv, TypeInv, TypeOK, Request, WishInv, Wish, Possible, Has, Holds, Held, HeldMode
  <2>3. Has(l, x)' = Has(l, x) \/ More(l, x, Has(l, x)')
    BY <2>1 DEF Serves, Untouched, Takes, Starts, Gets, Refused, Dropped, Only, Same
  <2>4. Leq(Has(l, x), Has(l, x)')
    BY <2>2, <2>3, SuprIdempotent DEF More
  <2>5. Has(l, x)' # "NL"
    BY <2>2, <2>4 DEF Leq, Mode, supr
  <2>. QED
    BY <2>2, <2>4, <2>5 DEF Has
<1>. QED
  BY <1>1, CoreAlways, PTL DEF Spec, HoldersKeepTheirs

-----------------------------------------------------------------------------
(***************************************************************************)
(* The lock core implements LockService: held and want are Has and Wants   *)
(* as functions, and each kind of step is an action of the service.        *)
(***************************************************************************)
HeldNow == [l \in Lock |-> [x \in Xct |-> Has(l, x)]]
WantNow == [l \in Lock |-> [x \in Xct |-> Wants(l, x)]]

LEMMA ModesAgree ==
  ASSUME TypeOK, ModeInv, NEW l \in Lock
  PROVE  Agreeing(Modes(l)) /\ Modes(l) \subseteq Mode
<1>1. Modes(l) \subseteq Mode
  BY HasModes DEF Modes
<1>2. ASSUME NEW a \in Modes(l), NEW b \in Modes(l), a # b
      PROVE  Tolerates(a, b) \/ {a, b} = {"UD", "IS"}
  <2>1. PICK y \in Xct : a = Has(l, y)
    BY DEF Modes
  <2>2. PICK z \in Xct : b = Has(l, z)
    BY DEF Modes
  <2>3. y # z
    BY <1>2, <2>1, <2>2
  <2>4. CASE Holds(l, y) /\ Holds(l, z)
    BY <2>1, <2>2, <2>3, <2>4 DEF Has, ModeInv, AgreedAt, Agree
  <2>5. CASE ~(Holds(l, y) /\ Holds(l, z))
    BY <1>1, <2>1, <2>2, <2>5 DEF Has, Tolerates, compat
  <2>. QED
    BY <2>4, <2>5
<1>. QED
  BY <1>1, <1>2 DEF Agreeing

LEMMA AgreeingPart ==
  ASSUME NEW S, NEW T, T \subseteq S, Agreeing(S)
  PROVE  Agreeing(T)
  BY DEF Agreeing

LEMMA OthersAgree ==
  ASSUME TypeOK, ModeInv, NEW l \in Lock, NEW x \in Xct
  PROVE  Agreeing(Others(l, x)) /\ Others(l, x) \subseteq Mode
<1>1. Others(l, x) \subseteq Modes(l)
  BY DEF Others, Modes
<1>. QED
  BY <1>1, ModesAgree, AgreeingPart

\* Has and Wants change for one transaction and one lock at most.
LEMMA HeldSet ==
  ASSUME NEW l \in Lock, NEW x \in Xct, Only(l, x)
  PROVE  /\ HeldNow' = [HeldNow EXCEPT ![l][x] = Has(l, x)']
         /\ WantNow' = [WantNow EXCEPT ![l][x] = Wants(l, x)']
<1>1. HeldNow' = [HeldNow EXCEPT ![l][x] = Has(l, x)']
  <2>1. HeldNow' = [k \in Lock |-> [y \in Xct |-> Has(k, y)']]
    BY DEF HeldNow
  <2>2. [HeldNow EXCEPT ![l][x] = Has(l, x)'] =
          [k \in Lock |-> [y \in Xct |-> IF k = l /\ y = x THEN Has(l, x)' ELSE Has(k, y)]]
    BY DEF HeldNow
  <2>3. \A k \in Lock, y \in Xct : Has(k, y)' = IF k = l /\ y = x THEN Has(l, x)' ELSE Has(k, y)
    BY DEF Only, Same
  <2>. QED
    BY <2>1, <2>2, <2>3
<1>2. WantNow' = [WantNow EXCEPT ![l][x] = Wants(l, x)']
  <2>1. WantNow' = [k \in Lock |-> [y \in Xct |-> Wants(k, y)']]
    BY DEF WantNow
  <2>2. [WantNow EXCEPT ![l][x] = Wants(l, x)'] =
          [k \in Lock |-> [y \in Xct |-> IF k = l /\ y = x THEN Wants(l, x)' ELSE Wants(k, y)]]
    BY DEF WantNow
  <2>3. \A k \in Lock, y \in Xct : Wants(k, y)' = IF k = l /\ y = x THEN Wants(l, x)' ELSE Wants(k, y)
    BY DEF Only, Same
  <2>. QED
    BY <2>1, <2>2, <2>3
<1>. QED
  BY <1>1, <1>2

LEMMA NowKept ==
  ASSUME NEW l \in Lock, NEW x \in Xct, Only(l, x)
  PROVE  /\ Has(l, x)' = Has(l, x) => HeldNow' = HeldNow
         /\ Wants(l, x)' = Wants(l, x) => WantNow' = WantNow
<1>1. Has(l, x)' = Has(l, x) => \A k \in Lock, y \in Xct : Has(k, y)' = Has(k, y)
  BY DEF Only, Same
<1>2. Wants(l, x)' = Wants(l, x) => \A k \in Lock, y \in Xct : Wants(k, y)' = Wants(k, y)
  BY DEF Only, Same
<1>. QED
  BY <1>1, <1>2 DEF HeldNow, WantNow

\* Who is welcome to the group is admitted by each of its members.
LEMMA WelcomeAdmits ==
  ASSUME TypeOK, ModeInv, NEW l \in Lock, NEW x \in Xct, NEW m \in Mode, Welcome(l, x, m)
  PROVE  \A y \in Xct \ {x} :
           \/ Has(l, y) \in compat[m]
           \/ m = "UD" /\ Has(l, y) = "IS" /\ \E z \in Xct \ {x} : Has(l, z) = "SH"
<1>. TAKE y \in Xct \ {x}
<1>. DEFINE rest == Others(l, x)
            has == Has(l, y)
<1>1. has \in rest /\ has \in Mode /\ Agreeing(rest) /\ GroupMode(rest) \in compat[m]
  BY HasModes, OthersAgree DEF Others, Welcome
<1>. HIDE DEF rest, has
<1>2. has \in compat[m] \/ (m = "UD" /\ has = "IS" /\ "SH" \in rest)
  BY <1>1, MembersAdmit
<1>3. "SH" \in rest => \E z \in Xct \ {x} : Has(l, z) = "SH"
  BY DEF rest, Others
<1>. QED
  BY <1>2, <1>3 DEF has

LEMMA ServiceNow ==
  /\ \A l \in Lock, x \in Xct : HeldNow[l][x] = Has(l, x) /\ WantNow[l][x] = Wants(l, x)
  /\ HeldNow = [l \in Lock |-> [x \in Xct |-> IF Holds(l, x) THEN HeldMode(l, x) ELSE "NL"]]
  /\ WantNow = [l \in Lock |-> [x \in Xct |->
                  IF req[l][x].st \in Pending THEN WantedMode(req[l][x]) ELSE "NL"]]
  BY DEF HeldNow, WantNow, Has, Wants

LEMMA ServiceTables == Service!compat = compat /\ Service!supr = supr /\ Service!Mode = Mode
  BY DEF Service!compat, Service!supr, Service!Mode, compat, supr, Mode

LEMMA TakeIsTake ==
  ASSUME CoreInv, NEW l \in Lock, NEW x \in Xct, NEW m \in Mode, Takes(l, x, m)
  PROVE  Service!Take(x, l, m)
<1>1. Service!Take(x, l, m) <=>
        /\ WantNow[l][x] = "NL"
        /\ m # HeldNow[l][x] /\ Leq(HeldNow[l][x], m)
        /\ \A y \in Xct \ {x} :
             \/ HeldNow[l][y] \in compat[m]
             \/ m = "UD" /\ HeldNow[l][y] = "IS" /\ \E z \in Xct \ {x} : HeldNow[l][z] = "SH"
        /\ HeldNow' = [HeldNow EXCEPT ![l][x] = m]
        /\ WantNow' = WantNow
  BY ServiceTables, Zenon DEF Service!Take, Service!Stronger, Service!Admits, Service!Set,
     Service!Leq, Leq, HeldNow, WantNow, Has, Wants
<1>2. \A y \in Xct \ {x} :
        \/ HeldNow[l][y] \in compat[m]
        \/ m = "UD" /\ HeldNow[l][y] = "IS" /\ \E z \in Xct \ {x} : HeldNow[l][z] = "SH"
  BY ServiceNow, WelcomeAdmits DEF Takes, CoreInv, WaitInv, TypeInv
<1>3. WantNow[l][x] = "NL" /\ m # HeldNow[l][x] /\ Leq(HeldNow[l][x], m)
  BY ServiceNow DEF Takes, WantsNothing, More
<1>4. HeldNow' = [HeldNow EXCEPT ![l][x] = m]
  BY HeldSet DEF Takes
<1>5. WantNow' = WantNow
  BY NowKept DEF Takes, WantsNothing
<1>. QED
  BY <1>1, <1>2, <1>3, <1>4, <1>5

LEMMA StartIsWait ==
  ASSUME NEW l \in Lock, NEW x \in Xct, NEW m \in Mode, Starts(l, x, m)
  PROVE  Service!Wait(x, l, m)
<1>1. Service!Wait(x, l, m) <=>
        /\ \A k \in Lock : WantNow[k][x] = "NL"
        /\ m # HeldNow[l][x] /\ Leq(HeldNow[l][x], m)
        /\ WantNow' = [WantNow EXCEPT ![l][x] = m]
        /\ HeldNow' = HeldNow
  BY ServiceTables, Zenon DEF Service!Wait, Service!Stronger, Service!Set, Service!Leq, Leq,
     HeldNow, WantNow, Has, Wants
<1>2. /\ \A k \in Lock : WantNow[k][x] = "NL"
      /\ m # HeldNow[l][x] /\ Leq(HeldNow[l][x], m)
  BY ServiceNow DEF Starts, WantsNothing, More
<1>3. WantNow' = [WantNow EXCEPT ![l][x] = m]
  BY HeldSet DEF Starts
<1>4. HeldNow' = HeldNow
  BY NowKept DEF Starts
<1>. QED
  BY <1>1, <1>2, <1>3, <1>4

LEMMA GetIsGive ==
  ASSUME CoreInv, NEW l \in Lock, NEW x \in Xct, Gets(l, x)
  PROVE  Service!Give(x, l)
<1>1. Service!Give(x, l) <=>
        /\ WantNow[l][x] # "NL"
        /\ \A y \in Xct \ {x} :
             \/ HeldNow[l][y] \in compat[WantNow[l][x]]
             \/ /\ WantNow[l][x] = "UD" /\ HeldNow[l][y] = "IS"
                /\ \E z \in Xct \ {x} : HeldNow[l][z] = "SH"
        /\ HeldNow' = [HeldNow EXCEPT ![l][x] = WantNow[l][x]]
        /\ WantNow' = [WantNow EXCEPT ![l][x] = "NL"]
  BY ServiceTables, Zenon DEF Service!Give, Service!Admits, Service!Set,
     HeldNow, WantNow, Has, Wants
<1>2. WantNow[l][x] = Wants(l, x) /\ Wants(l, x) \in Mode /\ Wants(l, x) # "NL"
  BY ServiceNow, HasModes DEF Gets, CoreInv, WaitInv, TypeInv
<1>3. \A y \in Xct \ {x} :
        \/ HeldNow[l][y] \in compat[Wants(l, x)]
        \/ /\ Wants(l, x) = "UD" /\ HeldNow[l][y] = "IS"
           /\ \E z \in Xct \ {x} : HeldNow[l][z] = "SH"
  BY <1>2, ServiceNow, WelcomeAdmits DEF Gets, CoreInv, WaitInv, TypeInv
<1>4. /\ HeldNow' = [HeldNow EXCEPT ![l][x] = Wants(l, x)]
      /\ WantNow' = [WantNow EXCEPT ![l][x] = "NL"]
  BY HeldSet DEF Gets
<1>. QED
  BY <1>1, <1>2, <1>3, <1>4

LEMMA RefusedIsRefuse ==
  ASSUME NEW l \in Lock, NEW x \in Xct, Refused(l, x)
  PROVE  Service!Refuse(x, l)
<1>1. Service!Refuse(x, l) <=>
        /\ WantNow[l][x] # "NL"
        /\ WantNow' = [WantNow EXCEPT ![l][x] = "NL"]
        /\ HeldNow' = HeldNow
  BY Zenon DEF Service!Refuse, Service!Set, HeldNow, WantNow, Has, Wants
<1>2. WantNow[l][x] # "NL"
  BY ServiceNow DEF Refused
<1>3. WantNow' = [WantNow EXCEPT ![l][x] = "NL"]
  BY HeldSet DEF Refused
<1>4. HeldNow' = HeldNow
  BY NowKept DEF Refused
<1>. QED
  BY <1>1, <1>2, <1>3, <1>4

LEMMA DroppedIsDrop ==
  ASSUME NEW l \in Lock, NEW x \in Xct, Dropped(l, x)
  PROVE  Service!Drop(x, l)
<1>1. Service!Drop(x, l) <=>
        /\ HeldNow[l][x] # "NL"
        /\ \A k \in Lock : WantNow[k][x] = "NL"
        /\ HeldNow' = [HeldNow EXCEPT ![l][x] = "NL"]
        /\ WantNow' = WantNow
  BY Zenon DEF Service!Drop, Service!Set, HeldNow, WantNow, Has, Wants
<1>2. HeldNow[l][x] # "NL" /\ \A k \in Lock : WantNow[k][x] = "NL"
  BY ServiceNow DEF Dropped, WantsNothing
<1>3. HeldNow' = [HeldNow EXCEPT ![l][x] = "NL"]
  BY HeldSet DEF Dropped
<1>4. WantNow' = WantNow
  BY NowKept DEF Dropped, WantsNothing
<1>. QED
  BY <1>1, <1>2, <1>3, <1>4

\* The lock core implements the lock service: whatever its queues, mutexes, naps, wakeups
\* and victims do, the callers see locks taken, waited for, given, refused and dropped.
THEOREM Implements ==
  ASSUME ~Spurious
  PROVE  Spec => ImplementsService
<1>1. Init => Service!Init
  <2>. SUFFICES ASSUME Init PROVE Service!Init
    OBVIOUS
  <2>1. \A l \in Lock, x \in Xct : Has(l, x) = "NL" /\ Wants(l, x) = "NL"
    BY DEF Init, Has, Wants, Holds, Held, Pending, NoReq
  <2>2. /\ HeldNow = [l \in Lock |-> [x \in Xct |-> "NL"]]
        /\ WantNow = [l \in Lock |-> [x \in Xct |-> "NL"]]
    BY <2>1 DEF HeldNow, WantNow
  <2>. QED
    BY <2>2, ServiceNow DEF Service!Init, Service!Nothing
<1>2. CoreInv /\ [Next]_vars => [Service!Next]_(Service!service)
  <2>. SUFFICES ASSUME CoreInv, [Next]_vars PROVE Service!Next
    OBVIOUS
  <2>1. Serves
    BY CoreStep
  <2>2. ASSUME Untouched PROVE Service!Next
    <3>1. HeldNow' = HeldNow /\ WantNow' = WantNow
      BY <2>2 DEF Untouched, Same, HeldNow, WantNow
    <3>2. UNCHANGED Service!service
      BY <3>1, Zenon DEF Service!service, HeldNow, WantNow, Has, Wants
    <3>. QED
      BY <3>2 DEF Service!Next
  <2>3. ASSUME NEW l \in Lock, NEW x \in Xct,
               \/ \E m \in Mode : Takes(l, x, m) \/ Starts(l, x, m)
               \/ Gets(l, x) \/ Refused(l, x) \/ Dropped(l, x)
        PROVE  Service!Next
    <3>1. \/ \E m \in Mode : Service!Take(x, l, m) \/ Service!Wait(x, l, m)
          \/ Service!Give(x, l)
          \/ Service!Refuse(x, l)
          \/ Service!Drop(x, l)
      BY <2>3, TakeIsTake, StartIsWait, GetIsGive, RefusedIsRefuse, DroppedIsDrop
    <3>. QED
      BY <3>1, ServiceTables DEF Service!Next
  <2>. QED
    BY <2>1, <2>2, <2>3 DEF Serves
<1>. QED
  BY <1>1, <1>2, CoreAlways, PTL DEF Spec, ImplementsService, Service!Spec

-----------------------------------------------------------------------------
(***************************************************************************)
(* The order of a queue.                                                   *)
(***************************************************************************)
\* What a step does to the queue of l.
QueueMoves(l) ==
  \/ queue'[l] = queue[l]
  \/ \E x \in Xct : queue'[l] = Append(queue[l], x)
  \/ \E x \in Xct :
       /\ In(x, queue[l]) /\ queue'[l] = Detach(queue[l], x)
       /\ req'[l][x].st = "none"

LEMMA QueueStep ==
  ASSUME WaitInv, [Next]_vars, NEW k \in Lock
  PROVE  QueueMoves(k)
<1>1. TypeOK /\ TypeInv
  BY DEF WaitInv, TypeInv
<1>2. ASSUME queue' = queue PROVE QueueMoves(k)
  BY <1>2 DEF QueueMoves
<1>3. ASSUME NEW x \in Xct, NEW l \in Lock, queue' = [queue EXCEPT ![l] = Append(@, x)]
      PROVE  QueueMoves(k)
  <2>1. queue'[k] = IF k = l THEN Append(queue[l], x) ELSE queue[k]
    BY <1>1, <1>3 DEF TypeOK
  <2>. QED
    BY <2>1 DEF QueueMoves
<1>4. ASSUME NEW x \in Xct, NEW l \in Lock, queue' = [queue EXCEPT ![l] = Detach(queue[l], x)],
             req[l][x].st # "none", req'[l][x].st = "none"
      PROVE  QueueMoves(k)
  <2>1. queue'[k] = IF k = l THEN Detach(queue[l], x) ELSE queue[k]
    BY <1>1, <1>4 DEF TypeOK
  <2>2. In(x, queue[l])
    BY <1>1, <1>4 DEF TypeInv, Queued
  <2>. QED
    BY <2>1, <2>2, <1>4 DEF QueueMoves
<1>5. ASSUME NEW x \in Xct, NEW e, Deny(x, e), pc[x] \in Awaiting PROVE QueueMoves(k)
  <2>0. PICK l \in Lock : l = call[x].lock
    BY <1>1 DEF TypeOK, Call
  <2>1. CASE req[l][x].st = "waiting"
    <3>1. queue' = [queue EXCEPT ![l] = Detach(queue[l], x)]
      BY <1>5, <2>0, <2>1 DEF Deny
    <3>2. req'[l][x].st = "none"
      BY <1>1, <1>5, <2>0, <2>1, DenyEffect
    <3>. QED
      BY <1>4, <2>1, <3>1, <3>2
  <2>2. CASE req[l][x].st # "waiting"
    <3>1. queue' = queue
      BY <1>1, <1>5, <2>0, <2>2 DEF Deny, TypeOK
    <3>. QED
      BY <1>2, <3>1
  <2>. QED
    BY <2>1, <2>2
<1>6. ASSUME NEW x \in Xct, Ask(x) PROVE QueueMoves(k)
  BY <1>2, <1>3, <1>6 DEF Ask, Reacquire, Upgrade, Grant, AwaitUpgrade, AwaitGrant
<1>7. ASSUME NEW x \in Xct, Free(x) PROVE QueueMoves(k)
  <2>1. PICK l \in Lock : Uncount(x, l) \/ Release(x, l)
    BY <1>7 DEF Free
  <2>2. CASE Uncount(x, l)
    BY <1>2, <2>2 DEF Uncount
  <2>3. CASE Release(x, l)
    <3>1. queue' = [queue EXCEPT ![l] = Detach(queue[l], x)] /\ req[l][x].st # "none"
      BY <2>3 DEF Release, CanRelease
    <3>2. req'[l][x].st = "none"
      BY <1>1, <2>3, ReleaseEffect
    <3>. QED
      BY <1>4, <3>1, <3>2
  <2>. QED
    BY <2>1, <2>2, <2>3
<1>8. ASSUME NEW x \in Xct, Detect(x) PROVE QueueMoves(k)
  <2>1. CASE DldSelf(x)
    <3>1. Deny(x, "dead") /\ pc[x] = "dld"
      BY <2>1 DEF DldSelf, NextAwaited, At
    <3>. QED
      BY <1>5, <3>1 DEF Awaiting
  <2>2. CASE DldMerge(x) \/ DldOther(x) \/ DldKill(x) \/ DldDone(x)
    BY <1>2, <2>2 DEF DldMerge, DldOther, DldKill, DldDone, headVars
  <2>. QED
    BY <1>8, <2>1, <2>2 DEF Detect
<1>9. ASSUME NEW x \in Xct, Wake(x) PROVE QueueMoves(k)
  <2>1. CASE TryAgain(x) \/ Granted(x)
    BY <1>2, <2>1 DEF TryAgain, Granted, headVars
  <2>2. CASE GiveUp(x)
    BY <1>5, <2>2 DEF GiveUp, Retakes, At, Awaiting
  <2>. QED
    BY <1>9, <2>1, <2>2 DEF Wake
<1>10. ASSUME NEW x \in Xct, Sleep(x) \/ Scan(x) \/ End(x) \/ Poison(x) PROVE QueueMoves(k)
  BY <1>2, <1>10 DEF Sleep, Nap, EndNap, Scan, ScanGrant, ScanPass, ScanEnd, End, Poison, headVars
<1>11. CASE UNCHANGED vars
  BY <1>2, <1>11 DEF vars, headVars
<1>. QED
  BY <1>6, <1>7, <1>8, <1>9, <1>10, <1>11, PoisonAssumption DEF Next, Finished, Crashed

\* Two that stay in a queue keep their order.
LEMMA OrderKeeps ==
  ASSUME TypeInv, TypeInv', NEW l \in Lock, QueueMoves(l),
         NEW i \in 1..Len(queue[l]), NEW j \in 1..Len(queue[l]), i < j,
         req'[l][queue[l][i]].st # "none", req'[l][queue[l][j]].st # "none"
  PROVE  \E a, b \in 1..Len(queue'[l]) :
           a < b /\ queue'[l][a] = queue[l][i] /\ queue'[l][b] = queue[l][j]
<1>. DEFINE q == queue[l]
<1>1. q \in Seq(Xct) /\ NoDuplicates(q)
  BY DEF TypeInv, TypeOK, Queued
<1>2. CASE queue'[l] = q
  BY <1>2
<1>3. ASSUME NEW x \in Xct, queue'[l] = Append(q, x)
      PROVE  \E a, b \in 1..Len(queue'[l]) :
               a < b /\ queue'[l][a] = queue[l][i] /\ queue'[l][b] = queue[l][j]
  <2>1. /\ Len(queue'[l]) = Len(q) + 1
        /\ \A n \in 1..Len(q) : queue'[l][n] = q[n]
    BY <1>1, <1>3
  <2>. QED
    BY <1>1, <2>1
<1>4. ASSUME NEW x \in Xct, In(x, q), queue'[l] = Detach(q, x), req'[l][x].st = "none"
      PROVE  \E a, b \in 1..Len(queue'[l]) :
               a < b /\ queue'[l][a] = queue[l][i] /\ queue'[l][b] = queue[l][j]
  <2>1. PICK n \in 1..Len(q) : q[n] = x
    BY <1>4 DEF In
  <2>2. /\ Len(Detach(q, q[n])) = Len(q) - 1
        /\ \A m \in 1..(Len(q) - 1) : Detach(q, q[n])[m] = IF m < n THEN q[m] ELSE q[m + 1]
    BY <1>1, DetachShifts, Zenon
  <2>3. i # n /\ j # n
    BY <1>4, <2>1
  <2>. DEFINE to(m) == IF m < n THEN m ELSE m - 1
  <2>4. \A m \in 1..Len(q) : m # n =>
          to(m) \in 1..(Len(q) - 1) /\ Detach(q, q[n])[to(m)] = q[m]
    <3>. SUFFICES ASSUME NEW m \in 1..Len(q), m # n
                  PROVE  to(m) \in 1..(Len(q) - 1) /\ Detach(q, q[n])[to(m)] = q[m]
      OBVIOUS
    <3>1. Len(q) \in Nat
      BY <1>1
    <3>2. to(m) \in 1..(Len(q) - 1) /\ (IF to(m) < n THEN to(m) ELSE to(m) + 1) = m
      BY <3>1
    <3>. HIDE DEF to
    <3>. QED
      BY <2>2, <3>2
  <2>5. to(i) < to(j)
    BY <2>3
  <2>. HIDE DEF to
  <2>6. /\ to(i) \in 1..Len(queue'[l]) /\ to(j) \in 1..Len(queue'[l])
        /\ queue'[l][to(i)] = q[i] /\ queue'[l][to(j)] = q[j]
    BY <1>4, <2>1, <2>2, <2>3, <2>4
  <2>. QED
    BY <2>5, <2>6
<1>. QED
  BY <1>2, <1>3, <1>4 DEF QueueMoves

\* A request that goes on waiting is overtaken by none that came after it.
THEOREM NoneOvertakes ==
  ASSUME ~Spurious
  PROVE  Spec => NoOvertaking
<1>. DEFINE InOrder ==
         \A l \in Lock : \A i, j \in 1..Len(queue[l]) :
           i < j /\ req[l][queue[l][i]].st = "waiting" /\ req'[l][queue[l][i]].st = "waiting"
             => req'[l][queue[l][j]].st \notin Held
<1>1. CoreInv /\ [Next]_vars => [InOrder]_vars
  <2>. SUFFICES ASSUME CoreInv, [Next]_vars, NEW l \in Lock,
                       NEW i \in 1..Len(queue[l]), NEW j \in 1..Len(queue[l]), i < j,
                       req'[l][queue[l][i]].st = "waiting", req'[l][queue[l][j]].st \in Held
                PROVE  FALSE
    OBVIOUS
  <2>1. CoreInv' /\ QueueMoves(l)
    BY CoreStep, QueueStep DEF CoreInv
  <2>2. PICK a, b \in 1..Len(queue'[l]) :
          a < b /\ queue'[l][a] = queue[l][i] /\ queue'[l][b] = queue[l][j]
    BY <2>1, OrderKeeps DEF CoreInv, WaitInv, Held
  <2>3. req'[l][queue'[l][a]].st \in Held
    BY <2>1, <2>2 DEF CoreInv, OrderInv, HoldersFirst, Holds
  <2>. QED
    BY <2>2, <2>3 DEF Held
<1>. QED
  BY <1>1, CoreAlways, PTL DEF Spec, NoOvertaking

-----------------------------------------------------------------------------
(***************************************************************************)
(* The granted mode as a walk over the queue.                              *)
(***************************************************************************)
\* One more member, at the end of the walk.
LEMMA WalkOne ==
  ASSUME NEW S, NEW m \in Mode, Agreeing(S \union {m})
  PROVE  GroupMode(S \union {m}) = IF m = "NL" THEN GroupMode(S) ELSE supr[m][GroupMode(S)]
<1>1. CASE m = "NL"
  BY <1>1, GroupModeSame
<1>2. CASE m # "NL"
  BY <1>2, GroupGrows
<1>. QED
  BY <1>1, <1>2

FirstModes(h, i) == {h[j] : j \in 1..i}

LEMMA FirstModesGrow ==
  ASSUME NEW n \in Nat, NEW h \in [1..n -> Mode], Agreeing(FirstModes(h, n)), NEW i \in 1..n
  PROVE  GroupMode(FirstModes(h, i)) =
           IF h[i] = "NL" THEN GroupMode(FirstModes(h, i - 1))
           ELSE supr[h[i]][GroupMode(FirstModes(h, i - 1))]
<1>1. FirstModes(h, i) = FirstModes(h, i - 1) \union {h[i]}
  <2>1. \A j : j \in 1..i <=> j \in 1..(i - 1) \/ j = i
    OBVIOUS
  <2>. QED
    BY <2>1 DEF FirstModes
<1>2. FirstModes(h, i) \subseteq FirstModes(h, n)
  BY DEF FirstModes
<1>3. Agreeing(FirstModes(h, i - 1) \union {h[i]})
  BY <1>1, <1>2, AgreeingPart
<1>4. h[i] \in Mode
  OBVIOUS
<1>. QED
  BY <1>1, <1>3, <1>4, WalkOne

LEMMA WalkEndsAt ==
  ASSUME NEW n \in Nat, NEW h \in [1..n -> Mode], Agreeing(FirstModes(h, n)),
         NEW w, w[0] = "NL",
         \A i \in 1..n : w[i] = IF h[i] = "NL" THEN w[i - 1] ELSE supr[h[i]][w[i - 1]]
  PROVE  w[n] = GroupMode(FirstModes(h, n))
<1>. DEFINE T == {i \in 0..n : w[i] # GroupMode(FirstModes(h, i))}
<1>1. ASSUME T # {} PROVE FALSE
  <2>1. T \in SUBSET Nat
    OBVIOUS
  <2>2. PICK i \in T : \A k \in T : i <= k
    BY <1>1, <2>1, LeastMember
  <2>3. i # 0
    <3>1. FirstModes(h, 0) = {}
      BY DEF FirstModes
    <3>. QED
      BY <2>2, <3>1, GroupModeIs
  <2>4. i \in 1..n /\ i - 1 \in 0..n /\ i - 1 \notin T
    BY <2>2, <2>3
  <2>5. w[i - 1] = GroupMode(FirstModes(h, i - 1))
    BY <2>4
  <2>6. w[i] = GroupMode(FirstModes(h, i))
    BY <2>4, <2>5, FirstModesGrow
  <2>. QED
    BY <2>2, <2>6
<1>. QED
  BY <1>1

LEMMA ExactIsFold == CoreInv => GroupModeIsFold
<1>. SUFFICES ASSUME CoreInv, NEW l \in Lock
              PROVE  LET walk[i \in 0..Len(queue[l])] ==
                           IF i = 0 THEN "NL"
                           ELSE IF Holds(l, queue[l][i]) THEN supr[HeldMode(l, queue[l][i])][walk[i - 1]]
                           ELSE walk[i - 1]
                     IN  gmode[l] = walk[Len(queue[l])]
  BY DEF GroupModeIsFold
<1>. DEFINE walk[i \in 0..Len(queue[l])] ==
              IF i = 0 THEN "NL"
              ELSE IF Holds(l, queue[l][i]) THEN supr[HeldMode(l, queue[l][i])][walk[i - 1]]
              ELSE walk[i - 1]
            n == Len(queue[l])
            h == [i \in 1..n |-> Has(l, queue[l][i])]
<1>1. queue[l] \in Seq(Xct) /\ n \in Nat /\ TypeOK
  BY DEF CoreInv, WaitInv, TypeInv, TypeOK
<1>2. h \in [1..n -> Mode]
  BY <1>1, HasModes
<1>3. FirstModes(h, n) = {Has(l, queue[l][i]) : i \in 1..n}
  BY DEF FirstModes
<1>4. \A m \in Mode \ {"NL"} : m \in FirstModes(h, n) <=> m \in Modes(l)
  <2>1. ASSUME NEW m \in Mode \ {"NL"}, m \in FirstModes(h, n) PROVE m \in Modes(l)
    BY <1>1, <1>3, <2>1 DEF Modes
  <2>2. ASSUME NEW m \in Mode \ {"NL"}, m \in Modes(l) PROVE m \in FirstModes(h, n)
    <3>1. PICK x \in Xct : Has(l, x) = m
      BY <2>2 DEF Modes
    <3>2. PICK i \in 1..n : queue[l][i] = x
      BY <2>2, <3>1 DEF CoreInv, WaitInv, TypeInv, Queued, In, Has, Holds, Held
    <3>. QED
      BY <1>3, <3>1, <3>2
  <2>. QED
    BY <2>1, <2>2
<1>5. GroupMode(FirstModes(h, n)) = gmode[l]
  BY <1>4, GroupModeSame DEF CoreInv, ExactInv
<1>6. Agreeing(FirstModes(h, n))
  <2>2. FirstModes(h, n) \subseteq Modes(l)
    BY <1>1, <1>3 DEF Modes
  <2>3. Agreeing(Modes(l))
    BY <1>1, ModesAgree DEF CoreInv
  <2>. QED
    BY <2>2, <2>3, AgreeingPart
<1>7. \A i \in 1..n : Holds(l, queue[l][i]) =>
        HeldMode(l, queue[l][i]) = h[i] /\ h[i] # "NL"
  <2>. SUFFICES ASSUME NEW x \in Xct, Holds(l, x)
                PROVE  HeldMode(l, x) = Has(l, x) /\ Has(l, x) # "NL"
    BY <1>1
  <2>. QED
    BY DEF CoreInv, WishInv, Wish, Possible, Holds, Held, HeldMode, Has
<1>8. \A i \in 1..n : ~Holds(l, queue[l][i]) => h[i] = "NL"
  BY DEF Has
<1>. DEFINE v == [i \in 0..n |-> GroupMode(FirstModes(h, i))]
<1>. HIDE DEF h
<1>9. \A i \in 1..n : GroupMode(FirstModes(h, i)) =
        IF h[i] = "NL" THEN GroupMode(FirstModes(h, i - 1))
        ELSE supr[h[i]][GroupMode(FirstModes(h, i - 1))]
  BY <1>1, <1>2, <1>6, FirstModesGrow
<1>10. v = [i \in 0..n |->
              IF i = 0 THEN "NL"
              ELSE IF Holds(l, queue[l][i]) THEN supr[HeldMode(l, queue[l][i])][v[i - 1]]
              ELSE v[i - 1]]
  <2>1. GroupMode(FirstModes(h, 0)) = "NL"
    <3>1. FirstModes(h, 0) = {}
      BY DEF FirstModes
    <3>. QED
      BY <3>1, GroupModeIs
  <2>2. ASSUME NEW i \in 0..n
        PROVE  GroupMode(FirstModes(h, i)) =
                 IF i = 0 THEN "NL"
                 ELSE IF Holds(l, queue[l][i]) THEN supr[HeldMode(l, queue[l][i])][v[i - 1]]
                 ELSE v[i - 1]
    <3>1. CASE i = 0
      BY <2>1, <3>1
    <3>2. CASE i # 0
      <4>1. i \in 1..n /\ v[i - 1] = GroupMode(FirstModes(h, i - 1))
        BY <1>1, <3>2
      <4>. HIDE DEF v
      <4>. QED
        BY <1>7, <1>8, <1>9, <3>2, <4>1
    <3>. QED
      BY <3>1, <3>2
  <2>. QED
    BY <2>2
<1>. HIDE DEF v
<1>11. walk = [i \in 0..n |->
                 IF i = 0 THEN "NL"
                 ELSE IF Holds(l, queue[l][i]) THEN supr[HeldMode(l, queue[l][i])][walk[i - 1]]
                 ELSE walk[i - 1]]
  BY <1>10
<1>. HIDE DEF walk
<1>12. /\ walk[0] = "NL"
       /\ \A i \in 1..n : walk[i] = IF h[i] = "NL" THEN walk[i - 1] ELSE supr[h[i]][walk[i - 1]]
  <2>1. \A i \in 0..n :
          walk[i] = IF i = 0 THEN "NL"
                    ELSE IF Holds(l, queue[l][i]) THEN supr[HeldMode(l, queue[l][i])][walk[i - 1]]
                    ELSE walk[i - 1]
    BY <1>11
  <2>. HIDE DEF h, n
  <2>2. walk[0] = "NL"
    <3>1. 0 \in 0..n
      BY <1>1
    <3>. QED
      BY <2>1, <3>1
  <2>3. ASSUME NEW i \in 1..n
        PROVE  walk[i] = IF h[i] = "NL" THEN walk[i - 1] ELSE supr[h[i]][walk[i - 1]]
    <3>1. i \in 0..n /\ i # 0
      BY <1>1
    <3>2. walk[i] = IF Holds(l, queue[l][i]) THEN supr[HeldMode(l, queue[l][i])][walk[i - 1]]
                    ELSE walk[i - 1]
      BY <2>1, <3>1
    <3>. QED
      BY <1>7, <1>8, <3>2
  <2>. QED
    BY <2>2, <2>3
<1>13. walk[n] = GroupMode(FirstModes(h, n))
  BY <1>1, <1>2, <1>6, <1>12, WalkEndsAt
<1>. QED
  BY <1>5, <1>13 DEF walk

\* The granted mode of a head is what a walk over its queue computes, at any time, so the
\* table lookups by which most steps update it and the order of the walk do not matter.
THEOREM GroupModeFolds ==
  ASSUME ~Spurious
  PROVE  Spec => []GroupModeIsFold
<1>1. CoreInv => GroupModeIsFold
  BY ExactIsFold
<1>. QED
  BY <1>1, CoreAlways, PTL
-----------------------------------------------------------------------------
(***************************************************************************)
(* Nobody is forgotten.  Where no walk is under way each pending request   *)
(* is blocked, and so is each one that a walk has passed: by the holders,  *)
(* who may only have grown stronger since, or by a request ahead of it.    *)
(***************************************************************************)
\* What NobodyForgotten lets through.
Excused(m) == "UD" \in AskModes /\ m \in {"UD", "IS"}

AtFront(l, x) ==
  req[l][x].st = "waiting" =>
    \A i, j \in 1..Len(queue[l]) :
      i < j /\ queue[l][j] = x => req[l][queue[l][i]].st = "granted"

Blocked(l, x) ==
  Wants(l, x) # "NL" =>
    Excused(Wants(l, x)) \/ ~Welcome(l, x, Wants(l, x)) \/ ~AtFront(l, x)

Scanned(l, o) == pc[o] = "scan" /\ call[o].lock = l

\* No walk over l's queue is still to come to x.
Reached(l, x) ==
  \A o \in Xct :
    Scanned(l, o) => \E j \in 1..Len(queue[l]) : j < call[o].pos /\ queue[l][j] = x

Unforgotten == \A l \in Lock, x \in Xct : Reached(l, x) => Blocked(l, x)

\* Where nobody asks for UD, a stronger group refuses all that a weaker one refuses.
LEMMA StaysRefusedWithoutUD ==
  ASSUME NEW g \in Mode \ {"UD"}, NEW h \in Mode, NEW w \in Mode \ {"UD"},
         g \notin compat[w], Leq(g, h)
  PROVE  h = "UD" \/ h \notin compat[w]
<1>1. CASE w = "IS"
  BY <1>1 DEF Mode, supr, Leq, compat
<1>2. CASE w # "IS"
  BY <1>2, StaysRefused
<1>. QED
  BY <1>1, <1>2

LEMMA RefusedStill ==
  ASSUME NEW S, NEW T, NEW w \in Mode, GroupMode(S) \notin compat[w],
         Leq(GroupMode(S), GroupMode(T)), ~Excused(w),
         "UD" \notin AskModes => "UD" \notin S /\ "UD" \notin T /\ w # "UD"
  PROVE  GroupMode(T) \notin compat[w]
<1>1. GroupMode(S) \in Mode /\ GroupMode(T) \in Mode
  BY GroupModeIsMode
<1>2. CASE "UD" \in AskModes
  BY <1>1, <1>2, StaysRefused DEF Excused
<1>3. CASE "UD" \notin AskModes
  <2>1. GroupMode(S) # "UD" /\ GroupMode(T) # "UD" /\ w # "UD"
    BY <1>3, GroupModeIs
  <2>. QED
    BY <1>1, <2>1, StaysRefusedWithoutUD
<1>. QED
  BY <1>2, <1>3

\* The boxed facts of a state, for use in the state after a step.
Sound ==
  \A l \in Lock, x \in Xct :
    /\ Has(l, x) \in Mode /\ Wants(l, x) \in Mode
    /\ Agreeing(Others(l, x))
    /\ "UD" \notin AskModes => "UD" \notin Others(l, x) /\ Wants(l, x) # "UD"

LEMMA SoundNow == CoreInv => Sound
<1>. SUFFICES ASSUME CoreInv PROVE Sound
  OBVIOUS
<1>1. TypeOK /\ ModeInv
  BY DEF CoreInv, WaitInv, TypeInv
<1>2. ASSUME NEW l \in Lock, NEW x \in Xct, "UD" \notin AskModes
      PROVE  Has(l, x) # "UD" /\ Wants(l, x) # "UD"
  <2>1. Wish(req[l][x])
    BY DEF CoreInv, WishInv
  <2>. QED
    BY <1>2, <2>1 DEF Wish, Possible, Has, Holds, Held, HeldMode, Wants, Pending, WantedMode
<1>. QED
  BY <1>1, <1>2, HasModes, OthersAgree DEF Sound, Others

LEMMA SoundNext == CoreInv' => Sound'
  BY SoundNow, PTL

\* Another's request grows: who was blocked stays so.
LEMMA BlockedStays ==
  ASSUME Sound, Sound', NEW l \in Lock, NEW x \in Xct, NEW k \in Lock, NEW y \in Xct,
         Only(l, x), k # l \/ y # x, Leq(Has(l, x), Has(l, x)'),
         AtFront(k, y)' => AtFront(k, y), Blocked(k, y)
  PROVE  Blocked(k, y)'
<1>. DEFINE w == Wants(k, y)
            S == Others(k, y)
            T == Others(k, y)'
<1>1. Wants(k, y)' = w
  BY DEF Only, Same
<1>. SUFFICES ASSUME w # "NL", ~Excused(w), GroupMode(S) \notin compat[w]
              PROVE  GroupMode(T) \notin compat[w]
  BY <1>1 DEF Blocked, Welcome, Excused, GroupMode
<1>2. /\ w \in Mode
      /\ "UD" \notin AskModes => "UD" \notin S /\ "UD" \notin T /\ w # "UD"
  BY DEF Sound
<1>3. Leq(GroupMode(S), GroupMode(T))
  <2>1. CASE k # l
    <3>1. S = T
      BY <2>1 DEF Others, Only, Same
    <3>2. GroupMode(S) \in Mode
      BY GroupModeIsMode
    <3>. QED
      BY <3>1, <3>2, SuprIdempotent
  <2>2. CASE k = l
    <3>. DEFINE R == {Has(l, z) : z \in Xct \ {x, y}}
                a == Has(l, x)
                m == Has(l, x)'
    <3>1. S = R \union {a}
      BY <2>2 DEF Others
    <3>2. T = R \union {m}
      <4>1. \A z \in Xct \ {x, y} : Has(l, z)' = Has(l, z)
        BY DEF Only, Same
      <4>2. T = {Has(l, z)' : z \in Xct \ {y}}
        BY <2>2 DEF Others
      <4>. HIDE DEF T
      <4>. QED
        BY <2>2, <4>1, <4>2
    <3>3. a \in Mode /\ m \in Mode /\ Leq(a, m)
      BY DEF Sound
    <3>4. Agreeing(T)
      BY DEF Sound, Agreeing, Tolerates
    <3>. HIDE DEF S, T, R, a, m
    <3>. QED
      BY <3>1, <3>2, <3>3, <3>4, GroupStrengthened
  <2>. QED
    BY <2>1, <2>2
<1>. HIDE DEF S, T, w
<1>. QED
  BY <1>2, <1>3, RefusedStill

LEMMA BlockedSame ==
  ASSUME UNCHANGED <<req, queue>>, NEW k \in Lock, NEW y \in Xct, Blocked(k, y)
  PROVE  Blocked(k, y)'
<1>1. Wants(k, y)' = Wants(k, y) /\ Others(k, y)' = Others(k, y)
  BY DEF Wants, Others, Has, Holds, HeldMode
<1>2. AtFront(k, y)' <=> AtFront(k, y)
  BY DEF AtFront
<1>. QED
  BY <1>1, <1>2 DEF Blocked, Welcome, GroupMode, Excused

LEMMA ScannerOwns ==
  ASSUME CoreInv, NEW l \in Lock, NEW o \in Xct, Scanned(l, o)
  PROVE  owner[l] = o
  BY DEF CoreInv, WaitInv, Exclusive, InHead, Scanned

LEMMA FreeReached ==
  ASSUME CoreInv, NEW l \in Lock, owner[l] = NoXct, NEW y \in Xct
  PROVE  Reached(l, y)
  BY ScannerOwns, XctAssumption DEF Reached

\* A step of x on the head of l leaves the requests of the other heads as they are.
LEMMA UnforgottenElsewhere ==
  ASSUME CoreInv, Unforgotten, NEW x \in Xct, NEW l \in Lock,
         pc[x] = "scan" => call[x].lock = l,
         \A y \in Xct \ {x} : pc'[y] = pc[y] /\ call'[y] = call[y],
         \A k \in Lock \ {l} : queue'[k] = queue[k],
         NEW z \in Xct, OnlyRequest(l, z),
         \A y \in Xct : Reached(l, y)' => Blocked(l, y)'
  PROVE  Unforgotten'
<1>. SUFFICES ASSUME NEW k \in Lock, NEW y \in Xct, Reached(k, y)', k # l
              PROVE  Blocked(k, y)'
  BY DEF Unforgotten
<1>0. \A i \in 1..Len(queue[k]) : queue[k][i] \in Xct
  BY DEF CoreInv, WaitInv, TypeInv, TypeOK
<1>1. \A u \in Xct : req'[k][u] = req[k][u]
  BY DEF OnlyRequest
<1>2. Reached(k, y)
  <2>. SUFFICES ASSUME NEW o \in Xct, Scanned(k, o)
                PROVE  \E j \in 1..Len(queue[k]) : j < call[o].pos /\ queue[k][j] = y
    BY DEF Reached
  <2>1. pc'[o] = pc[o] /\ call'[o] = call[o] /\ queue'[k] = queue[k]
    BY DEF Scanned
  <2>2. Scanned(k, o)'
    BY <2>1 DEF Scanned
  <2>. QED
    BY <2>1, <2>2 DEF Reached
<1>3. Blocked(k, y)
  BY <1>2 DEF Unforgotten
<1>4. /\ \A u \in Xct : Has(k, u)' = Has(k, u)
      /\ Wants(k, y)' = Wants(k, y)
  BY <1>1 DEF Has, Wants, Holds, HeldMode
<1>5. Others(k, y)' = Others(k, y)
  BY <1>4 DEF Others
<1>6. AtFront(k, y)' => AtFront(k, y)
  BY <1>0, <1>1 DEF AtFront
<1>. QED
  BY <1>3, <1>4, <1>5, <1>6 DEF Blocked, Welcome, GroupMode, Excused

\* A step that changes no request and no walk leaves them all as they are.
LEMMA UnforgottenUntouched ==
  ASSUME CoreInv, Unforgotten, Untouched, queue' = queue,
         \A k \in Lock, y \in Xct : req'[k][y].st = req[k][y].st,
         \A o \in Xct : pc[o] = "scan" => pc'[o] = "scan" /\ call'[o] = call[o]
  PROVE  Unforgotten'
<1>. SUFFICES ASSUME NEW k \in Lock, NEW y \in Xct, Reached(k, y)'
              PROVE  Blocked(k, y)'
  BY DEF Unforgotten
<1>1. Reached(k, y)
  BY DEF Reached, Scanned
<1>2. Blocked(k, y)
  BY <1>1 DEF Unforgotten
<1>3. Wants(k, y)' = Wants(k, y) /\ Others(k, y)' = Others(k, y)
  BY DEF Untouched, Same, Others
<1>4. \A i \in 1..Len(queue[k]) : queue[k][i] \in Xct
  BY DEF CoreInv, WaitInv, TypeInv, TypeOK
<1>5. AtFront(k, y)' => AtFront(k, y)
  BY <1>4 DEF AtFront
<1>. QED
  BY <1>2, <1>3, <1>5 DEF Blocked, Welcome, GroupMode, Excused

LEMMA AskUnforgotten ==
  ASSUME CoreInv, Sound', Unforgotten, NEW x \in Xct, Ask(x)
  PROVE  Unforgotten'
<1>. USE DEF CoreInv
<1>0. PICK l \in Lock, m \in AskModes, d \in Durations :
        \/ Reacquire(x, l, m, d)
        \/ Upgrade(x, l, m, d)
        \/ Grant(x, l, m, d)
        \/ \E p \in Patience : AwaitUpgrade(x, l, m, d, p) \/ AwaitGrant(x, l, m, d, p)
  BY DEF Ask
<1>. DEFINE mode == NewMode(l, x, m)
            q == queue[l]
<1>1. TypeOK /\ Sound /\ m \in Mode /\ mode \in Mode /\ q \in Seq(Xct)
  BY SoundNow, AskedTypes DEF WaitInv, TypeInv, TypeOK
<1>2. pc[x] = "idle" /\ owner[l] = NoXct
  BY <1>0 DEF Reacquire, Upgrade, Grant, AwaitUpgrade, AwaitGrant, CanAsk, At
<1>3. \A k \in Lock : req[k][x].st \notin Pending
  BY <1>2 DEF WaitInv, PendingAwaits, Awaiting
<1>4. \A y \in Xct : Blocked(l, y)
  BY <1>2, FreeReached DEF Unforgotten
<1>5. req[l][x].st # "none" =>
        req[l][x].st = "granted" /\ Has(l, x) = req[l][x].mode /\ Leq(Has(l, x), mode)
  <2>1. req[l][x].st # "none" => req[l][x].st = "granted"
    BY <1>1, <1>3 DEF TypeOK, Request, Status, Pending
  <2>2. req[l][x].mode \in Mode
    BY <1>1 DEF TypeOK, Request
  <2>. QED
    BY <1>1, <2>1, <2>2, SuprAbsorbs DEF Has, Holds, Held, HeldMode, NewMode
<1>6. CASE Reacquire(x, l, m, d)
  <2>1. RequestsKept /\ OnlyRequest(l, x)
    BY <1>1, <1>6, ReacquireEffect, SetReqOnly DEF Reacquire
  <2>2. Untouched
    BY <1>3, <1>6, <2>1, CountServes DEF Reacquire
  <2>. QED
    BY <1>6, <2>1, <2>2, UnforgottenUntouched DEF Reacquire, RequestsKept
<1>7. CASE Upgrade(x, l, m, d)
  <2>1. /\ OnlyRequest(l, x) /\ req'[l][x].st = req[l][x].st /\ req'[l][x].mode = mode
        /\ req[l][x].st = "granted" /\ UNCHANGED <<queue, pc, call>>
    BY <1>1, <1>5, <1>7, UpgradeEffect DEF Upgrade
  <2>2. Leq(Has(l, x), Has(l, x)') /\ Wants(l, x)' = "NL" /\ Only(l, x)
    BY <1>5, <2>1, OnlyOne DEF Has, Holds, Held, HeldMode, Wants, Pending
  <2>3. ASSUME NEW y \in Xct PROVE Blocked(l, y)'
    <3>1. CASE y = x
      BY <2>2, <3>1 DEF Blocked
    <3>2. CASE y # x
      <4>1. \A z \in Xct : req'[l][z].st = req[l][z].st
        BY <2>1 DEF OnlyRequest
      <4>2. AtFront(l, y)' => AtFront(l, y)
        BY <1>1, <2>1, <4>1 DEF AtFront
      <4>. QED
        BY <1>1, <1>4, <2>2, <3>2, <4>2, BlockedStays
    <3>. QED
      BY <3>1, <3>2
  <2>. QED
    BY <1>2, <2>1, <2>3, UnforgottenElsewhere
<1>8. CASE Grant(x, l, m, d)
  <2>1. /\ OnlyRequest(l, x) /\ req'[l][x].st = "granted" /\ UNCHANGED <<pc, call>>
        /\ queue' = [queue EXCEPT ![l] = Append(@, x)] /\ ~waiting[l]
    BY <1>1, <1>8, GrantEffect DEF Grant, Joins
  <2>2. \A y \in Xct : req[l][y].st \notin Pending
    BY <1>2, <2>1 DEF OrderInv, FlagTellsWaiters
  <2>3. \A y \in Xct : Wants(l, y)' = "NL"
    BY <2>1, <2>2 DEF OnlyRequest, Wants, Pending
  <2>4. \A k \in Lock \ {l} : queue'[k] = queue[k]
    BY <1>1, <2>1 DEF TypeOK
  <2>5. \A y \in Xct : Blocked(l, y)'
    BY <2>3 DEF Blocked
  <2>. QED
    BY <1>2, <2>1, <2>4, <2>5, UnforgottenElsewhere
<1>9. ASSUME NEW p \in Patience, AwaitUpgrade(x, l, m, d, p)
      PROVE  Unforgotten'
  <2>. DEFINE c == [req[l][x] EXCEPT !.st = "converting", !.cmode = mode]
  <2>1. /\ SetReq(l, x, c) /\ req[l][x].st # "none" /\ queue' = queue
        /\ OthersMode(l, x, mode) \notin compat[mode]
        /\ \A y \in Xct \ {x} : pc'[y] = pc[y] /\ call'[y] = call[y]
    BY <1>1, <1>9 DEF AwaitUpgrade, StartWait, Go, TypeOK
  <2>2. c.st = "converting" /\ c.mode = req[l][x].mode /\ c.cmode = mode
    BY <1>1 DEF TypeOK, Request
  <2>. HIDE DEF c, mode
  <2>3. /\ OnlyRequest(l, x) /\ req'[l][x].st = "converting"
        /\ req'[l][x].mode = req[l][x].mode /\ req'[l][x].cmode = mode
    BY <1>1, <2>1, <2>2, SetReqOnly
  <2>4. Has(l, x)' = Has(l, x) /\ Wants(l, x)' = mode
    BY <1>5, <2>1, <2>3 DEF Has, Holds, Held, HeldMode, Wants, WantedMode, Pending
  <2>5. Only(l, x) /\ Others(l, x)' = Others(l, x)
    BY <2>3, OnlyOne
  <2>6. GroupMode(Others(l, x)) \notin compat[mode]
    BY <2>1, OthersFound DEF OthersMode
  <2>7. ASSUME NEW y \in Xct PROVE Blocked(l, y)'
    <3>1. CASE y = x
      BY <2>4, <2>5, <2>6, <3>1 DEF Blocked, Welcome, GroupMode
    <3>2. CASE y # x
      <4>1. Leq(Has(l, x), Has(l, x)')
        BY <1>1, <2>4, SuprIdempotent DEF Sound
      <4>2. AtFront(l, y)' => AtFront(l, y)
        BY <1>1, <2>1, <2>3, <3>2 DEF AtFront, OnlyRequest
      <4>. QED
        BY <1>1, <1>4, <2>5, <3>2, <4>1, <4>2, BlockedStays
    <3>. QED
      BY <3>1, <3>2
  <2>. QED
    BY <1>2, <2>1, <2>3, <2>7, UnforgottenElsewhere
<1>10. ASSUME NEW p \in Patience, AwaitGrant(x, l, m, d, p)
       PROVE  Unforgotten'
  <2>. DEFINE c == [NoReq EXCEPT !.st = "waiting", !.mode = m, !.long = d]
  <2>1. /\ SetReq(l, x, c) /\ req[l][x].st = "none"
        /\ queue' = [queue EXCEPT ![l] = Append(@, x)]
        /\ waiting[l] \/ gmode[l] \notin compat[m]
        /\ \A y \in Xct \ {x} : pc'[y] = pc[y] /\ call'[y] = call[y]
    BY <1>1, <1>10 DEF AwaitGrant, StartWait, Joins, Go, TypeOK
  <2>2. c.st = "waiting" /\ c.mode = m
    BY DEF NoReq
  <2>. HIDE DEF c
  <2>3. OnlyRequest(l, x) /\ req'[l][x].st = "waiting" /\ req'[l][x].mode = m
    BY <1>1, <2>1, <2>2, SetReqOnly
  <2>4. Has(l, x) = "NL" /\ Has(l, x)' = Has(l, x) /\ Wants(l, x)' = m
    BY <2>1, <2>3 DEF Has, Holds, Held, HeldMode, Wants, WantedMode, Pending
  <2>5. Only(l, x) /\ Others(l, x)' = Others(l, x)
    BY <2>3, OnlyOne
  <2>6. /\ queue'[l] = Append(q, x)
        /\ \A k \in Lock \ {l} : queue'[k] = queue[k]
    BY <1>1, <2>1 DEF TypeOK
  <2>7. /\ Len(queue'[l]) = Len(q) + 1 /\ queue'[l][Len(q) + 1] = x /\ Len(q) \in Nat
        /\ \A j \in 1..Len(q) : queue'[l][j] = q[j] /\ q[j] \in Xct
    BY <1>1, <2>6
  <2>8. ASSUME NEW y \in Xct PROVE Blocked(l, y)'
    <3>1. CASE y = x /\ gmode[l] \notin compat[m]
      <4>1. gmode[l] = GroupMode(Others(l, x))
        <5>1. Modes(l) = Others(l, x) \union {"NL"}
          BY <2>4, ModesSplit
        <5>. QED
          BY <5>1, GroupModeSame DEF ExactInv
      <4>. QED
        BY <2>4, <2>5, <3>1, <4>1 DEF Blocked, Welcome, GroupMode
    <3>2. CASE y = x /\ waiting[l]
      <4>1. PICK z \in Xct : req[l][z].st \in Pending
        BY <1>2, <3>2 DEF OrderInv, FlagTellsWaiters
      <4>2. PICK j \in 1..Len(q) : q[j] = z
        BY <4>1 DEF WaitInv, TypeInv, Queued, In, Pending
      <4>3. z # x
        BY <1>3, <4>1
      <4>4. j \in 1..(Len(q) + 1) /\ Len(q) + 1 \in 1..(Len(q) + 1) /\ j < Len(q) + 1
        BY <2>7
      <4>5. req'[l][queue'[l][j]].st # "granted"
        BY <2>3, <2>7, <4>1, <4>2, <4>3 DEF OnlyRequest, Pending
      <4>6. ~AtFront(l, x)'
        BY <2>3, <2>7, <4>4, <4>5 DEF AtFront
      <4>. QED
        BY <3>2, <4>6 DEF Blocked
    <3>3. CASE y # x
      <4>1. Leq(Has(l, x), Has(l, x)')
        BY <1>1, <2>4, SuprIdempotent DEF Sound
      <4>2. AtFront(l, y)' => AtFront(l, y)
        <5>. SUFFICES ASSUME AtFront(l, y)', req[l][y].st = "waiting",
                             NEW i \in 1..Len(q), NEW j \in 1..Len(q), i < j, q[j] = y
                      PROVE  req[l][q[i]].st = "granted"
          BY DEF AtFront
        <5>1. req'[l][y].st = "waiting"
          BY <2>3, <3>3 DEF OnlyRequest
        <5>2. i \in 1..Len(queue'[l]) /\ j \in 1..Len(queue'[l]) /\ queue'[l][j] = y
          BY <2>7
        <5>3. req'[l][queue'[l][i]].st = "granted"
          BY <5>1, <5>2 DEF AtFront
        <5>4. q[i] \in Xct /\ queue'[l][i] = q[i]
          BY <2>7
        <5>. QED
          BY <2>3, <5>3, <5>4 DEF OnlyRequest
      <4>. QED
        BY <1>1, <1>4, <2>5, <3>3, <4>1, <4>2, BlockedStays
    <3>. QED
      BY <2>1, <3>1, <3>2, <3>3
  <2>. QED
    BY <1>2, <2>1, <2>3, <2>6, <2>8, UnforgottenElsewhere
<1>. QED
  BY <1>0, <1>6, <1>7, <1>8, <1>9, <1>10

\* A wait that fails is followed by a walk from the front of the queue.
LEMMA DenyUnforgotten ==
  ASSUME CoreInv, Unforgotten, NEW x \in Xct, pc[x] \in Awaiting, NEW e, Deny(x, e),
         req[call[x].lock][x].st \in Pending,
         \/ owner[call[x].lock] = NoXct
         \/ owner[call[x].lock] = x /\ pc[x] = "dld"
  PROVE  Unforgotten'
<1>. USE DEF CoreInv
<1>0. PICK l \in Lock : l = call[x].lock
  BY DEF WaitInv, TypeInv, TypeOK, Call
<1>1. TypeOK /\ TypeInv /\ pc[x] # "scan" /\ req[l][x].st \in Pending
  BY <1>0 DEF WaitInv, TypeInv, Awaiting
<1>2. OnlyRequest(l, x) /\ StartScan(x, l)
  BY <1>0, <1>1, DenyEffect
<1>3. waiting[l]
  BY <1>0, <1>1 DEF OrderInv, FlagTellsWaiters, Detecting
<1>4. pc'[x] = "scan" /\ call'[x].lock = l /\ call'[x].pos = 1
  BY <1>1, <1>2, <1>3, StartScanEffect
<1>5. \A y \in Xct \ {x} : pc'[y] = pc[y] /\ call'[y] = call[y]
  BY <1>1, <1>2, StartScanTypes
<1>6. \A k \in Lock \ {l} : queue'[k] = queue[k]
  BY <1>0, <1>1, Zenon DEF Deny, TypeOK
<1>7. \A y \in Xct : ~Reached(l, y)'
  BY <1>4 DEF Reached, Scanned
<1>. QED
  BY <1>1, <1>2, <1>5, <1>6, <1>7, UnforgottenElsewhere

LEMMA FreeUnforgotten ==
  ASSUME CoreInv, Unforgotten, NEW x \in Xct, Free(x)
  PROVE  Unforgotten'
<1>. USE DEF CoreInv
<1>1. PICK l \in Lock : Uncount(x, l) \/ Release(x, l)
  BY DEF Free
<1>2. TypeOK
  BY DEF WaitInv, TypeInv
<1>3. pc[x] = "idle" /\ \A k \in Lock : req[k][x].st \notin Pending
  BY <1>1 DEF Uncount, Release, CanRelease, At, WaitInv, PendingAwaits, Awaiting
<1>4. CASE Uncount(x, l)
  <2>1. RequestsKept /\ gmode' = gmode /\ OnlyRequest(l, x)
    BY <1>2, <1>4, UncountEffect, SetReqOnly DEF Uncount
  <2>2. Untouched
    BY <1>3, <2>1, CountServes
  <2>. QED
    BY <1>4, <2>1, <2>2, UnforgottenUntouched DEF Uncount, RequestsKept
<1>5. CASE Release(x, l)
  <2>1. /\ OnlyRequest(l, x) /\ req'[l][x].st = "none" /\ StartScan(x, l) /\ owner[l] = NoXct
        /\ \A k \in Lock \ {l} : queue'[k] = queue[k]
    BY <1>2, <1>5, ReleaseEffect DEF Release, CanRelease, TypeOK
  <2>2. \A y \in Xct \ {x} : pc'[y] = pc[y] /\ call'[y] = call[y]
    BY <1>2, <2>1, StartScanTypes DEF WaitInv
  <2>3. ASSUME NEW y \in Xct, Reached(l, y)' PROVE Blocked(l, y)'
    <3>1. CASE waiting[l]
      <4>1. pc'[x] = "scan" /\ call'[x].lock = l /\ call'[x].pos = 1
        BY <1>2, <2>1, <3>1, StartScanEffect
      <4>. QED
        BY <2>3, <4>1 DEF Reached, Scanned
    <3>2. CASE ~waiting[l]
      <4>1. req[l][y].st \notin Pending
        BY <2>1, <3>2 DEF OrderInv, FlagTellsWaiters
      <4>2. Wants(l, y)' = "NL"
        BY <2>1, <4>1 DEF OnlyRequest, Wants, Pending
      <4>. QED
        BY <4>2 DEF Blocked
    <3>. QED
      BY <3>1, <3>2
  <2>. QED
    BY <1>3, <2>1, <2>2, <2>3, UnforgottenElsewhere
<1>. QED
  BY <1>1, <1>4, <1>5

\* A walk gets past a request by granting it, or by finding that it must go on waiting.
LEMMA ScanUnforgotten ==
  ASSUME CoreInv, Sound', Unforgotten, NEW x \in Xct, Scan(x)
  PROVE  Unforgotten'
<1>. USE DEF CoreInv
<1>0. PICK l \in Lock : l = call[x].lock
  BY DEF WaitInv, TypeInv, TypeOK, Call
<1>. DEFINE q == queue[l]
            pos == call[x].pos
<1>1. /\ TypeOK /\ TypeInv /\ Sound /\ pc[x] = "scan" /\ owner[l] = x
      /\ q \in Seq(Xct) /\ Len(q) \in Nat /\ pos \in Nat
      /\ \A i \in 1..Len(q) : q[i] \in Xct
  <2>1. pc[x] = "scan"
    BY DEF Scan, ScanGrant, ScanPass, ScanEnd, NextPending, At
  <2>2. owner[l] = x
    BY <1>0, <2>1 DEF WaitInv, Exclusive, InHead
  <2>3. q \in Seq(Xct) /\ pos \in Nat
    BY DEF WaitInv, TypeInv, TypeOK, Call
  <2>. QED
    BY <2>1, <2>2, <2>3, SoundNow DEF WaitInv, TypeInv
<1>2. \A o \in Xct : Scanned(l, o) => o = x
  BY <1>1, ScannerOwns
<1>3. \A j \in 1..Len(q) : j < pos => Blocked(l, q[j])
  BY <1>0, <1>1, <1>2 DEF Unforgotten, Reached
<1>4. \A k \in 1..Len(q), j \in 1..Len(q) : q[j] = q[k] => j = k
  BY DEF WaitInv, TypeInv, Queued, NoDuplicates
\* What is behind a walk that has come to place i.
<1>5. ASSUME NEW i \in 1..Len(q), NextPending(x, i), NEW j \in 1..Len(q), j < i
      PROVE  Blocked(l, q[j]) /\ req[l][q[j]].st # "waiting" /\ q[j] # q[i]
  <2>1. req[l][q[j]].st # "waiting"
    BY <1>0, <1>5, ScanPlace DEF Passed
  <2>2. CASE j < pos
    BY <1>3, <1>4, <1>5, <2>1, <2>2
  <2>3. CASE ~(j < pos)
    <3>1. j \in 1..(i - 1) /\ j >= pos
      BY <1>1, <1>5, <2>3
    <3>2. req[l][q[j]].st \notin Pending
      BY <1>0, <1>5, <3>1 DEF NextPending
    <3>3. Wants(l, q[j]) = "NL"
      BY <3>2 DEF Wants
    <3>. QED
      BY <1>4, <1>5, <2>1, <3>3 DEF Blocked
  <2>. QED
    BY <2>2, <2>3
<1>6. CASE ScanGrant(x)
  <2>1. PICK i \in 1..Len(q) :
          /\ NextPending(x, i)
          /\ OnlyRequest(l, q[i])
          /\ req'[l][q[i]].st = "granted"
          /\ req'[l][q[i]].mode = WantedMode(req[l][q[i]])
          /\ call' = [call EXCEPT ![x].pos = i + 1]
          /\ UNCHANGED <<queue, pc>>
    BY <1>0, <1>1, <1>6, ScanGrantEffect
  <2>2. PICK y \in Xct : y = q[i]
    BY <1>1
  <2>3. /\ Scanned(l, x)' /\ call'[x].pos = i + 1
        /\ \A z \in Xct \ {x} : call'[z] = call[z]
    <3>1. call' = [call EXCEPT ![x].pos = i + 1] /\ pc'[x] = "scan"
      BY <1>1, <2>1
    <3>2. call \in [Xct -> Call] /\ call[x] \in Call
      BY <1>1 DEF TypeOK
    <3>. QED
      BY <1>0, <3>1, <3>2 DEF Call, Scanned
  <2>4. Only(l, y) /\ Leq(Has(l, y), Has(l, y)') /\ Wants(l, y)' = "NL"
    <3>1. Only(l, y) /\ Wants(l, y)' = "NL" /\ Has(l, y)' = WantedMode(req[l][y])
      BY <2>1, <2>2, OnlyOne DEF Wants, Pending, Has, Holds, Held, HeldMode
    <3>2. req[l][y].st \in Pending
      BY <1>0, <2>1, <2>2 DEF NextPending
    <3>3. Wish(req[l][y]) /\ WantedMode(req[l][y]) \in Mode
      BY <1>1, ModeFacts DEF WishInv, TypeOK, Request, WantedMode
    <3>4. Leq(Has(l, y), WantedMode(req[l][y]))
      <4>1. CASE req[l][y].st = "converting"
        BY <3>3, <4>1 DEF Wish, WantedMode, Has, Holds, Held, HeldMode
      <4>2. CASE req[l][y].st = "waiting"
        BY <3>3, <4>2, NLAbsorbed DEF Has, Holds, Held
      <4>. QED
        BY <3>2, <4>1, <4>2 DEF Pending
    <3>. QED
      BY <3>1, <3>4
  <2>5. ASSUME NEW z \in Xct, Reached(l, z)' PROVE Blocked(l, z)'
    <3>1. PICK j \in 1..Len(q) : j < i + 1 /\ q[j] = z
      BY <2>1, <2>3, <2>5 DEF Reached
    <3>2. CASE j = i
      BY <2>2, <2>4, <3>1, <3>2 DEF Blocked
    <3>3. CASE j < i
      <4>1. Blocked(l, z) /\ req[l][z].st # "waiting" /\ z # y
        BY <1>5, <2>1, <2>2, <3>1, <3>3
      <4>. QED
        BY <1>1, <2>4, <4>1, BlockedStays DEF AtFront
    <3>. QED
      BY <3>1, <3>2, <3>3
  <2>6. /\ \A z \in Xct \ {x} : pc'[z] = pc[z] /\ call'[z] = call[z]
        /\ \A k \in Lock \ {l} : queue'[k] = queue[k]
        /\ OnlyRequest(l, y)
    BY <2>1, <2>2, <2>3
  <2>. QED
    BY <1>0, <2>5, <2>6, UnforgottenElsewhere
<1>7. CASE ScanPass(x)
  <2>1. PICK i \in 1..Len(q) :
          /\ NextPending(x, i)
          /\ req[l][q[i]].st = "converting" /\ ~CanConvert(x, q[i])
          /\ call' = [call EXCEPT ![x].pos = i + 1]
          /\ UNCHANGED <<headVars, owner, pc, infoVars, sig, fatal>>
    BY <1>0, <1>7 DEF ScanPass
  <2>2. UNCHANGED <<queue, req, pc>>
    BY <2>1 DEF headVars
  <2>3. /\ Scanned(l, x)' /\ call'[x].pos = i + 1
        /\ \A z \in Xct \ {x} : call'[z] = call[z]
    BY <1>0, <1>1, <2>1, <2>2 DEF TypeOK, Call, Scanned
  <2>4. Blocked(l, q[i])
    <3>1. Wants(l, q[i]) = req[l][q[i]].cmode
      BY <2>1 DEF Wants, Pending, WantedMode
    <3>2. ~Welcome(l, q[i], req[l][q[i]].cmode)
      BY <1>0, <2>1, OthersFound DEF CanConvert, Welcome
    <3>. QED
      BY <3>1, <3>2 DEF Blocked
  <2>5. ASSUME NEW z \in Xct, Reached(l, z)' PROVE Blocked(l, z)'
    <3>1. PICK j \in 1..Len(q) : j < i + 1 /\ q[j] = z
      BY <2>2, <2>3, <2>5 DEF Reached
    <3>2. Blocked(l, z)
      <4>1. CASE j = i
        BY <2>4, <3>1, <4>1
      <4>2. CASE j < i
        BY <1>5, <2>1, <3>1, <4>2
      <4>. QED
        BY <3>1, <4>1, <4>2
    <3>. QED
      BY <2>2, <3>2, BlockedSame
  <2>6. OnlyRequest(l, x)
    BY <2>2 DEF OnlyRequest
  <2>. QED
    BY <1>0, <2>2, <2>3, <2>5, <2>6, UnforgottenElsewhere
<1>8. CASE ScanEnd(x)
  <2>1. /\ \/ \E i \in 1..Len(q) :
                NextPending(x, i) /\ req[l][q[i]].st = "waiting" /\ ~CanJoin(x, q[i])
           \/ \A i \in 1..Len(q) : ~NextPending(x, i)
        /\ UNCHANGED <<queue, req>>
        /\ Return(x)
    BY <1>0, <1>8 DEF ScanEnd
  <2>2. \A y \in Xct \ {x} : pc'[y] = pc[y] /\ call'[y] = call[y]
    BY <1>1, <2>1 DEF Return, Go, TypeOK
  <2>3. ASSUME NEW z \in Xct PROVE Blocked(l, z)
    <3>. SUFFICES ASSUME req[l][z].st \in Pending PROVE Blocked(l, z)
      BY DEF Blocked, Wants
    <3>1. PICK k \in 1..Len(q) : q[k] = z
      BY DEF WaitInv, TypeInv, Queued, In, Pending
    <3>2. CASE k < pos
      BY <1>3, <3>1, <3>2
    <3>3. CASE k >= pos
      <4>. DEFINE T == {j \in 1..Len(q) : j >= pos /\ req[l][q[j]].st \in Pending}
      <4>1. k \in T /\ T \in SUBSET Nat
        BY <3>1, <3>3
      <4>2. PICK n \in T : \A j \in T : n <= j
        BY <4>1, LeastMember
      <4>3. \A j \in 1..(n - 1) : j \notin T /\ j \in 1..Len(q)
        BY <1>1, <4>2
      <4>4. NextPending(x, n)
        BY <1>0, <1>8, <4>2, <4>3 DEF NextPending, ScanEnd
      <4>5. PICK i \in 1..Len(q) :
              NextPending(x, i) /\ req[l][q[i]].st = "waiting" /\ ~CanJoin(x, q[i])
        BY <2>1, <4>2, <4>4
      <4>6. i <= k
        <5>1. ~(k \in 1..(i - 1))
          BY <1>0, <3>1, <3>3, <4>5 DEF NextPending
        <5>. QED
          BY <5>1
      <4>7. CASE i < k
        <5>1. ~Holds(l, q[i])
          BY <4>5 DEF Holds, Held
        <5>2. ~Holds(l, q[k])
          BY <4>7, <5>1 DEF OrderInv, HoldersFirst
        <5>3. req[l][z].st = "waiting"
          BY <3>1, <5>2 DEF Holds, Held, Pending
        <5>4. ~AtFront(l, z)
          BY <3>1, <4>5, <4>7, <5>3 DEF AtFront
        <5>. QED
          BY <5>4 DEF Blocked
      <4>8. CASE i = k
        <5>1. req[l][z].st = "waiting" /\ (CvtPending(x) \/ gmode[l] \notin compat[req[l][z].mode])
          BY <1>0, <3>1, <4>5, <4>8 DEF CanJoin
        <5>2. CASE CvtPending(x)
          <6>1. PICK j \in 1..Len(q) : j < pos /\ req[l][q[j]].st = "converting"
            BY <1>0, <5>2 DEF CvtPending
          <6>2. j < k
            BY <1>1, <3>3, <6>1
          <6>3. ~AtFront(l, z)
            BY <3>1, <5>1, <6>1, <6>2 DEF AtFront
          <6>. QED
            BY <6>3 DEF Blocked
        <5>3. CASE gmode[l] \notin compat[req[l][z].mode]
          <6>1. Has(l, z) = "NL" /\ Wants(l, z) = req[l][z].mode
            BY <5>1 DEF Has, Holds, Held, Wants, Pending, WantedMode
          <6>2. gmode[l] = GroupMode(Others(l, z))
            <7>1. Modes(l) = Others(l, z) \union {"NL"}
              BY <6>1, ModesSplit
            <7>. QED
              BY <7>1, GroupModeSame DEF ExactInv
          <6>. QED
            BY <5>3, <6>1, <6>2 DEF Blocked, Welcome
        <5>. QED
          BY <5>1, <5>2, <5>3
      <4>. QED
        BY <4>6, <4>7, <4>8
    <3>. QED
      BY <1>1, <3>2, <3>3
  <2>4. \A z \in Xct : Blocked(l, z)'
    BY <2>1, <2>3, BlockedSame
  <2>5. OnlyRequest(l, x)
    BY <2>1 DEF OnlyRequest
  <2>. QED
    BY <1>0, <2>1, <2>2, <2>4, <2>5, UnforgottenElsewhere
<1>. QED
  BY <1>6, <1>7, <1>8 DEF Scan

LEMMA UnforgottenStep ==
  CoreInv /\ Unforgotten /\ Sound' /\ [Next]_vars => Unforgotten'
<1>. SUFFICES ASSUME CoreInv, Unforgotten, Sound', [Next]_vars PROVE Unforgotten'
  OBVIOUS
<1>. USE DEF CoreInv
<1>1. TypeOK /\ TypeInv
  BY DEF WaitInv, TypeInv
<1>2. ASSUME UNCHANGED <<req, queue>>,
             \A o \in Xct : pc[o] = "scan" => pc'[o] = "scan" /\ call'[o] = call[o]
      PROVE  Unforgotten'
  <2>1. Untouched
    BY <1>2 DEF Untouched, Same, Has, Wants, Holds, HeldMode
  <2>. QED
    BY <1>2, <2>1, UnforgottenUntouched
<1>3. ASSUME NEW x \in Xct, UNCHANGED <<req, queue>>, pc[x] # "scan",
             \A y \in Xct \ {x} : pc'[y] = pc[y] /\ call'[y] = call[y]
      PROVE  Unforgotten'
  BY <1>2, <1>3
<1>4. CASE UNCHANGED vars
  BY <1>2, <1>4 DEF vars, headVars
<1>5. ASSUME NEW x \in Xct, Detect(x) PROVE Unforgotten'
  <2>1. pc[x] \in {"dld", "kill"}
    BY <1>5 DEF Detect, DldMerge, DldSelf, DldOther, DldKill, DldDone, NextAwaited, At
  <2>2. CASE DldSelf(x)
    <3>1. Deny(x, "dead") /\ pc[x] = "dld" /\ owner[call[x].lock] = x
      BY <2>2 DEF DldSelf, NextAwaited, At, WaitInv, Exclusive, InHead
    <3>. QED
      BY <3>1, DenyUnforgotten DEF Awaiting, OrderInv, Detecting
  <2>3. CASE DldMerge(x) \/ DldOther(x) \/ DldKill(x) \/ DldDone(x)
    <3>1. UNCHANGED <<req, queue>>
      BY <2>3 DEF DldMerge, DldOther, DldKill, DldDone, headVars
    <3>2. \A y \in Xct \ {x} : pc'[y] = pc[y]
      BY <1>1, <2>3 DEF DldMerge, DldOther, DldKill, DldDone, Go, TypeOK
    <3>3. \A y \in Xct \ {x} : call'[y] = call[y]
      BY <1>1, <2>3 DEF DldMerge, DldOther, DldKill, DldDone, SkipQueue, TypeOK
    <3>. QED
      BY <1>3, <2>1, <3>1, <3>2, <3>3
  <2>. QED
    BY <1>5, <2>2, <2>3 DEF Detect
<1>6. ASSUME NEW x \in Xct, Wake(x) PROVE Unforgotten'
  <2>0. PICK l \in Lock : l = call[x].lock
    BY DEF WaitInv, TypeInv, TypeOK, Call
  <2>1. pc[x] = "woken" /\ owner[l] = NoXct
    BY <1>6, <2>0 DEF Wake, TryAgain, GiveUp, Granted, Retakes, At
  <2>2. CASE TryAgain(x)
    <3>1. UNCHANGED <<req, queue>> /\ \A y \in Xct \ {x} : pc'[y] = pc[y] /\ call'[y] = call[y]
      BY <1>1, <2>2 DEF TryAgain, headVars, Go, TypeOK
    <3>. QED
      BY <1>3, <2>1, <3>1
  <2>3. CASE GiveUp(x)
    <3>1. Deny(x, sig[x]) /\ pc[x] \in Awaiting /\ req[l][x].st # "granted"
      BY <2>0, <2>3 DEF GiveUp, Retakes, At, Awaiting, MyStatus
    <3>2. req[l][x].st \in Pending
      BY <2>0, <3>1 DEF WaitInv, TypeInv, RoomToCount, TypeOK, Request, Status, Pending
    <3>. QED
      BY <2>0, <2>1, <3>1, <3>2, DenyUnforgotten
  <2>4. CASE Granted(x)
    <3>1. RequestsKept /\ gmode' = gmode /\ OnlyRequest(l, x)
      BY <1>1, <2>0, <2>4, GrantedOnly
    <3>2. req[l][x].st = "granted"
      BY <2>0, <2>4 DEF Granted, MyStatus, WaitInv, Told
    <3>3. Untouched
      BY <3>1, <3>2, CountServes DEF Pending
    <3>4. \A o \in Xct : pc[o] = "scan" => pc'[o] = "scan" /\ call'[o] = call[o]
      BY <1>1, <2>1, <2>4 DEF Granted, Return, Go, TypeOK
    <3>. QED
      BY <2>4, <3>1, <3>3, <3>4, UnforgottenUntouched DEF Granted, RequestsKept
  <2>. QED
    BY <1>6, <2>2, <2>3, <2>4 DEF Wake
<1>7. ASSUME NEW x \in Xct, Sleep(x) \/ End(x) \/ Poison(x) PROVE Unforgotten'
  <2>1. UNCHANGED <<req, queue, call>> /\ \A o \in Xct : pc[o] = "scan" => pc'[o] = "scan"
    BY <1>1, <1>7 DEF Sleep, Nap, EndNap, End, Poison, headVars, At, Go, TypeOK
  <2>. QED
    BY <1>2, <2>1
<1>8. CASE \E x \in Xct : Ask(x) \/ Detect(x) \/ Sleep(x) \/ Wake(x) \/ Free(x) \/ Scan(x) \/ End(x)
  BY <1>5, <1>6, <1>7, <1>8, AskUnforgotten, ScanUnforgotten, FreeUnforgotten
<1>9. CASE \E x \in Poisonable : Poison(x)
  BY <1>7, <1>9, PoisonAssumption
<1>. QED
  BY <1>4, <1>8, <1>9 DEF Next, Finished, Crashed

\* No request is left waiting that could be granted, but for the pair UD and IS: where no
\* thread is at work on the head, each one waits for a holder or for a request ahead of it.
THEOREM NoneForgotten ==
  ASSUME ~Spurious
  PROVE  Spec => []NobodyForgotten
<1>1. Init => Unforgotten
  BY DEF Init, Unforgotten, Blocked, Wants, NoReq, Pending
<1>2. CoreInv /\ Sound' /\ Unforgotten /\ [Next]_vars => Unforgotten'
  BY UnforgottenStep
<1>3. CoreInv => Sound
  BY SoundNow
<1>4. CoreInv /\ Unforgotten => NobodyForgotten
  <2>. SUFFICES ASSUME CoreInv, Unforgotten, NEW l \in Lock, NEW x \in Xct,
                       owner[l] = NoXct, Grantable(l, x)
                PROVE  "UD" \in AskModes /\ WantedMode(req[l][x]) \in {"UD", "IS"}
    BY DEF NobodyForgotten
  <2>1. Blocked(l, x)
    BY FreeReached DEF Unforgotten
  <2>2. Wish(req[l][x])
    BY DEF CoreInv, WishInv
  <2>3. Wants(l, x) = WantedMode(req[l][x]) /\ Wants(l, x) # "NL"
    BY <2>2 DEF Grantable, Wants, WantedMode, Pending, Wish, Possible
  <2>4. Welcome(l, x, Wants(l, x)) /\ AtFront(l, x)
    <3>1. CASE req[l][x].st = "converting"
      BY <2>3, <3>1, OthersFound DEF Grantable, Welcome, WantedMode, AtFront, CoreInv
    <3>2. CASE req[l][x].st = "waiting"
      <4>1. /\ gmode[l] \in compat[req[l][x].mode] /\ AtFront(l, x)
        BY <3>2 DEF Grantable, AtFront
      <4>2. Has(l, x) = "NL"
        BY <3>2 DEF Has, Holds, Held
      <4>3. gmode[l] = GroupMode(Others(l, x))
        <5>1. Modes(l) = Others(l, x) \union {"NL"}
          BY <4>2, ModesSplit
        <5>. QED
          BY <5>1, GroupModeSame DEF CoreInv, ExactInv
      <4>. QED
        BY <2>3, <3>2, <4>1, <4>3 DEF Welcome, WantedMode
    <3>. QED
      BY <3>1, <3>2 DEF Grantable
  <2>. QED
    BY <2>1, <2>3, <2>4 DEF Blocked, Excused
<1>. QED
  BY <1>1, <1>2, <1>3, <1>4, CoreAlways, PTL DEF Spec

=============================================================================
