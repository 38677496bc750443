-------------------------- MODULE LogBufferProofs --------------------------
(***************************************************************************)
(* What LogBuffer promises of flushes, for any number of threads, any size *)
(* of the buffer, the blocks and the partitions, and any records: under    *)
(* SparedSpec, where an insert keeps off what is not on disk yet.          *)
(*                                                                         *)
(* The invariant speaks of a function at, of no code: what was inserted    *)
(* where, as an lsn for each position that the log has ever had in the     *)
(* buffer, counted on past its end.  The buffer shows a window of it, a    *)
(* group in the line a piece of it that is still to be copied, and the     *)
(* epochs and a flush a piece of it that was.                              *)
(***************************************************************************)
EXTENDS LogBuffer, FiniteSetTheorems, TLAPS

(***************************************************************************)
(* Types.                                                                  *)
(***************************************************************************)
PC == {"out", "join", "first", "space", "space wait", "space asleep", "copy", "expose", "update",
       "hand over", "flush wait", "flush asleep"}
Info == [count : {"unused", "available", "pending", "finished"}, joined : Nat, left : Int,
         error : BOOLEAN, lsn : Nat, oldEnd : Nat, startPos : Nat, pos : Nat, newEnd : Nat,
         newBase : Nat \union {-1}, state : {"none", "go", "waiting", "abort"}]
Local == [n : Nat, idx : 0..(Active - 1), slot : Slot, pos : Nat, lsn : Nat \union {-1},
          size : Nat, todo : Nat]
Span == [lsn : Nat, base : Nat, start : Nat, end : Nat]
Job == [lsn : Nat, start1 : Nat, end1 : Nat, start2 : Nat, end2 : Nat, upto : Nat,
        newStart : Nat, success : BOOLEAN]

TypeOK ==
  /\ slots \in [0..(Active - 1) -> Slot]
  /\ info \in [Slot -> Info]
  /\ expose \in Seq(Slot)
  /\ buf \in Span /\ cur \in Span /\ old \in Span
  /\ tail \in Nat /\ start \in Nat /\ end \in Nat
  /\ bytes \in [0..(Seg - 1) -> Nat \union {-1}]
  /\ clr \subseteq Nat /\ kept \subseteq Nat
  /\ flag \in [space : BOOLEAN, flush : BOOLEAN]
  /\ pc \in [Thread -> PC] /\ my \in [Thread -> Local]
  /\ dpc \in {"asleep", "top", "work", "comp", "write", "durable"}
  /\ fl \in Job
  /\ flushing \in Nat /\ durable \in Nat
  /\ world.size \subseteq Nat \ {0}

(***************************************************************************)
(* Groups: who is in one, and what is left to copy.                        *)
(***************************************************************************)
Leader(t) == pc[t] \in {"first", "space", "space wait", "space asleep"}
Member(t) == Leader(t) \/ pc[t] = "copy"
Owner(t) == pc[t] \in {"expose", "update", "hand over"}

\* What a member has of its group, and what the members of a group have still to copy.
Part(t) == my[t].pos .. (my[t].pos + my[t].n - 1)
Rest(s) == UNION {Part(t) : t \in {u \in Thread : Member(u) /\ my[u].slot = s}}

MemberRight(t) ==
  /\ pc[t] = "join" => my[t].n > 0
  /\ Member(t) => my[t].n > 0 /\ my[t].pos + my[t].n <= info[my[t].slot].joined
  /\ pc[t] = "first" => info[my[t].slot].count = "available"
  /\ Leader(t) /\ pc[t] # "first" => info[my[t].slot].count = "pending"
Apart(t, u) ==
  t # u /\ Member(t) /\ Member(u) /\ my[t].slot = my[u].slot =>
    /\ ~(Leader(t) /\ Leader(u))
    /\ Part(t) \intersect Part(u) = {}
MemberInv == \A t \in Thread : MemberRight(t) /\ \A u \in Thread : Apart(t, u)
\* An open group is made up of its members; of a closed one, left is what is still to be copied.
RestInv ==
  \A s \in Slot :
    /\ info[s].count = "unused" => info[s].joined = 0
    /\ info[s].count \in {"available", "pending"} => ~info[s].error /\ Rest(s) = 0 .. (info[s].joined - 1)
    /\ info[s].count = "finished" /\ ~info[s].error => info[s].left = Cardinality(Rest(s))

\* Each group of the line is there once; its last one finds nothing left to copy.
Lined(s) == info[s].count = "finished" /\ ~info[s].error
QueueInv ==
  /\ \A j, k \in DOMAIN expose : expose[j] = expose[k] => j = k
  /\ \A s \in Slot : Lined(s) <=> \E k \in DOMAIN expose : expose[k] = s
  /\ \A k \in DOMAIN expose : info[expose[k]].state \in IF k = 1 THEN {"go", "abort"} ELSE {"waiting", "abort"}
  /\ \A s \in Slot : Lined(s) /\ info[s].state = "abort" => Rest(s) = {}
\* Who exposes a group, for itself or for the one before it, finds all of it copied.
OwnerRight(t) ==
  /\ Lined(my[t].slot) /\ Rest(my[t].slot) = {}
  /\ pc[t] # "expose" => expose[1] = my[t].slot
  /\ pc[t] = "expose" => info[my[t].slot].state # "abort"
  /\ \A u \in Thread : Owner(u) /\ my[u].slot = my[t].slot => u = t
OwnerInv == \A t \in Thread : Owner(t) => OwnerRight(t)

(***************************************************************************)
(* Where groups and epochs are.                                            *)
(***************************************************************************)
\* A group that is being handed over is in _cur_epoch already: the line begins after it.
Shown == \E t \in Thread : pc[t] = "hand over"
First == IF Shown THEN 2 ELSE 1
Line == First .. Len(expose)

Spot(i) == [joined |-> i.joined, lsn |-> i.lsn, oldEnd |-> i.oldEnd, startPos |-> i.startPos, pos |-> i.pos,
            newEnd |-> i.newEnd, newBase |-> i.newBase]
Grp(k) == Spot(info[expose[k]])
Bgn(i) == IF i.newBase > 0 THEN i.newBase ELSE i.oldEnd
Fin(i) == Bgn(i) + i.joined
\* The epoch that ends with a group.
EpochOf(i) == [lsn |-> i.lsn + i.joined - i.newEnd, base |-> Bgn(i) + i.joined - i.newEnd, end |-> i.newEnd]
Ends(e) == [lsn |-> e.lsn, base |-> e.base, end |-> e.end]
Prev(k) == IF k = First THEN Ends(cur) ELSE EpochOf(Grp(k - 1))

\* A group goes on from an epoch, or starts the next partition.
Follows(e, i) ==
  /\ i.joined > 0 /\ i.oldEnd = e.base + e.end
  /\ \/ /\ i.newBase = -1 /\ i.startPos = e.end /\ i.lsn = e.lsn + e.end /\ i.pos = e.end + i.joined
        /\ \/ i.pos <= Seg /\ i.newEnd = i.pos
           \/ /\ i.pos > Seg /\ i.newEnd = i.pos - Seg /\ i.newEnd <= Seg
              /\ lo(e.lsn) + i.pos <= Data
     \/ /\ i.newBase = e.base + Seg /\ i.startPos = 0 /\ i.pos = i.joined /\ i.newEnd = i.joined
        /\ i.joined <= Seg
        /\ lo(i.lsn) = 0 /\ file(i.lsn) = file(e.lsn) + 1 /\ e.lsn + e.end < i.lsn

Aligned(e) ==
  /\ lo(e.lsn) % Seg = 0 /\ lo(e.lsn) + Seg <= Data /\ e.base % Seg = 0 /\ e.end <= Seg
\* at has the lsn of every byte up to end, and -1 for those left out.
Holds(at, e) == \A o \in 0 .. (e.end - 1) : at[e.base + o] = e.lsn + o
HoldsGroup(at, i) ==
  /\ \A a \in i.oldEnd .. (Bgn(i) - 1) : at[a] = -1
  /\ \A x \in 0 .. (i.joined - 1) : at[Bgn(i) + x] = i.lsn + x
Placed(i) == i.oldEnd <= Bgn(i) /\ i.startPos <= Bgn(i) /\ (Bgn(i) - i.startPos) % Seg = 0

\* at increases, and a byte of the log has one place in the buffer.
AtInv(at) ==
  \A a \in 0 .. (end - 1) :
    /\ at[a] = -1 \/ (at[a] \in Nat /\ at[a] < tail /\ Where(at[a]) = a % Seg)
    /\ \A b \in 0 .. (a - 1) : at[a] # -1 => at[b] < at[a]

CurEnd == cur.base + cur.end
CurLsn == cur.lsn + cur.end
\* The line of groups fills what is between _cur_epoch and _buf_epoch.
EndsInv(at) ==
  /\ end = buf.base + buf.end /\ tail = buf.lsn + buf.end
  /\ Aligned(buf) /\ Aligned(cur) /\ Holds(at, cur)
  /\ CurEnd <= end /\ CurLsn <= tail
  /\ Ends(buf) = IF First > Len(expose) THEN Ends(cur) ELSE EpochOf(Grp(Len(expose)))
LineRight(at, k) ==
  /\ Follows(Prev(k), Grp(k)) /\ Placed(Grp(k)) /\ HoldsGroup(at, Grp(k))
  /\ CurEnd <= Grp(k).oldEnd /\ Fin(Grp(k)) <= end
  /\ CurLsn <= Grp(k).lsn /\ Grp(k).lsn + Grp(k).joined <= tail
Ordered(j, k) == Fin(Grp(j)) <= Grp(k).oldEnd /\ Grp(j).lsn + Grp(j).joined <= Grp(k).lsn
LineInv(at) == \A k \in Line : LineRight(at, k) /\ \A j \in Line : j < k => Ordered(j, k)

(***************************************************************************)
(* The bytes of the buffer.                                                *)
(***************************************************************************)
Copies(t) == pc[t] = "copy" /\ Lined(my[t].slot)
Target(t) == {Bgn(Spot(info[my[t].slot])) + x : x \in Part(t)}
Kept == start - (start % Block)

\* A byte that was claimed is there, or a member has still to copy it.
There(at, a) == at[a] # -1 => bytes[a % Seg] = at[a] \/ \E t \in Thread : Copies(t) /\ a \in Target(t)
BytesInv(at) ==
  /\ start <= end /\ end - Kept <= Seg
  /\ \A a \in Kept .. (end - 1) : There(at, a)
  /\ \A p \in 0 .. (Seg - 1) : bytes[p] >= durable =>
       \E a \in 0 .. (end - 1) : a % Seg = p /\ at[a] = bytes[p]

(***************************************************************************)
(* The epochs of the daemon, and a flush.                                  *)
(***************************************************************************)
NextPos == IF Empty(old) THEN cur.base + cur.start ELSE old.base + old.start
NextLsn == IF Empty(old) THEN cur.lsn + cur.start ELSE old.lsn + old.start

\* The log up to a position is what is below d, and after it comes l.
Cut(at, d, pos, l) ==
  /\ d = l \/ (d < l /\ lo(l) = 0)
  /\ \A a \in 0 .. (end - 1) : IF a < pos THEN at[a] < d ELSE at[a] = -1 \/ l <= at[a]

\* The old epoch ends a segment, and the current one begins the next or the next partition.
EpochInv(at) ==
  /\ cur.start <= cur.end /\ old.start <= old.end
  /\ ~Empty(old) =>
       /\ Aligned(old) /\ Holds(at, old)
       /\ old.base + Seg = cur.base /\ cur.start = 0 /\ cur.end > 0
       /\ IF file(old.lsn) = file(cur.lsn) THEN old.end = Seg /\ cur.lsn = old.lsn + Seg
                                           ELSE lo(cur.lsn) = 0

Flight == {"comp", "write"}
Idle == dpc \in {"asleep", "top", "work"}
\* Where a flush is in the counting of at: its first part before a wrap, its second after.
FlBase2 == fl.newStart - fl.end2
FlBase1 == IF fl.start1 = fl.end1 THEN FlBase2 ELSE FlBase2 - Seg
FlPos == FlBase1 + fl.start1
One == (fl.start1 - (lo(fl.lsn) % Block)) .. (fl.end1 - 1)
Two == fl.start2 .. (fl.end2 - 1)

InFlight(at) ==
  /\ FlBase1 \in Nat /\ FlBase1 % Seg = 0 /\ FlBase2 \in Nat /\ FlBase2 % Seg = 0
  /\ start <= FlPos /\ FlPos <= fl.newStart /\ Cut(at, durable, FlPos, fl.lsn)
  /\ fl.lsn <= fl.upto /\ fl.start1 <= fl.end1
  /\ \A p \in One : /\ p \in 0 .. (Seg - 1) /\ Kept <= FlBase1 + p /\ FlBase1 + p < CurEnd
                    /\ at[FlBase1 + p] = fl.lsn + p - fl.start1
  /\ \A p \in Two : /\ p \in 0 .. (Seg - 1) /\ Kept <= FlBase2 + p /\ FlBase2 + p < CurEnd
                    /\ at[FlBase2 + p] = fl.lsn + fl.end1 - fl.start1 + p - fl.start2
\* The daemon cuts the log where the epochs begin, and between its steps where the flush ends.
FlushInv(at) ==
  /\ Idle => start <= NextPos /\ Cut(at, durable, NextPos, NextLsn)
  /\ ~Idle => start <= fl.newStart /\ fl.newStart <= NextPos /\ Cut(at, fl.upto, NextPos, NextLsn)
  /\ dpc = "durable" => durable = fl.upto
  /\ flushing = IF dpc = "write" THEN fl.upto ELSE durable
  /\ dpc \in Flight => InFlight(at)

(***************************************************************************)
(* Records.                                                                *)
(***************************************************************************)
Recorded(t) == my[t].lsn >= 0
RecEnd(t) == my[t].lsn + my[t].size
Whole(t, x) == x <= my[t].lsn \/ RecEnd(t) <= x
\* A record lies in one piece of the log, in the epochs or in a group of the line.
InLog(t) ==
  RecEnd(t) <= CurLsn \/ \E k \in Line : Grp(k).lsn <= my[t].lsn /\ RecEnd(t) <= Grp(k).lsn + Grp(k).joined
RecordRight(t) ==
  /\ InLog(t)
  /\ my[t].size > 0
  /\ \A l \in my[t].lsn .. (RecEnd(t) - 1) : durable <= l => bytes[Where(l)] = l
  /\ Whole(t, durable)
  /\ dpc \in Flight => Whole(t, fl.upto)
  /\ lo(cur.lsn) = 0 => Whole(t, cur.lsn)
RecordInv ==
  \A t \in Thread : /\ Recorded(t) => RecordRight(t)
                    /\ pc[t] \in {"flush wait", "flush asleep"} => Recorded(t)
\* What was compensated is in the log, and on disk it is so as well.
ClrInv(at) ==
  \A l \in clr : (l < durable => l \in kept) /\ \E a \in 0 .. (end - 1) : at[a] = l

Ghost(at) ==
  /\ AtInv(at) /\ EndsInv(at) /\ LineInv(at) /\ BytesInv(at) /\ EpochInv(at) /\ FlushInv(at)
  /\ RecordInv /\ ClrInv(at)
GroupInv == MemberInv /\ RestInv /\ QueueInv /\ OwnerInv

LEMMA DivMod ==
  ASSUME NEW x \in Nat, NEW m \in Nat \ {0}
  PROVE  x \div m \in Nat /\ x % m \in 0 .. m - 1 /\ x = m * (x \div m) + (x % m)
  OBVIOUS

LEMMA Product ==
  ASSUME NEW m \in Nat \ {0}, NEW p \in Int, NEW q \in Int, p < q
  PROVE  m * p + m <= m * q
<1>1. m * (q - p) >= m
  BY Z3
<1>2. m * (q - p) = m * q - m * p
  OBVIOUS
<1>. QED
  BY <1>1, <1>2

LEMMA DivModIs ==
  ASSUME NEW m \in Nat \ {0}, NEW q \in Nat, NEW r \in 0 .. m - 1, NEW x \in Nat, x = m * q + r
  PROVE  x \div m = q /\ x % m = r
<1>. DEFINE p == x \div m
            s == x % m
<1>1. p \in Nat /\ s \in 0 .. m - 1 /\ x = m * p + s
  BY DivMod
<1>. HIDE DEF p, s
<1>2. ~(p < q)
  <2>1. SUFFICES ASSUME p < q PROVE FALSE
    OBVIOUS
  <2>2. m * p + m <= m * q
    BY <1>1, <2>1, Product
  <2>3. m * p \in Int /\ m * q \in Int
    BY <1>1
  <2>. QED
    BY <1>1, <2>2, <2>3
<1>3. ~(q < p)
  <2>1. SUFFICES ASSUME q < p PROVE FALSE
    OBVIOUS
  <2>2. m * q + m <= m * p
    BY <1>1, <2>1, Product
  <2>3. m * p \in Int /\ m * q \in Int
    BY <1>1
  <2>. QED
    BY <1>1, <2>2, <2>3
<1>4. p = q
  BY <1>1, <1>2, <1>3
<1>5. s = r
  BY <1>1, <1>4
<1>. QED
  BY <1>4, <1>5 DEF p, s

LEMMA Multiple ==
  ASSUME NEW m \in Nat \ {0}, NEW b \in Nat, b % m = 0
  PROVE  \E p \in Nat : b = m * p /\ p = b \div m
<1>. DEFINE p == b \div m
<1>1. p \in Nat /\ b = m * p + (b % m)
  BY DivMod
<1>. HIDE DEF p
<1>2. b = m * p
  BY <1>1
<1>. QED
  BY <1>1, <1>2 DEF p

\* What is added to a multiple.
LEMMA ModAdd ==
  ASSUME NEW m \in Nat \ {0}, NEW b \in Nat, b % m = 0, NEW x \in Nat
  PROVE  (b + x) % m = (x % m) /\ (b + x) \div m = (b \div m) + (x \div m)
<1>1. PICK p \in Nat : p = b \div m /\ b = m * p
  BY Multiple
<1>2. PICK q \in Nat, r \in 0 .. m - 1 : x = m * q + r /\ r = x % m /\ q = x \div m
  BY DivMod
<1>3. m * (p + q) = m * p + m * q
  OBVIOUS
<1>4. PICK y \in Nat, z \in Nat : y = b + x /\ z = p + q
  OBVIOUS
<1>5. m * z = m * p + m * q
  BY <1>3, <1>4
<1>6. y = m * z + r
  <2>1. PICK u \in Int, v \in Int, w \in Int : u = m * p /\ v = m * q /\ w = m * z
    OBVIOUS
  <2>2. u + v = w /\ b = u /\ x = v + r /\ y = b + x
    BY <1>1, <1>2, <1>4, <1>5, <2>1
  <2>3. y = w + r
    BY <2>2
  <2>. QED
    BY <2>1, <2>3
<1>7. y % m = r /\ y \div m = z
  BY <1>6, DivModIs
<1>. QED
  BY <1>1, <1>2, <1>4, <1>7

LEMMA ModSmall ==
  ASSUME NEW m \in Nat \ {0}, NEW x \in 0 .. m - 1
  PROVE  x % m = x /\ x \div m = 0
<1>1. x = m * 0 + x
  OBVIOUS
<1>. QED
  BY <1>1, DivModIs

\* Different places less than a buffer apart.
LEMMA ModDiffers ==
  ASSUME NEW m \in Nat \ {0}, NEW a \in Nat, NEW b \in Nat, a < b, b - a < m
  PROVE  a % m # b % m
<1>1. PICK p \in Nat, r \in 0 .. m - 1 : a = m * p + r /\ r = a % m
  BY DivMod
<1>2. PICK q \in Nat, s \in 0 .. m - 1 : b = m * q + s /\ s = b % m
  BY DivMod
<1>3. SUFFICES ASSUME r = s PROVE FALSE
  BY <1>1, <1>2
<1>4. m * p < m * q /\ m * q - m * p < m /\ m * p \in Int /\ m * q \in Int
  BY <1>1, <1>2, <1>3
<1>5. CASE p < q
  <2>1. m * p + m <= m * q
    BY <1>5, Product
  <2>. QED
    BY <1>4, <2>1
<1>6. CASE q <= p
  <2>1. q = p \/ m * q + m <= m * p
    BY <1>6, Product
  <2>. QED
    BY <1>4, <2>1
<1>. QED
  BY <1>5, <1>6

\* Multiples are at least that far apart.
LEMMA Multiples ==
  ASSUME NEW m \in Nat \ {0}, NEW a \in Nat, NEW b \in Nat, a % m = 0, b % m = 0, a < b
  PROVE  a + m <= b
<1>1. PICK p \in Nat : a = m * p
  BY Multiple
<1>2. PICK q \in Nat : b = m * q
  BY Multiple
<1>3. p < q
  <2>1. SUFFICES ASSUME q <= p PROVE FALSE
    BY <1>1, <1>2
  <2>2. q = p \/ m * q + m <= m * p
    BY <2>1, Product
  <2>3. m * p \in Int /\ m * q \in Int
    OBVIOUS
  <2>. QED
    BY <1>1, <1>2, <2>2, <2>3
<1>4. m * p + m <= m * q
  BY <1>3, Product
<1>. QED
  BY <1>1, <1>2, <1>4

LEMMA ModFactor ==
  ASSUME NEW k \in Nat \ {0}, NEW m \in Nat \ {0}, m % k = 0, NEW b \in Nat, b % m = 0
  PROVE  b % k = 0
<1>1. PICK p \in Nat : b = m * p
  BY Multiple
<1>2. PICK q \in Nat : m = k * q
  BY Multiple
<1>3. b = k * (q * p) + 0 /\ q * p \in Nat
  BY <1>1, <1>2
<1>. QED
  BY <1>3, DivModIs

\* Rounding down.
LEMMA RoundDown ==
  ASSUME NEW m \in Nat \ {0}, NEW a \in Nat, NEW b \in Nat, a <= b
  PROVE  a - (a % m) <= b - (b % m) /\ a - (a % m) \in Nat /\ a - (a % m) <= a /\ a < a - (a % m) + m
<1>1. PICK p \in Nat, r \in 0 .. m - 1 : a = m * p + r /\ r = a % m
  BY DivMod
<1>2. PICK q \in Nat, s \in 0 .. m - 1 : b = m * q + s /\ s = b % m
  BY DivMod
<1>3. m * p \in Nat /\ m * q \in Nat
  OBVIOUS
<1>4. p <= q
  <2>1. SUFFICES ASSUME q < p PROVE FALSE
    BY <1>1, <1>2
  <2>2. m * q + m <= m * p
    BY <2>1, Product
  <2>. QED
    BY <1>1, <1>2, <1>3, <2>2
<1>5. p = q \/ m * p + m <= m * q
  BY <1>4, Product
<1>6. m * p <= m * q
  BY <1>3, <1>5
<1>7. PICK u \in Nat, v \in Nat : u = m * p /\ v = m * q
  BY <1>3
<1>8. a = u + r /\ b = v + s /\ u <= v
  BY <1>1, <1>2, <1>6, <1>7
<1>9. a - r = u /\ b - s = v /\ r < m
  BY <1>8
<1>. QED
  BY <1>1, <1>2, <1>8, <1>9

-----------------------------------------------------------------------------
\* A partition and an offset in it; m is the length of a partition with its last block.
LEMMA Sizes ==
  ASSUME BufferConstants
  PROVE  /\ Block \in Nat \ {0} /\ Seg \in Nat \ {0} /\ Data \in Nat \ {0}
         /\ Seg % Block = 0 /\ Data % Seg = 0 /\ Data + Block \in Nat \ {0}
         /\ Slots \in Nat /\ Active \in 1..Slots
  BY DEF BufferConstants

LEMMA LsnParts ==
  ASSUME BufferConstants, NEW x \in Nat, NEW m, m = Data + Block
  PROVE  /\ lo(x) \in 0 .. m - 1 /\ file(x) \in Nat /\ m \in Nat \ {0}
         /\ x = m * file(x) + lo(x)
<1>1. m \in Nat \ {0}
  BY Sizes
<1>2. lo(x) = x % m /\ file(x) = x \div m
  BY DEF lo, file
<1>3. x \div m \in Nat /\ x % m \in 0 .. m - 1 /\ x = m * (x \div m) + (x % m)
  BY <1>1, DivMod
<1>. QED
  BY <1>1, <1>2, <1>3, Zenon

LEMMA LsnIs ==
  ASSUME BufferConstants, NEW x \in Nat, NEW m, m = Data + Block, NEW f \in Nat, NEW o \in 0 .. m - 1, x = m * f + o
  PROVE  lo(x) = o /\ file(x) = f
<1>1. m \in Nat \ {0}
  BY Sizes
<1>2. x \div m = f /\ x % m = o
  BY <1>1, DivModIs
<1>. QED
  BY <1>2 DEF lo, file

LEMMA LsnOn ==
  ASSUME BufferConstants, NEW x \in Nat, NEW k \in Nat, lo(x) + k < Data + Block
  PROVE  lo(x + k) = lo(x) + k /\ file(x + k) = file(x)
<1>1. PICK m : m = Data + Block
  OBVIOUS
<1>2. PICK q \in Nat, o \in 0 .. m - 1 : q = file(x) /\ o = lo(x) /\ x = m * q + o /\ m \in Nat \ {0}
  BY <1>1, LsnParts
<1>3. o + k \in 0 .. m - 1 /\ x + k \in Nat
  BY <1>1, <1>2
<1>4. x + k = m * q + (o + k)
  <2>1. m * q \in Int
    BY <1>2
  <2>. QED
    BY <1>2, <2>1
<1>5. PICK y \in Nat, l \in 0 .. m - 1 : y = x + k /\ l = o + k /\ y = m * q + l
  BY <1>3, <1>4
<1>6. lo(y) = l /\ file(y) = q
  <2>1. y = m * q + l
    BY <1>5
  <2>. QED
    BY <1>1, <2>1, LsnIs, Zenon
<1>. QED
  BY <1>2, <1>5, <1>6

LEMMA FirstIs ==
  ASSUME BufferConstants, NEW f \in Nat
  PROVE  first_lsn(f) \in Nat /\ lo(first_lsn(f)) = 0 /\ file(first_lsn(f)) = f
<1>1. PICK m : m = Data + Block /\ m \in Nat \ {0}
  BY Sizes
<1>2. f * m \in Nat /\ m * f = f * m
  BY <1>1
<1>3. PICK y \in Nat : y = first_lsn(f) /\ y = f * m + 0
  BY <1>1, <1>2 DEF first_lsn, LsnAt
<1>4. y = m * f + 0 /\ 0 \in 0 .. m - 1
  BY <1>1, <1>2, <1>3
<1>. QED
  BY <1>1, <1>3, <1>4, LsnIs

LEMMA FileOrder ==
  ASSUME BufferConstants, NEW x \in Nat, NEW y \in Nat, file(x) < file(y)
  PROVE  x < y
<1>1. PICK m : m = Data + Block
  OBVIOUS
<1>2. PICK p \in Nat, o \in 0 .. m - 1 : p = file(x) /\ x = m * p + o /\ m \in Nat \ {0}
  BY <1>1, LsnParts
<1>3. PICK q \in Nat, r \in 0 .. m - 1 : q = file(y) /\ y = m * q + r
  BY <1>1, LsnParts
<1>4. m * p + m <= m * q
  BY <1>2, <1>3, Product
<1>5. PICK u \in Int, v \in Int : u = m * p /\ v = m * q
  BY <1>2
<1>6. x = u + o /\ y = v + r /\ u + m <= v
  BY <1>2, <1>3, <1>4, <1>5
<1>7. m \in Nat
  BY <1>2
<1>. QED
  BY <1>6, <1>7

\* In an epoch, a byte's place in the buffer is the offset that compensate computes.
LEMMA InEpoch ==
  ASSUME BufferConstants, NEW x \in Nat, lo(x) % Seg = 0, lo(x) + Seg <= Data, NEW o \in 0 .. Seg
  PROVE  /\ lo(x + o) = lo(x) + o /\ file(x + o) = file(x)
         /\ lo(x + o) % Block = o % Block
         /\ o < Seg => Where(x + o) = o
<1>1. lo(x) \in Nat /\ Seg \in Nat \ {0} /\ Block \in Nat \ {0} /\ Seg % Block = 0 /\ lo(x) + o < Data + Block /\ o \in Nat
  <2>1. PICK m : m = Data + Block
    OBVIOUS
  <2>2. lo(x) \in 0 .. m - 1 /\ m \in Nat
    BY <2>1, LsnParts
  <2>. QED
    BY <2>2, Sizes
<1>2. lo(x + o) = lo(x) + o /\ file(x + o) = file(x)
  BY <1>1, LsnOn
<1>3. lo(x) % Block = 0
  BY <1>1, ModFactor
<1>4. (lo(x) + o) % Block = o % Block
  BY <1>1, <1>3, ModAdd
<1>5. ASSUME o < Seg PROVE (lo(x) + o) % Seg = o
  <2>1. o \in 0 .. Seg - 1
    BY <1>1, <1>5
  <2>2. o % Seg = o
    BY <1>1, <2>1, ModSmall
  <2>. QED
    BY <1>1, <2>2, ModAdd
<1>. QED
  BY <1>2, <1>4, <1>5 DEF Where

\* A byte's place in the buffer, from the start of its segment.
LEMMA PlaceIs ==
  ASSUME BufferConstants, NEW b \in Nat, b % Seg = 0, NEW o \in Nat
  PROVE  /\ (b + o) % Seg = o % Seg /\ (b + o) % Block = o % Block
         /\ o < Seg => (b + o) % Seg = o
         /\ (b + Seg) % Seg = 0
<1>1. Seg \in Nat \ {0} /\ Block \in Nat \ {0} /\ Seg % Block = 0
  BY Sizes
<1>2. b % Block = 0
  BY <1>1, ModFactor
<1>3. (b + o) % Seg = o % Seg /\ (b + o) % Block = o % Block
  BY <1>1, <1>2, ModAdd
<1>4. o < Seg => o % Seg = o
  BY <1>1, ModSmall
<1>5. Seg % Seg = 0
  <2>1. Seg = Seg * 1 + 0 /\ 0 \in 0 .. Seg - 1
    BY <1>1
  <2>. QED
    BY <1>1, <2>1, DivModIs
<1>6. (b + Seg) % Seg = 0
  BY <1>1, <1>5, ModAdd
<1>. QED
  BY <1>3, <1>4, <1>6

-----------------------------------------------------------------------------
(***************************************************************************)
(* Types.                                                                  *)
(***************************************************************************)
LEMMA LocalTypes ==
  ASSUME TypeOK, NEW t \in Thread
  PROVE  /\ my[t] \in Local /\ my[t].n \in Nat /\ my[t].idx \in 0..(Active - 1) /\ my[t].slot \in Slot
         /\ my[t].pos \in Nat /\ my[t].lsn \in Nat \union {-1} /\ my[t].size \in Nat /\ my[t].todo \in Nat
         /\ pc[t] \in PC
  BY DEF TypeOK, Local

LEMMA InfoTypes ==
  ASSUME TypeOK, NEW s \in Slot
  PROVE  /\ info[s] \in Info /\ info[s].count \in {"unused", "available", "pending", "finished"}
         /\ info[s].joined \in Nat /\ info[s].left \in Int /\ info[s].error \in BOOLEAN
         /\ info[s].lsn \in Nat /\ info[s].oldEnd \in Nat /\ info[s].startPos \in Nat /\ info[s].pos \in Nat
         /\ info[s].newEnd \in Nat /\ info[s].newBase \in Nat \union {-1}
         /\ info[s].state \in {"none", "go", "waiting", "abort"}
  BY DEF TypeOK, Info

LEMMA SpanTypes ==
  ASSUME TypeOK
  PROVE  /\ buf.lsn \in Nat /\ buf.base \in Nat /\ buf.start \in Nat /\ buf.end \in Nat
         /\ cur.lsn \in Nat /\ cur.base \in Nat /\ cur.start \in Nat /\ cur.end \in Nat
         /\ old.lsn \in Nat /\ old.base \in Nat /\ old.start \in Nat /\ old.end \in Nat
         /\ fl.lsn \in Nat /\ fl.start1 \in Nat /\ fl.end1 \in Nat /\ fl.start2 \in Nat /\ fl.end2 \in Nat
         /\ fl.upto \in Nat /\ fl.newStart \in Nat
  BY DEF TypeOK, Span, Job

LEMMA ReturnedType ==
  ASSUME NEW m \in Local, BufferConstants, NEW l \in Nat \union {-1}, NEW z \in Nat
  PROVE  /\ Returned(m, l, z) \in Local
         /\ Returned(m, l, z).lsn = l /\ Returned(m, l, z).size = z
<1>1. 0 \in Slot /\ 0 \in 0..(Active - 1)
  BY Sizes DEF Slot
<1>2. NoLocals \in [n : Nat, idx : 0..(Active - 1), slot : Slot, pos : Nat, lsn : Nat \union {-1}, size : Nat, todo : Nat]
  BY <1>1 DEF NoLocals
<1>. QED
  BY <1>2 DEF Local, Returned

LEMMA NewInfoType ==
  ASSUME NEW c \in {"unused", "available", "pending", "finished"}
  PROVE  /\ NewInfo(c) \in Info /\ NewInfo(c).count = c /\ NewInfo(c).joined = 0 /\ NewInfo(c).error = FALSE
         /\ NewInfo(c).state = "none"
  BY DEF NewInfo, Info

\* The line of who exposes is not empty where somebody hands over.
LEMMA HasHead ==
  ASSUME TypeOK, GroupInv, NEW t \in Thread, Owner(t)
  PROVE  /\ Len(expose) \in Nat /\ Len(expose) > 0 /\ DOMAIN expose = 1 .. Len(expose)
         /\ \A k \in 1 .. Len(expose) : expose[k] \in Slot
         /\ \E k \in 1 .. Len(expose) : expose[k] = my[t].slot
<1>1. expose \in Seq(Slot)
  BY DEF TypeOK
<1>2. my[t].slot \in Slot /\ Lined(my[t].slot)
  BY LocalTypes DEF GroupInv, OwnerInv, OwnerRight
<1>3. PICK k \in DOMAIN expose : expose[k] = my[t].slot
  BY <1>2 DEF GroupInv, QueueInv
<1>. QED
  BY <1>1, <1>3

LEMMA AllocatedType ==
  ASSUME TypeOK, NEW t \in Thread, NEW e \in Span, NEW l \in Nat, NEW nb \in Nat \union {-1}, NEW sp \in Nat,
         Allocated(t, e, l, nb, sp)
  PROVE  buf' \in Span /\ tail' \in Nat /\ end' \in Nat /\ info' \in [Slot -> Info] /\ expose' \in Seq(Slot)
<1>. DEFINE s == my[t].slot
<1>1. s \in Slot /\ info \in [Slot -> Info] /\ expose \in Seq(Slot)
  BY LocalTypes DEF TypeOK
<1>2. info[s].joined \in Nat /\ info[s] \in Info /\ buf.base + buf.end \in Nat /\ e.base \in Nat /\ e.end \in Nat
  <2>1. info[s].joined \in Nat /\ info[s] \in Info
    BY <1>1, InfoTypes
  <2>2. buf.base \in Nat /\ buf.end \in Nat
    BY SpanTypes
  <2>3. e.base \in Nat /\ e.end \in Nat
    BY DEF Span
  <2>. QED
    BY <2>1, <2>2, <2>3
<1>3. buf' = e /\ tail' = l + info[s].joined /\ end' = e.base + e.end /\ expose' = Append(expose, s)
  BY DEF Allocated
<1>4. info' \in [Slot -> Info]
  <2>1. PICK i \in Info, j \in Nat, oe \in Nat, p \in Nat, ne \in Nat :
          i = info[s] /\ j = info[s].joined /\ oe = buf.base + buf.end /\ p = sp + j /\ ne = e.end
    <3>1. sp + info[s].joined \in Nat
      BY <1>2
    <3>. QED
      BY <1>2, <3>1, Zenon
  <2>2. info' = [info EXCEPT ![s] =
           [i EXCEPT !.count = "finished", !.left = j, !.lsn = l, !.oldEnd = oe,
                     !.startPos = sp, !.pos = p, !.newEnd = ne,
                     !.newBase = nb, !.state = IF expose = <<>> THEN "go" ELSE "waiting"]]
    BY <1>1, <2>1 DEF Allocated
  <2>3. [i EXCEPT !.count = "finished", !.left = j, !.lsn = l, !.oldEnd = oe,
                     !.startPos = sp, !.pos = p, !.newEnd = ne,
                     !.newBase = nb, !.state = IF expose = <<>> THEN "go" ELSE "waiting"] \in Info
    <3>1. PICK st \in {"none", "go", "waiting", "abort"} : st = IF expose = <<>> THEN "go" ELSE "waiting"
      OBVIOUS
    <3>2. PICK i1 \in Info : i1 = [i EXCEPT !.count = "finished"]
      BY DEF Info
    <3>3. PICK i2 \in Info : i2 = [i1 EXCEPT !.left = j, !.lsn = l, !.oldEnd = oe]
      <4>1. PICK j2 \in Int : j2 = j
        OBVIOUS
      <4>. QED
        BY <4>1 DEF Info
    <3>4. PICK i3 \in Info : i3 = [i2 EXCEPT !.startPos = sp, !.pos = p, !.newEnd = ne, !.newBase = nb]
      BY DEF Info
    <3>5. PICK i4 \in Info : i4 = [i3 EXCEPT !.state = st]
      BY DEF Info
    <3>6. i4 = [i EXCEPT !.count = "finished", !.left = j, !.lsn = l, !.oldEnd = oe,
                     !.startPos = sp, !.pos = p, !.newEnd = ne, !.newBase = nb, !.state = st]
      BY <3>2, <3>3, <3>4, <3>5 DEF Info
    <3>. QED
      BY <3>1, <3>6
  <2>. QED
    BY <1>1, <2>2, <2>3
<1>5. expose' \in Seq(Slot)
  <2>. HIDE DEF s
  <2>. QED
    BY <1>1, <1>3
<1>6. buf' \in Span /\ tail' \in Nat /\ end' \in Nat
  <2>1. buf' \in Span
    BY <1>3
  <2>2. PICK j \in Nat, x \in Nat, y \in Nat : j = info[s].joined /\ x = e.base /\ y = e.end
    BY <1>2
  <2>3. tail' = l + j /\ end' = x + y
    BY <1>3, <2>2
  <2>. QED
    BY <2>1, <2>3
<1>. QED
  BY <1>4, <1>5, <1>6

LEMMA TypeStep ==
  ASSUME BufferConstants, TypeOK, GroupInv, [Next]_vars
  PROVE  TypeOK'
<1>. USE DEF group, ends, epochs, disk
<1>0. /\ slots \in [0..(Active - 1) -> Slot] /\ info \in [Slot -> Info] /\ expose \in Seq(Slot)
      /\ pc \in [Thread -> PC] /\ my \in [Thread -> Local] /\ flag \in [space : BOOLEAN, flush : BOOLEAN]
      /\ Active \in Nat /\ Active > 0
  BY Sizes DEF TypeOK
<1>1. ASSUME NEW t \in Thread, Insert(t) PROVE TypeOK'
  <2>1. PICK n \in world.size, i \in 0..(Active - 1) :
          my' = [my EXCEPT ![t].n = n, ![t].idx = i, ![t].slot = slots[i], ![t].todo = @ - 1]
    BY <1>1 DEF Insert
  <2>2. n \in Nat /\ slots[i] \in Slot /\ my[t].todo > 0
    BY <1>0, <1>1 DEF TypeOK, Insert
  <2>3. my' \in [Thread -> Local]
    <3>1. PICK m \in Local, k \in Nat, z \in Slot : m = my[t] /\ k = my[t].todo - 1 /\ z = slots[i]
      BY <2>2, LocalTypes
    <3>2. my' = [my EXCEPT ![t] = [m EXCEPT !.n = n, !.idx = i, !.slot = z, !.todo = k]]
      BY <1>0, <2>1, <3>1
    <3>3. [m EXCEPT !.n = n, !.idx = i, !.slot = z, !.todo = k] \in Local
      BY <2>2 DEF Local
    <3>. QED
      BY <1>0, <3>2, <3>3
  <2>4. pc' \in [Thread -> PC]
    BY <1>0, <1>1 DEF Insert, Go, PC
  <2>. QED
    BY <1>1, <2>3, <2>4 DEF Insert, TypeOK
<1>2. ASSUME NEW t \in Thread, NextSlot(t) PROVE TypeOK'
  <2>1. PICK i : i = (my[t].idx + 1) % Active /\ my' = [my EXCEPT ![t].idx = i, ![t].slot = slots[i]]
    BY <1>2 DEF NextSlot
  <2>2. i \in 0..(Active - 1)
    BY <1>0, <2>1, LocalTypes, DivMod
  <2>3. my' \in [Thread -> Local]
    <3>1. PICK m \in Local, z \in Slot : m = my[t] /\ z = slots[i]
      BY <1>0, <2>2, LocalTypes
    <3>2. my' = [my EXCEPT ![t] = [m EXCEPT !.idx = i, !.slot = z]]
      BY <1>0, <2>1, <3>1
    <3>3. [m EXCEPT !.idx = i, !.slot = z] \in Local
      BY <2>2 DEF Local
    <3>. QED
      BY <1>0, <3>2, <3>3
  <2>. QED
    BY <1>2, <2>3 DEF NextSlot, TypeOK
<1>3. ASSUME NEW t \in Thread, Join(t) PROVE TypeOK'
  <2>1. /\ my' = [my EXCEPT ![t].pos = info[my[t].slot].joined]
        /\ info' = [info EXCEPT ![my[t].slot].joined = @ + my[t].n]
    BY <1>3 DEF Join
  <2>2. my[t].slot \in Slot /\ my[t].n \in Nat /\ info[my[t].slot].joined \in Nat /\ info[my[t].slot] \in Info
    BY LocalTypes, InfoTypes
  <2>3. my' \in [Thread -> Local]
    BY <1>0, <2>1, <2>2, LocalTypes DEF Local
  <2>4. info' \in [Slot -> Info]
    <3>1. PICK i \in Info, j \in Nat : i = info[my[t].slot] /\ j = info[my[t].slot].joined + my[t].n
      BY <2>2
    <3>2. info' = [info EXCEPT ![my[t].slot] = [i EXCEPT !.joined = j]]
      BY <1>0, <2>1, <2>2, <3>1
    <3>3. [i EXCEPT !.joined = j] \in Info
      BY <3>1 DEF Info
    <3>. QED
      BY <1>0, <2>2, <3>2, <3>3
  <2>5. pc' \in [Thread -> PC]
    BY <1>0, <1>3 DEF Join, Go, PC
  <2>. QED
    BY <1>3, <2>3, <2>4, <2>5 DEF Join, TypeOK
<1>4. ASSUME NEW t \in Thread, Close(t) PROVE TypeOK'
  <2>1. PICK fresh \in Slot :
           /\ slots' = [slots EXCEPT ![my[t].idx] = fresh]
           /\ info' = [info EXCEPT ![fresh] = NewInfo("available"), ![my[t].slot].count = "pending"]
    BY <1>4 DEF Close
  <2>2. slots' \in [0..(Active - 1) -> Slot]
    BY <1>0, <2>1
  <2>3. info' \in [Slot -> Info]
    <3>1. PICK g : g = [info EXCEPT ![fresh] = NewInfo("available")]
      OBVIOUS
    <3>2. g \in [Slot -> Info] /\ info' = [g EXCEPT ![my[t].slot].count = "pending"]
      BY <1>0, <2>1, <3>1, NewInfoType
    <3>3. PICK i \in Info : i = g[my[t].slot]
      BY <3>2, LocalTypes
    <3>4. [i EXCEPT !.count = "pending"] \in Info
      BY DEF Info
    <3>. QED
      BY <3>2, <3>3, <3>4
  <2>4. pc' \in [Thread -> PC]
    BY <1>0, <1>4 DEF Close, Go, PC
  <2>. QED
    BY <1>4, <2>2, <2>3, <2>4 DEF Close, TypeOK
<1>5. ASSUME NEW t \in Thread, NoSpace(t) \/ AwaitSpace(t) \/ SpaceCame(t) PROVE TypeOK'
  <2>1. pc' \in [Thread -> PC]
    BY <1>0, <1>5 DEF NoSpace, AwaitSpace, SpaceCame, Go, PC
  <2>. QED
    BY <1>5, <2>1 DEF NoSpace, AwaitSpace, SpaceCame, SignalDaemon, TypeOK
<1>6. ASSUME NEW t \in Thread, Allocate(t) PROVE TypeOK'
  <2>. DEFINE n == info[my[t].slot].joined
              spill == buf.end + n - Seg
  <2>1. my[t].slot \in Slot /\ n \in Nat /\ Seg \in Nat /\ buf \in Span
    BY LocalTypes, InfoTypes, Sizes DEF TypeOK
  <2>2. PICK e \in Span, l \in Nat, nb \in Nat \union {-1}, sp \in Nat : Allocated(t, e, l, nb, sp)
    <3>. HIDE DEF n
    <3>0. tail \in Nat /\ buf.lsn \in Nat /\ buf.base \in Nat /\ buf.end \in Nat
      BY SpanTypes DEF TypeOK
    <3>1. tail \in Nat /\ buf.lsn + Seg \in Nat /\ buf.base + Seg \in Nat /\ buf.end \in Nat /\ buf.end + n \in Nat
      BY <2>1, <3>0
    <3>. USE DEF n
    <3>2. CASE Allocated(t, [buf EXCEPT !.end = @ + n], tail, -1, buf.end)
      <4>1. [buf EXCEPT !.end = @ + n] \in Span
        BY <2>1, <3>1 DEF Span
      <4>. QED
        BY <3>1, <3>2, <4>1
    <3>3. CASE spill > 0 /\ Allocated(t, Epoch(buf.lsn + Seg, buf.base + Seg, 0, spill), tail, -1, buf.end)
      <4>1. spill \in Nat
        BY <2>1, <3>1, <3>3
      <4>2. Epoch(buf.lsn + Seg, buf.base + Seg, 0, spill) \in Span
        BY <3>1, <4>1 DEF Epoch, Span
      <4>. QED
        BY <3>1, <3>3, <4>2
    <3>4. CASE Allocated(t, Epoch(first_lsn(file(tail) + 1), buf.base + Seg, 0, n), first_lsn(file(tail) + 1), buf.base + Seg, 0)
      <4>1. first_lsn(file(tail) + 1) \in Nat
        <5>1. file(tail) \in Nat
          BY <3>1, LsnParts
        <5>. QED
          BY <5>1, FirstIs
      <4>2. Epoch(first_lsn(file(tail) + 1), buf.base + Seg, 0, n) \in Span
        BY <2>1, <3>1, <4>1 DEF Epoch, Span
      <4>. QED
        BY <3>1, <3>4, <4>1, <4>2
    <3>. QED
      BY <1>6, <3>2, <3>3, <3>4 DEF Allocate, Wanted
  <2>3. buf' \in Span /\ tail' \in Nat /\ end' \in Nat /\ info' \in [Slot -> Info] /\ expose' \in Seq(Slot)
    BY <2>2, AllocatedType
  <2>4. pc' \in [Thread -> PC]
    BY <1>0, <1>6 DEF Allocate, Go, PC
  <2>. QED
    BY <1>6, <2>3, <2>4 DEF Allocate, TypeOK
<1>7. ASSUME NEW t \in Thread, OutOfLogSpace(t) PROVE TypeOK'
  <2>1. info' = [info EXCEPT ![my[t].slot].count = "finished", ![my[t].slot].left = info[my[t].slot].joined,
                             ![my[t].slot].error = TRUE]
    BY <1>7 DEF OutOfLogSpace
  <2>2. PICK i \in Info, j \in Nat : i = info[my[t].slot] /\ j = info[my[t].slot].joined
    BY LocalTypes, InfoTypes
  <2>3. info' = [info EXCEPT ![my[t].slot] = [i EXCEPT !.count = "finished", !.left = j, !.error = TRUE]]
    BY <1>0, <2>1, <2>2, LocalTypes
  <2>4. [i EXCEPT !.count = "finished", !.left = j, !.error = TRUE] \in Info
    <3>1. PICK i1 \in Info : i1 = [i EXCEPT !.count = "finished"]
      BY DEF Info
    <3>2. PICK i2 \in Info : i2 = [i1 EXCEPT !.left = j]
      <4>1. PICK j2 \in Int : j2 = j
        OBVIOUS
      <4>. QED
        BY <4>1 DEF Info
    <3>3. [i2 EXCEPT !.error = TRUE] \in Info
      BY DEF Info
    <3>. QED
      BY <3>1, <3>2, <3>3 DEF Info
  <2>5. info' \in [Slot -> Info]
    BY <1>0, <2>3, <2>4
  <2>6. pc' \in [Thread -> PC]
    BY <1>0, <1>7 DEF OutOfLogSpace, Go, PC
  <2>. QED
    BY <1>7, <2>5, <2>6 DEF OutOfLogSpace, TypeOK
<1>8. ASSUME NEW t \in Thread, Leaves(t, my[t].slot) PROVE info' \in [Slot -> Info] /\ pc' \in [Thread -> PC]
  <2>1. PICK i \in Info, j \in Int : i = info[my[t].slot] /\ j = info[my[t].slot].left - my[t].n
    BY LocalTypes, InfoTypes
  <2>2. info' = [info EXCEPT ![my[t].slot] = [i EXCEPT !.left = j]]
    BY <1>0, <1>8, <2>1, LocalTypes DEF Leaves
  <2>3. [i EXCEPT !.left = j] \in Info
    BY DEF Info
  <2>4. pc' = [pc EXCEPT ![t] = IF LastOut(t, my[t].slot) THEN "expose" ELSE "out"]
    BY <1>8 DEF Leaves, Go
  <2>5. pc' \in [Thread -> PC]
    BY <1>0, <2>4 DEF PC
  <2>. QED
    BY <1>0, <2>2, <2>3, <2>5
<1>9. ASSUME NEW t \in Thread, Copy(t) PROVE TypeOK'
  <2>1. Lsn(t) \in Nat /\ my[t].n \in Nat /\ my[t] \in Local
    BY LocalTypes, InfoTypes DEF Lsn
  <2>2. bytes' \in [0..(Seg - 1) -> Nat \union {-1}]
    <3>1. DOMAIN bytes = 0..(Seg - 1) /\ \A p \in 0..(Seg - 1) : bytes[p] \in Nat \union {-1}
      BY DEF TypeOK
    <3>2. ASSUME NEW p, \E i \in 0..(my[t].n - 1) : Place(t, i) = p
          PROVE  Lsn(t) + (CHOOSE i \in 0..(my[t].n - 1) : Place(t, i) = p) \in Nat
      <4>1. (CHOOSE i \in 0..(my[t].n - 1) : Place(t, i) = p) \in 0..(my[t].n - 1)
        BY <3>2
      <4>. QED
        BY <2>1, <4>1
    <3>3. bytes' = [p \in DOMAIN bytes |->
                     IF \E i \in 0..(my[t].n - 1) : Place(t, i) = p
                       THEN Lsn(t) + CHOOSE i \in 0..(my[t].n - 1) : Place(t, i) = p
                       ELSE bytes[p]]
      BY <1>9 DEF Copy
    <3>. QED
      BY <3>1, <3>2, <3>3
  <2>3. my' \in [Thread -> Local]
    <3>1. Returned(my[t], Lsn(t), my[t].n) \in Local
      BY <2>1, ReturnedType
    <3>2. [my[t] EXCEPT !.lsn = Lsn(t), !.size = my[t].n] \in Local
      BY <2>1 DEF Local
    <3>3. my' = [my EXCEPT ![t] = IF LastOut(t, my[t].slot) THEN [my[t] EXCEPT !.lsn = Lsn(t), !.size = my[t].n]
                                                  ELSE Returned(my[t], Lsn(t), my[t].n)]
      BY <1>0, <1>9 DEF Copy
    <3>. QED
      BY <1>0, <3>1, <3>2, <3>3
  <2>4. info' \in [Slot -> Info] /\ pc' \in [Thread -> PC]
    BY <1>8, <1>9 DEF Copy
  <2>. QED
    BY <1>9, <2>2, <2>3, <2>4 DEF Copy, TypeOK
<1>10. ASSUME NEW t \in Thread, my' = [my EXCEPT ![t] = Returned(@, @.lsn, @.size)]
       PROVE  my' \in [Thread -> Local]
  BY <1>0, <1>10, LocalTypes, ReturnedType
<1>11. ASSUME NEW t \in Thread, Fail(t) PROVE TypeOK'
  <2>1. my' \in [Thread -> Local]
    BY <1>10, <1>11 DEF Fail
  <2>2. info' \in [Slot -> Info] /\ pc' \in [Thread -> PC]
    BY <1>8, <1>11 DEF Fail
  <2>. QED
    BY <1>11, <2>1, <2>2 DEF Fail, TypeOK
<1>12. ASSUME NEW t \in Thread, Abandon(t) PROVE TypeOK'
  <2>1. my' \in [Thread -> Local]
    BY <1>10, <1>12 DEF Abandon
  <2>2. info' \in [Slot -> Info]
    <3>1. PICK i \in Info : i = info[my[t].slot]
      BY LocalTypes, InfoTypes
    <3>2. info' = [info EXCEPT ![my[t].slot] = [i EXCEPT !.state = "abort"]]
      BY <1>0, <1>12, <3>1, LocalTypes DEF Abandon
    <3>3. [i EXCEPT !.state = "abort"] \in Info
      BY DEF Info
    <3>. QED
      BY <1>0, <3>2, <3>3
  <2>3. pc' \in [Thread -> PC]
    BY <1>0, <1>12 DEF Abandon, Go, PC
  <2>. QED
    BY <1>12, <2>1, <2>2, <2>3 DEF Abandon, TypeOK
<1>13. ASSUME NEW t \in Thread, Update(t) PROVE TypeOK'
  <2>. DEFINE i == info[my[t].slot]
  <2>1. /\ i.lsn \in Nat /\ i.newEnd \in Nat /\ i.newBase \in Nat \union {-1} /\ Seg \in Nat
    BY LocalTypes, InfoTypes, Sizes
  <2>2. ToEpochs(i)
    BY <1>13 DEF Update
  <2>. HIDE DEF i
  <2>3. cur' \in Span /\ old' \in Span
    <3>0. cur \in Span /\ old \in Span /\ cur.lsn \in Nat /\ cur.base \in Nat
      BY SpanTypes DEF TypeOK
    <3>1. cur \in Span /\ old \in Span /\ cur.lsn + Seg \in Nat /\ cur.base + Seg \in Nat
      BY <2>1, <3>0
    <3>. QED
      BY <2>1, <2>2, <3>1 DEF ToEpochs, Epoch, Span
  <2>4. pc' \in [Thread -> PC]
    BY <1>0, <1>13 DEF Update, Go, PC
  <2>. QED
    BY <1>13, <2>3, <2>4 DEF Update, TypeOK
<1>14. ASSUME NEW t \in Thread, HandOver(t) PROVE TypeOK'
  <2>1. Owner(t)
    BY <1>14 DEF HandOver, Owner
  <2>2. Len(expose) > 0 /\ \A k \in 1 .. Len(expose) : expose[k] \in Slot
    BY <2>1, HasHead
  <2>3. expose' \in Seq(Slot)
    <3>1. expose' = Tail(expose)
      BY <1>14 DEF HandOver
    <3>2. expose # <<>>
      BY <1>0, <2>2
    <3>. QED
      BY <1>0, <3>1, <3>2
  <2>4. my' \in [Thread -> Local] /\ pc' \in [Thread -> PC] /\ info' \in [Slot -> Info]
    <3>0. my[t].slot \in Slot /\ my[t] \in Local /\ NewInfo("unused") \in Info
      BY LocalTypes, NewInfoType
    <3>1. CASE \E n \in Next_in_line : info[n].state = "abort"
      <4>1. Len(expose) > 1
        BY <3>1 DEF Next_in_line
      <4>2. /\ info' = [info EXCEPT ![my[t].slot] = NewInfo("unused")]
            /\ my' = [my EXCEPT ![t].slot = expose[2]] /\ pc' = [pc EXCEPT ![t] = "update"]
        BY <1>14, <3>1 DEF HandOver, Go
      <4>3. expose[2] \in Slot
        BY <1>0, <4>1
      <4>4. PICK m \in Local, z \in Slot : m = my[t] /\ z = expose[2]
        BY <3>0, <4>3
      <4>5. [m EXCEPT !.slot = z] \in Local
        BY DEF Local
      <4>6. my' = [my EXCEPT ![t] = [m EXCEPT !.slot = z]]
        BY <1>0, <4>2, <4>4
      <4>7. "update" \in PC
        BY DEF PC
      <4>. QED
        BY <1>0, <3>0, <4>2, <4>5, <4>6, <4>7
    <3>2. CASE ~\E n \in Next_in_line : info[n].state = "abort"
      <4>1. /\ info' = [i \in Slot |-> IF i = my[t].slot THEN NewInfo("unused")
                                           ELSE IF i \in Next_in_line
                                             THEN [info[i] EXCEPT !.state = "go"] ELSE info[i]]
            /\ pc' = [pc EXCEPT ![t] = "out"]
            /\ my' = [my EXCEPT ![t] = Returned(@, @.lsn, @.size)]
        BY <1>14, <3>2 DEF HandOver, Go
      <4>2. ASSUME NEW i \in Slot PROVE [info[i] EXCEPT !.state = "go"] \in Info
        <5>1. PICK j \in Info : j = info[i]
          BY <1>0
        <5>2. [j EXCEPT !.state = "go"] \in Info
          BY DEF Info
        <5>. QED
          BY <5>1, <5>2
      <4>3. info' \in [Slot -> Info]
        BY <1>0, <4>1, <4>2, NewInfoType
      <4>. QED
        BY <1>0, <1>10, <4>1, <4>3 DEF PC
    <3>. QED
      BY <3>1, <3>2
  <2>. QED
    BY <1>14, <2>3, <2>4 DEF HandOver, TypeOK
<1>15. ASSUME NEW t \in Thread, FlushNow(t) \/ AwaitFlush(t) \/ Flushed(t) PROVE TypeOK'
  <2>1. pc' \in [Thread -> PC]
    BY <1>0, <1>15 DEF FlushNow, AwaitFlush, Flushed, Go, PC
  <2>. QED
    BY <1>15, <2>1 DEF FlushNow, AwaitFlush, Flushed, SignalDaemon, TypeOK
<1>16. ASSUME NEW t \in Thread, compensate(t) PROVE TypeOK'
  <2>1. my[t].lsn \in Nat
    BY <1>16, LocalTypes DEF compensate, Compensable, HasLogged
  <2>. QED
    BY <1>16, <2>1 DEF compensate, TypeOK
<1>17. CASE DaemonTop
  <2>1. pc' \in [Thread -> PC]
    BY <1>0, <1>17 DEF DaemonTop, Broadcast, PC
  <2>2. flag' \in [space : BOOLEAN, flush : BOOLEAN]
    <3>1. flag' = flag \/ flag' = [space |-> FALSE, flush |-> FALSE]
      BY <1>17 DEF DaemonTop
    <3>2. [space |-> FALSE, flush |-> FALSE] \in [space : BOOLEAN, flush : BOOLEAN]
      OBVIOUS
    <3>. QED
      BY <1>0, <3>1, <3>2, Zenon
  <2>4. dpc' \in {"asleep", "work"}
    BY <1>17 DEF DaemonTop
  <2>3. UNCHANGED <<slots, info, turn, expose, buf, tail, end, cur, old, bytes, clr, my, fl, flushing, durable, start, kept, world>>
    BY <1>17 DEF DaemonTop
  <2>. QED
    BY <2>1, <2>2, <2>3, <2>4 DEF TypeOK
<1>18. CASE NothingToFlush
  BY <1>18 DEF NothingToFlush, TypeOK, Job
<1>19. CASE ChooseFlush
  <2>1. PICK l \in Nat, s1 \in Nat, e1 \in Nat, s2 \in Nat, e2 \in Nat, u \in Nat : ToFlush(l, s1, e1, s2, e2, u)
    <3>1. cur.lsn + cur.start \in Nat /\ cur.lsn + cur.end \in Nat /\ old.lsn + old.start \in Nat
      BY SpanTypes
    <3>. QED
      BY <1>19, <3>1, SpanTypes DEF ChooseFlush
  <2>2. cur.base + e2 \in Nat /\ fl \in Job
    <3>1. cur.base \in Nat
      BY SpanTypes
    <3>. QED
      BY <3>1 DEF TypeOK
  <2>3. fl' \in Job
    BY <2>1, <2>2 DEF ToFlush, Job
  <2>4. cur' \in Span /\ old' \in Span
    <3>1. [cur EXCEPT !.start = cur.end] \in Span /\ [old EXCEPT !.start = old.end] \in Span
      BY DEF TypeOK, Span
    <3>. QED
      BY <1>19, <3>1 DEF ChooseFlush, TypeOK
  <2>. QED
    BY <1>19, <2>3, <2>4 DEF ChooseFlush, TypeOK
<1>20. CASE NoMoreCompensation
  BY <1>20, SpanTypes DEF NoMoreCompensation, TypeOK
<1>21. CASE Write
  BY <1>21, SpanTypes DEF Write, TypeOK
<1>22. CASE NowFree
  BY <1>22, SpanTypes DEF NowFree, TypeOK, NoFlush, Job
<1>23. CASE WaitForLogSpace \/ ReleaseSpace
  BY <1>23 DEF WaitForLogSpace, ReleaseSpace, TypeOK
<1>24. CASE UNCHANGED vars
  BY <1>24 DEF vars, TypeOK
<1>. QED
  BY <1>1, <1>2, <1>3, <1>4, <1>5, <1>6, <1>7, <1>9, <1>11, <1>12, <1>13, <1>14, <1>15, <1>16, <1>17, <1>18,
     <1>19, <1>20, <1>21, <1>22, <1>23, <1>24
     DEF Next, Progress, Inserting, Flushing, Daemon, Done

-----------------------------------------------------------------------------
(***************************************************************************)
(* Groups.                                                                 *)
(***************************************************************************)
LEMMA LessOf ==
  ASSUME NEW R, NEW P, IsFiniteSet(R), P \subseteq R
  PROVE  IsFiniteSet(R \ P) /\ Cardinality(R \ P) = Cardinality(R) - Cardinality(P)
<1>1. IsFiniteSet(R \ P) /\ Cardinality(R \ P) = Cardinality(R) - Cardinality(R \intersect P)
  BY FS_Difference, Zenon
<1>2. R \intersect P = P
  OBVIOUS
<1>. QED
  BY <1>1, <1>2

LEMMA MemberHas ==
  ASSUME TypeOK, GroupInv, NEW t \in Thread, Member(t)
  PROVE  /\ my[t].slot \in Slot /\ my[t].n \in Nat /\ my[t].n > 0 /\ my[t].pos \in Nat
         /\ my[t].pos + my[t].n <= info[my[t].slot].joined
         /\ my[t].pos \in Part(t) /\ Part(t) \subseteq Rest(my[t].slot)
<1>1. my[t].slot \in Slot /\ my[t].n \in Nat /\ my[t].pos \in Nat
  BY LocalTypes
<1>2. my[t].n > 0 /\ my[t].pos + my[t].n <= info[my[t].slot].joined
  BY DEF GroupInv, MemberInv, MemberRight
<1>3. my[t].pos \in Part(t)
  BY <1>1, <1>2 DEF Part
<1>4. Part(t) \subseteq Rest(my[t].slot)
  BY DEF Rest
<1>. QED
  BY <1>1, <1>2, <1>3, <1>4

LEMMA NoMember ==
  ASSUME TypeOK, GroupInv, NEW s \in Slot, Rest(s) = {} \/ info[s].joined = 0, NEW t \in Thread, Member(t)
  PROVE  my[t].slot # s
<1>1. SUFFICES ASSUME my[t].slot = s PROVE FALSE
  OBVIOUS
<1>2. /\ my[t].n \in Nat /\ my[t].n > 0 /\ my[t].pos \in Nat /\ my[t].pos + my[t].n <= info[s].joined
      /\ my[t].pos \in Rest(s)
  BY <1>1, MemberHas
<1>. QED
  BY <1>2

LEMMA RestIn ==
  ASSUME TypeOK, GroupInv, NEW s \in Slot
  PROVE  Rest(s) \subseteq 0 .. (info[s].joined - 1) /\ IsFiniteSet(Rest(s))
<1>1. info[s].joined \in Nat
  BY InfoTypes
<1>2. ASSUME NEW x \in Rest(s) PROVE x \in 0 .. (info[s].joined - 1)
  <2>1. PICK t \in Thread : Member(t) /\ my[t].slot = s /\ x \in Part(t)
    BY DEF Rest
  <2>2. my[t].n \in Nat /\ my[t].pos \in Nat /\ my[t].pos + my[t].n <= info[s].joined
    BY <2>1, MemberHas
  <2>. QED
    BY <1>1, <2>1, <2>2 DEF Part
<1>3. IsFiniteSet(0 .. (info[s].joined - 1))
  BY <1>1, FS_Interval
<1>. QED
  BY <1>2, <1>3, FS_Subset

LEMMA RestSame ==
  ASSUME NEW s,
         \A u \in Thread : (Member(u) /\ my[u].slot = s)' <=> (Member(u) /\ my[u].slot = s),
         \A u \in Thread : Member(u) /\ my[u].slot = s => my'[u].pos = my[u].pos /\ my'[u].n = my[u].n
  PROVE  Rest(s)' = Rest(s)
<1>1. Rest(s)' = UNION {Part(t)' : t \in {u \in Thread : (Member(u) /\ my[u].slot = s)'}}
  BY DEF Rest
<1>2. \A t \in Thread : Member(t) /\ my[t].slot = s => Part(t)' = Part(t)
  BY DEF Part
<1>. QED
  BY <1>1, <1>2 DEF Rest

\* A group of a thread after a step.
LEMMA AfterStep ==
  ASSUME NEW t, NEW s, my'[t].slot = s
  PROVE  /\ Rest(my[t].slot)' = Rest(s)' /\ Lined(my[t].slot)' = Lined(s)'
<1>1. Rest(my[t].slot)' = Rest(s)'
  BY DEF Rest
<1>2. Lined(my[t].slot)' = Lined(s)'
  BY DEF Lined
<1>. QED
  BY <1>1, <1>2

\* The groups are as they were where nobody comes or goes.
LEMMA QuietGroups ==
  ASSUME TypeOK, GroupInv, info' = info, expose' = expose,
         \A u \in Thread :
           /\ (Member(u)' <=> Member(u)) /\ (Owner(u)' <=> Owner(u)) /\ (Leader(u)' <=> Leader(u))
           /\ Member(u) \/ Owner(u) => my'[u].slot = my[u].slot
           /\ Member(u) => my'[u].pos = my[u].pos /\ my'[u].n = my[u].n
           /\ pc'[u] = "first" <=> pc[u] = "first"
           /\ pc'[u] = "join" => my'[u].n > 0
           /\ Owner(u) /\ pc'[u] # "expose" => pc[u] # "expose" \/ info[my[u].slot].state = "go"
           /\ pc'[u] = "expose" => pc[u] = "expose"
  PROVE  GroupInv'
<1>1. ASSUME NEW s \in Slot PROVE Rest(s)' = Rest(s)
  BY RestSame
<1>2. \A u \in Thread : Member(u) => Part(u)' = Part(u)
  BY DEF Part
<1>3. MemberInv'
  <2>1. ASSUME NEW t \in Thread PROVE MemberRight(t)'
    BY DEF GroupInv, MemberInv, MemberRight, Member, Leader
  <2>2. ASSUME NEW t \in Thread, NEW u \in Thread PROVE Apart(t, u)'
    BY <1>2 DEF GroupInv, MemberInv, Apart
  <2>. QED
    BY <2>1, <2>2 DEF MemberInv
<1>4. RestInv'
  BY <1>1 DEF GroupInv, RestInv
<1>5. QueueInv'
  BY <1>1 DEF GroupInv, QueueInv, Lined
<1>6. OwnerInv'
  <2>1. SUFFICES ASSUME NEW t \in Thread, Owner(t)' PROVE OwnerRight(t)'
    BY DEF OwnerInv
  <2>2. Owner(t) /\ my'[t].slot = my[t].slot /\ my[t].slot \in Slot /\ OwnerRight(t)
    BY <2>1, LocalTypes DEF GroupInv, OwnerInv
  <2>3. Lined(my[t].slot)' /\ Rest(my[t].slot)' = {}
    <3>1. PICK s \in Slot : s = my[t].slot /\ my'[t].slot = s
      BY <2>2
    <3>2. Lined(s) /\ Rest(s) = {}
      BY <2>2, <3>1 DEF OwnerRight
    <3>3. Lined(s)' = Lined(s)
      BY DEF Lined
    <3>. QED
      BY <1>1, <3>1, <3>2, <3>3, AfterStep
  <2>4. pc'[t] # "expose" => expose[1] = my[t].slot
    <3>1. CASE info[my[t].slot].state = "go"
      <4>1. PICK k \in DOMAIN expose : expose[k] = my[t].slot
        BY <2>2 DEF GroupInv, QueueInv, OwnerRight
      <4>2. k = 1
        BY <3>1, <4>1 DEF GroupInv, QueueInv
      <4>. QED
        BY <4>1, <4>2
    <3>. QED
      BY <2>2, <3>1 DEF OwnerRight
  <2>5. \A u \in Thread : Owner(u)' /\ my'[u].slot = my'[t].slot => u = t
    BY <2>2 DEF OwnerRight
  <2>6. pc'[t] = "expose" => info'[my'[t].slot].state # "abort"
    BY <2>2 DEF OwnerRight
  <2>. QED
    BY <2>2, <2>3, <2>4, <2>5, <2>6 DEF OwnerRight
<1>. QED
  BY <1>3, <1>4, <1>5, <1>6 DEF GroupInv

LEMMA Unmoved ==
  ASSUME NEW u, pc'[u] = pc[u], my'[u] = my[u]
  PROVE  /\ (Member(u)' <=> Member(u)) /\ (Leader(u)' <=> Leader(u)) /\ (Owner(u)' <=> Owner(u))
         /\ Part(u)' = Part(u)
  BY DEF Member, Leader, Owner, Part

LEMMA OtherMember ==
  ASSUME TypeOK, GroupInv, NEW u \in Thread, pc'[u] = pc[u], my'[u] = my[u],
         Member(u) => info'[my[u].slot].joined \in Nat /\ info'[my[u].slot].joined >= info[my[u].slot].joined,
         Leader(u) => info'[my[u].slot].count = info[my[u].slot].count
  PROVE  MemberRight(u)'
<1>1. my[u].n \in Nat /\ my[u].pos \in Nat /\ info[my[u].slot].joined \in Nat /\ MemberRight(u)
  BY LocalTypes, InfoTypes DEF GroupInv, MemberInv
<1>2. Member(u)' => my'[u].n > 0 /\ my'[u].pos + my'[u].n <= info'[my'[u].slot].joined
  <2>1. SUFFICES ASSUME Member(u) PROVE my[u].n > 0 /\ my[u].pos + my[u].n <= info'[my[u].slot].joined
    BY Unmoved
  <2>3. info'[my[u].slot].joined \in Nat /\ info'[my[u].slot].joined >= info[my[u].slot].joined
    BY <2>1
  <2>2. my[u].n > 0 /\ my[u].pos + my[u].n <= info[my[u].slot].joined
    BY <1>1, <2>1 DEF MemberRight
  <2>. QED
    BY <1>1, <2>2, <2>3
<1>. QED
  BY <1>1, <1>2 DEF MemberRight, Leader

LEMMA OtherApart ==
  ASSUME TypeOK, GroupInv, NEW u \in Thread, NEW v \in Thread,
         pc'[u] = pc[u], my'[u] = my[u], pc'[v] = pc[v], my'[v] = my[v]
  PROVE  Apart(u, v)'
  BY Unmoved DEF GroupInv, MemberInv, Apart

\* Who exposes a group stays it while another thread takes a step.
LEMMA OtherOwner ==
  ASSUME TypeOK, GroupInv, NEW u \in Thread, pc'[u] = pc[u], my'[u] = my[u], Owner(u),
         Lined(my[u].slot)', Rest(my[u].slot)' = {},
         expose'[1] = expose[1] \/ pc[u] = "expose", info'[my[u].slot].state # "abort" \/ pc[u] # "expose",
         \A v \in Thread : Owner(v)' /\ v # u => my'[v].slot # my[u].slot
  PROVE  OwnerRight(u)'
<1>1. OwnerRight(u)
  BY DEF GroupInv, OwnerInv
<1>2. \A v \in Thread : Owner(v)' /\ my'[v].slot = my'[u].slot => v = u
  OBVIOUS
<1>. QED
  BY <1>1, <1>2, AfterStep DEF OwnerRight

LEMMA LinedQueue ==
  ASSUME TypeOK, GroupInv, NEW s \in Slot
  PROVE  /\ Len(expose) \in Nat /\ DOMAIN expose = 1 .. Len(expose)
         /\ \A k \in 1 .. Len(expose) : expose[k] \in Slot /\ Lined(expose[k])
         /\ Lined(s) <=> \E k \in 1 .. Len(expose) : expose[k] = s
<1>1. expose \in Seq(Slot)
  BY DEF TypeOK
<1>2. Len(expose) \in Nat /\ DOMAIN expose = 1 .. Len(expose) /\ \A k \in 1 .. Len(expose) : expose[k] \in Slot
  BY <1>1
<1>. QED
  BY <1>2 DEF GroupInv, QueueInv

LEMMA JoinGroups ==
  ASSUME BufferConstants, TypeOK, GroupInv, NEW t \in Thread, Join(t)
  PROVE  GroupInv'
<1>a. PICK s \in Slot, j \in Nat, n \in Nat : s = my[t].slot /\ j = info[s].joined /\ n = my[t].n
  BY LocalTypes, InfoTypes
<1>0. n > 0 /\ info[s].count = "available" /\ ~info[s].error /\ Rest(s) = 0 .. (j - 1)
  BY <1>a DEF Join, GroupInv, MemberInv, MemberRight, RestInv
<1>1. /\ my' = [my EXCEPT ![t].pos = j] /\ info' = [info EXCEPT ![s].joined = @ + n]
      /\ pc' = [pc EXCEPT ![t] = IF j = 0 THEN "first" ELSE "copy"] /\ expose' = expose /\ pc[t] = "join"
  BY <1>a DEF Join, Go
<1>2. /\ \A u \in Thread : u # t => pc'[u] = pc[u] /\ my'[u] = my[u]
      /\ my'[t].pos = j /\ my'[t].n = n /\ my'[t].slot = s /\ pc'[t] = IF j = 0 THEN "first" ELSE "copy"
      /\ info'[s].joined = j + n
      /\ \A x \in Slot : /\ x # s => info'[x] = info[x]
                         /\ info'[x].count = info[x].count /\ info'[x].error = info[x].error
                         /\ info'[x].left = info[x].left /\ info'[x].state = info[x].state
  <2>0. my \in [Thread -> Local] /\ pc \in [Thread -> PC] /\ info \in [Slot -> Info]
    BY DEF TypeOK
  <2>1. /\ \A u \in Thread : u # t => pc'[u] = pc[u] /\ my'[u] = my[u]
        /\ my'[t].pos = j /\ my'[t].n = n /\ my'[t].slot = s /\ pc'[t] = IF j = 0 THEN "first" ELSE "copy"
    BY <1>a, <1>1, <2>0 DEF Local
  <2>2. info'[s].joined = j + n
    BY <1>a, <1>1, <2>0 DEF Info
  <2>3. \A x \in Slot : /\ x # s => info'[x] = info[x]
                        /\ info'[x].count = info[x].count /\ info'[x].error = info[x].error
                        /\ info'[x].left = info[x].left /\ info'[x].state = info[x].state
    BY <1>a, <1>1, <2>0 DEF Info
  <2>. QED
    BY <2>1, <2>2, <2>3
<1>3. ~Member(t) /\ ~Owner(t) /\ Member(t)' /\ ~Owner(t)' /\ Part(t)' = j .. (j + n - 1)
  <2>1. ~Member(t) /\ ~Owner(t)
    BY <1>1 DEF Member, Leader, Owner
  <2>2. Part(t)' = j .. (j + n - 1)
    BY <1>2 DEF Part
  <2>3. pc'[t] \in {"first", "copy"}
    BY <1>2
  <2>. QED
    BY <2>1, <2>2, <2>3 DEF Member, Leader, Owner
<1>4. ASSUME NEW x \in Slot PROVE Lined(x)' <=> Lined(x)
  BY <1>2 DEF Lined
<1>5. ASSUME NEW x \in Slot, x # s PROVE Rest(x)' = Rest(x)
  <2>1. \A u \in Thread : (Member(u) /\ my[u].slot = x)' <=> (Member(u) /\ my[u].slot = x)
    BY <1>2, <1>3, <1>5, Unmoved, <1>a
  <2>2. \A u \in Thread : Member(u) /\ my[u].slot = x => my'[u].pos = my[u].pos /\ my'[u].n = my[u].n
    BY <1>2, <1>3
  <2>. QED
    BY <2>1, <2>2, RestSame
<1>6. Rest(s)' = Rest(s) \union (j .. (j + n - 1))
  <2>1. ASSUME NEW x PROVE x \in Rest(s)' <=> \E u \in Thread : Member(u)' /\ my'[u].slot = s /\ x \in Part(u)'
    BY DEF Rest
  <2>2. ASSUME NEW x PROVE x \in Rest(s) <=> \E u \in Thread : Member(u) /\ my[u].slot = s /\ x \in Part(u)
    BY DEF Rest
  <2>3. ASSUME NEW x PROVE x \in Rest(s)' <=> x \in Rest(s) \/ x \in j .. (j + n - 1)
    BY <2>1, <2>2, <1>2, <1>3, Unmoved
  <2>. QED
    BY <2>3
<1>7. Rest(s) = 0 .. (j - 1)
  BY <1>0
<1>b. \A x \in Slot : info'[x].joined \in Nat
  <2>1. ASSUME NEW x \in Slot PROVE info'[x].joined \in Nat
    BY <1>a, <1>2, InfoTypes
  <2>. QED
    BY <2>1
<1>8. MemberInv'
  <2>1. ASSUME NEW u \in Thread PROVE MemberRight(u)'
    <3>1. CASE u = t
      <4>1. my'[u].n > 0 /\ my'[u].pos + my'[u].n <= info'[my'[u].slot].joined /\ info'[my'[u].slot].count = "available"
        BY <1>0, <1>2, <3>1
      <4>2. pc'[u] \in {"first", "copy"}
        BY <1>2, <3>1
      <4>. QED
        BY <4>1, <4>2 DEF MemberRight, Leader
    <3>2. CASE u # t
      <4>1. my[u].slot \in Slot /\ info[my[u].slot].joined \in Nat
        BY LocalTypes, InfoTypes
      <4>2. info'[my[u].slot].joined >= info[my[u].slot].joined
        <5>1. CASE my[u].slot = s
          BY <1>a, <1>2, <5>1
        <5>2. CASE my[u].slot # s
          BY <1>2, <4>1, <5>2
        <5>. QED
          BY <5>1, <5>2
      <4>. QED
        BY <1>2, <1>b, <3>2, <4>1, <4>2, OtherMember
    <3>. QED
      BY <3>1, <3>2
  <2>2. ASSUME NEW u \in Thread, u # t, Member(u), my[u].slot = s
        PROVE  Part(u)' \intersect Part(t)' = {} /\ ~(Leader(t)' /\ Leader(u)')
    <3>1. Part(u)' = Part(u) /\ Part(u) \subseteq 0 .. (j - 1) /\ my[u].pos \in Part(u)
      BY <1>2, <1>7, <2>2, MemberHas, Unmoved
    <3>2. j # 0
      BY <1>0, <3>1
    <3>3. Part(u) \intersect (j .. (j + n - 1)) = {}
      BY <1>0, <3>1
    <3>. QED
      BY <1>2, <1>3, <3>1, <3>2, <3>3 DEF Leader
  <2>3. ASSUME NEW u \in Thread, NEW v \in Thread PROVE Apart(u, v)'
    <3>1. CASE u # t /\ v # t
      BY <1>2, <3>1, OtherApart
    <3>2. CASE u = t /\ v # t
      BY <1>2, <2>2, <3>2, Unmoved DEF Apart
    <3>3. CASE u # t /\ v = t
      BY <1>2, <2>2, <3>3, Unmoved DEF Apart
    <3>. QED
      BY <3>1, <3>2, <3>3 DEF Apart
  <2>. QED
    BY <2>1, <2>3 DEF MemberInv
<1>9. RestInv'
  <2>1. SUFFICES ASSUME NEW x \in Slot
        PROVE  /\ info'[x].count = "unused" => info'[x].joined = 0
               /\ info'[x].count \in {"available", "pending"} => ~info'[x].error /\ Rest(x)' = 0 .. (info'[x].joined - 1)
               /\ info'[x].count = "finished" /\ ~info'[x].error => info'[x].left = Cardinality(Rest(x)')
    BY DEF RestInv
  <2>2. CASE x = s
    <3>1. Rest(s)' = 0 .. (info'[s].joined - 1)
      BY <1>0, <1>2, <1>6, <1>7
    <3>. QED
      BY <1>0, <1>2, <2>2, <3>1
  <2>3. CASE x # s
    BY <1>2, <1>5, <2>3 DEF GroupInv, RestInv
  <2>. QED
    BY <2>2, <2>3
<1>10. QueueInv'
  <2>1. \A k \in DOMAIN expose : expose[k] \in Slot
    BY <1>0, LinedQueue
  <2>2. ASSUME NEW x \in Slot, Lined(x)', info'[x].state = "abort" PROVE Rest(x)' = {}
    <3>1. Lined(x) /\ info[x].state = "abort" /\ x # s
      BY <1>0, <1>2, <1>4, <2>2 DEF Lined
    <3>. QED
      BY <1>5, <3>1 DEF GroupInv, QueueInv
  <2>. QED
    BY <1>1, <1>2, <1>4, <2>1, <2>2 DEF GroupInv, QueueInv
<1>11. OwnerInv'
  <2>1. SUFFICES ASSUME NEW u \in Thread, Owner(u)' PROVE OwnerRight(u)'
    BY DEF OwnerInv
  <2>2. u # t /\ Owner(u) /\ pc'[u] = pc[u] /\ my'[u] = my[u] /\ my[u].slot \in Slot /\ OwnerRight(u)
    BY <1>2, <1>3, <2>1, Unmoved, LocalTypes DEF GroupInv, OwnerInv
  <2>3. Lined(my[u].slot) /\ Rest(my[u].slot) = {} /\ my[u].slot # s
    BY <1>0, <2>2 DEF OwnerRight, Lined
  <2>4. Lined(my[u].slot)' /\ Rest(my[u].slot)' = {}
    <3>1. PICK x \in Slot : x = my[u].slot
      BY <2>2
    <3>2. Lined(x)' /\ Rest(x)' = {}
      BY <1>4, <1>5, <2>3, <3>1
    <3>. QED
      BY <2>2, <3>1, <3>2, AfterStep
  <2>5. ASSUME NEW v \in Thread, Owner(v)', v # u PROVE my'[v].slot # my[u].slot
    BY <1>2, <1>3, <2>2, <2>5, Unmoved DEF OwnerRight
  <2>6. info'[my[u].slot].state # "abort" \/ pc[u] # "expose"
    BY <1>2, <2>2 DEF OwnerRight
  <2>. QED
    BY <1>1, <2>2, <2>4, <2>5, <2>6, OtherOwner
<1>. QED
  BY <1>8, <1>9, <1>10, <1>11 DEF GroupInv

LEMMA CloseGroups ==
  ASSUME BufferConstants, TypeOK, GroupInv, NEW t \in Thread, Close(t)
  PROVE  GroupInv'
<1>1. PICK s \in Slot, fresh \in Slot :
        /\ s = my[t].slot /\ info[fresh].count = "unused"
        /\ info' = [info EXCEPT ![fresh] = NewInfo("available"), ![s].count = "pending"]
  BY LocalTypes DEF Close
<1>2. pc[t] = "first" /\ info[s].count = "available" /\ fresh # s /\ my' = my /\ expose' = expose
      /\ pc' = [pc EXCEPT ![t] = "space"]
  BY <1>1 DEF Close, Go, GroupInv, MemberInv, MemberRight
<1>3. /\ \A u \in Thread : (u # t => pc'[u] = pc[u]) /\ my'[u] = my[u]
      /\ pc'[t] = "space"
  BY <1>2 DEF TypeOK
<1>4. /\ info'[fresh] = NewInfo("available")
      /\ info'[s].count = "pending" /\ info'[s].joined = info[s].joined /\ info'[s].error = info[s].error
      /\ \A x \in Slot : x # s /\ x # fresh => info'[x] = info[x]
  <2>1. info \in [Slot -> Info]
    BY DEF TypeOK
  <2>2. PICK j : j = [info[s] EXCEPT !.count = "pending"]
    OBVIOUS
  <2>3. j.count = "pending" /\ j.joined = info[s].joined /\ j.error = info[s].error
    BY <2>1, <2>2 DEF Info
  <2>4. info' = [[info EXCEPT ![fresh] = NewInfo("available")] EXCEPT ![s] = j]
    BY <1>1, <1>2, <2>1, <2>2
  <2>5. info'[fresh] = NewInfo("available") /\ info'[s] = j /\ \A x \in Slot : x # s /\ x # fresh => info'[x] = info[x]
    BY <1>2, <2>1, <2>4
  <2>. QED
    BY <2>3, <2>5
<1>5. info[fresh].joined = 0 /\ info'[fresh].joined = 0 /\ info'[fresh].count = "available" /\ ~info'[fresh].error
  BY <1>1, <1>4, NewInfoType DEF GroupInv, RestInv
<1>6. \A u \in Thread : (Member(u)' <=> Member(u)) /\ (Leader(u)' <=> Leader(u)) /\ (Owner(u)' <=> Owner(u)) /\ Part(u)' = Part(u)
  BY <1>2, <1>3, Unmoved DEF Member, Leader, Owner, Part
<1>7. ASSUME NEW x \in Slot PROVE Rest(x)' = Rest(x)
  BY <1>3, <1>6, RestSame
<1>8. ASSUME NEW u \in Thread, Member(u) PROVE my[u].slot \in Slot /\ my[u].slot # fresh
  BY <1>5, <1>8, NoMember, LocalTypes
<1>9. Rest(fresh) = {}
  <2>1. info[fresh].joined - 1 = -1 /\ Rest(fresh) \subseteq 0 .. (info[fresh].joined - 1)
    BY <1>5, RestIn
  <2>. QED
    BY <2>1
<1>10. ASSUME NEW x \in Slot PROVE /\ Lined(x)' <=> Lined(x)
                                   /\ Lined(x) => info'[x] = info[x]
  BY <1>1, <1>2, <1>4, <1>5 DEF Lined
<1>11. MemberInv'
  <2>1. ASSUME NEW u \in Thread PROVE MemberRight(u)'
    <3>1. CASE u = t
      <4>1. my[t].n \in Nat /\ my[t].n > 0 /\ my[t].pos + my[t].n <= info[s].joined
        BY <1>1, <1>2, MemberHas DEF Member, Leader
      <4>. QED
        BY <1>1, <1>3, <1>4, <3>1, <4>1 DEF MemberRight, Leader
    <3>2. CASE u # t
      <4>1. Member(u) => my[u].slot \in Slot /\ my[u].slot # fresh /\ info[my[u].slot].joined \in Nat
        BY <1>8, InfoTypes
      <4>2. Member(u) => info'[my[u].slot].joined = info[my[u].slot].joined
        BY <1>4, <4>1
      <4>3. Leader(u) => info'[my[u].slot].count = info[my[u].slot].count
        <5>1. Leader(u) => my[u].slot # s
          BY <1>1, <1>2, <3>2 DEF GroupInv, MemberInv, Apart, Member, Leader
        <5>. QED
          BY <1>4, <4>1, <5>1 DEF Member
      <4>. QED
        BY <1>3, <3>2, <4>1, <4>2, <4>3, OtherMember
    <3>. QED
      BY <3>1, <3>2
  <2>2. ASSUME NEW u \in Thread, NEW v \in Thread PROVE Apart(u, v)'
    BY <1>3, <1>6 DEF GroupInv, MemberInv, Apart
  <2>. QED
    BY <2>1, <2>2 DEF MemberInv
<1>12. RestInv'
  <2>1. SUFFICES ASSUME NEW x \in Slot
        PROVE  /\ info'[x].count = "unused" => info'[x].joined = 0
               /\ info'[x].count \in {"available", "pending"} => ~info'[x].error /\ Rest(x)' = 0 .. (info'[x].joined - 1)
               /\ info'[x].count = "finished" /\ ~info'[x].error => info'[x].left = Cardinality(Rest(x)')
    BY DEF RestInv
  <2>2. CASE x = s
    BY <1>1, <1>2, <1>4, <1>7, <2>2 DEF GroupInv, RestInv
  <2>3. CASE x = fresh
    <3>1. 0 .. (info'[fresh].joined - 1) = {}
      BY <1>5
    <3>. QED
      BY <1>5, <1>7, <1>9, <2>3, <3>1
  <2>4. CASE x # s /\ x # fresh
    BY <1>4, <1>7, <2>4 DEF GroupInv, RestInv
  <2>. QED
    BY <2>2, <2>3, <2>4
<1>13. QueueInv'
  <2>1. \A k \in DOMAIN expose : expose[k] \in Slot /\ Lined(expose[k])
    BY <1>1, LinedQueue
  <2>2. ASSUME NEW x \in Slot, Lined(x)', info'[x].state = "abort" PROVE Rest(x)' = {}
    BY <1>7, <1>10, <2>2 DEF GroupInv, QueueInv
  <2>. QED
    BY <1>2, <1>10, <2>1, <2>2 DEF GroupInv, QueueInv
<1>14. OwnerInv'
  <2>1. SUFFICES ASSUME NEW u \in Thread, Owner(u)' PROVE OwnerRight(u)'
    BY DEF OwnerInv
  <2>2. u # t /\ Owner(u) /\ pc'[u] = pc[u] /\ my'[u] = my[u] /\ my[u].slot \in Slot /\ OwnerRight(u)
    BY <1>2, <1>3, <1>6, <2>1, LocalTypes DEF GroupInv, OwnerInv, Owner
  <2>3. Lined(my[u].slot)' /\ Rest(my[u].slot)' = {} /\ info'[my[u].slot] = info[my[u].slot]
    <3>1. PICK x \in Slot : x = my[u].slot
      BY <2>2
    <3>2. Lined(x) /\ Rest(x) = {}
      BY <2>2, <3>1 DEF OwnerRight
    <3>3. Lined(x)' /\ Rest(x)' = {} /\ info'[x] = info[x]
      BY <1>7, <1>10, <3>2
    <3>. QED
      BY <2>2, <3>1, <3>3, AfterStep
  <2>4. ASSUME NEW v \in Thread, Owner(v)', v # u PROVE my'[v].slot # my[u].slot
    BY <1>3, <1>6, <2>2, <2>4 DEF OwnerRight
  <2>5. info'[my[u].slot].state # "abort" \/ pc[u] # "expose"
    BY <2>2, <2>3 DEF OwnerRight
  <2>. QED
    BY <1>2, <2>2, <2>3, <2>4, <2>5, OtherOwner
<1>. QED
  BY <1>11, <1>12, <1>13, <1>14 DEF GroupInv

LEMMA AllocateGroups ==
  ASSUME BufferConstants, TypeOK, GroupInv, NEW t \in Thread, NEW s \in Slot, s = my[t].slot,
         pc[t] = "space", pc' = [pc EXCEPT ![t] = "copy"], my' = my,
         \A x \in Slot : x # s => info'[x] = info[x],
         info'[s].count = "finished", info'[s].joined = info[s].joined,
         \/ /\ ~info'[s].error /\ info'[s].left = info[s].joined
            /\ info'[s].state = IF expose = <<>> THEN "go" ELSE "waiting"
            /\ expose' = Append(expose, s)
         \/ info'[s].error /\ expose' = expose
  PROVE  GroupInv'
<1>1. info[s].count = "pending" /\ ~info[s].error /\ Rest(s) = 0 .. (info[s].joined - 1) /\ info[s].joined \in Nat
  BY InfoTypes DEF GroupInv, MemberInv, MemberRight, RestInv, Leader
<1>2. pc'[t] = "copy" /\ \A u \in Thread : (u # t => pc'[u] = pc[u]) /\ my'[u] = my[u]
  BY DEF TypeOK
<1>3. \A u \in Thread : (Member(u)' <=> Member(u)) /\ (Leader(u)' => Leader(u) /\ u # t)
                        /\ (Owner(u)' <=> Owner(u)) /\ Part(u)' = Part(u)
  BY <1>2, Unmoved DEF Member, Leader, Owner, Part
<1>4. ASSUME NEW x \in Slot PROVE Rest(x)' = Rest(x)
  BY <1>2, <1>3, RestSame
<1>5. ~Lined(s) /\ \A x \in Slot : x # s => (Lined(x)' <=> Lined(x))
  BY <1>1 DEF Lined
<1>6. MemberInv'
  <2>1. ASSUME NEW u \in Thread PROVE MemberRight(u)'
    <3>1. CASE u = t
      <4>1. my[t].n \in Nat /\ my[t].n > 0 /\ my[t].pos + my[t].n <= info[s].joined
        BY MemberHas DEF Member, Leader
      <4>. QED
        BY <1>2, <3>1, <4>1 DEF MemberRight, Leader
    <3>2. CASE u # t
      <4>1. Member(u) => my[u].slot \in Slot /\ info[my[u].slot].joined \in Nat
        BY LocalTypes, InfoTypes
      <4>2. Member(u) => info'[my[u].slot].joined = info[my[u].slot].joined
        BY <4>1
      <4>3. Leader(u) => info'[my[u].slot].count = info[my[u].slot].count
        <5>1. Leader(u) => my[u].slot # s
          BY <3>2 DEF GroupInv, MemberInv, Apart, Member, Leader
        <5>. QED
          BY <4>1, <5>1 DEF Member
      <4>. QED
        BY <1>2, <3>2, <4>1, <4>2, <4>3, OtherMember
    <3>. QED
      BY <3>1, <3>2
  <2>2. ASSUME NEW u \in Thread, NEW v \in Thread PROVE Apart(u, v)'
    BY <1>2, <1>3 DEF GroupInv, MemberInv, Apart
  <2>. QED
    BY <2>1, <2>2 DEF MemberInv
<1>7. RestInv'
  <2>1. SUFFICES ASSUME NEW x \in Slot
        PROVE  /\ info'[x].count = "unused" => info'[x].joined = 0
               /\ info'[x].count \in {"available", "pending"} => ~info'[x].error /\ Rest(x)' = 0 .. (info'[x].joined - 1)
               /\ info'[x].count = "finished" /\ ~info'[x].error => info'[x].left = Cardinality(Rest(x)')
    BY DEF RestInv
  <2>2. CASE x = s
    <3>1. Cardinality(0 .. (info[s].joined - 1)) = info[s].joined
      <4>1. PICK j \in Nat : j = info[s].joined
        BY <1>1
      <4>2. Cardinality(0 .. (j - 1)) = IF 0 > j - 1 THEN 0 ELSE (j - 1) - 0 + 1
        BY FS_Interval
      <4>. QED
        BY <4>1, <4>2
    <3>. QED
      BY <1>1, <1>4, <2>2, <3>1
  <2>3. CASE x # s
    BY <1>4, <2>3 DEF GroupInv, RestInv
  <2>. QED
    BY <2>2, <2>3
<1>8. QueueInv'
  <2>1. ASSUME info'[s].error, expose' = expose PROVE QueueInv'
    <3>1. ~Lined(s)' /\ \A k \in DOMAIN expose : expose[k] \in Slot /\ expose[k] # s
      BY <1>5, <2>1, LinedQueue DEF Lined
    <3>2. ASSUME NEW x \in Slot, Lined(x)', info'[x].state = "abort" PROVE Rest(x)' = {}
      BY <1>4, <1>5, <3>1, <3>2 DEF GroupInv, QueueInv
    <3>. QED
      BY <1>5, <2>1, <3>1, <3>2 DEF GroupInv, QueueInv
  <2>2. ASSUME ~info'[s].error, info'[s].state = IF expose = <<>> THEN "go" ELSE "waiting", expose' = Append(expose, s)
        PROVE  QueueInv'
    <3>1. PICK l \in Nat : l = Len(expose) /\ DOMAIN expose = 1 .. l
      BY LinedQueue
    <3>2. Len(expose') = l + 1 /\ DOMAIN expose' = 1 .. (l + 1) /\ expose'[l + 1] = s
          /\ \A k \in 1 .. l : expose'[k] = expose[k]
      BY <2>2, <3>1 DEF TypeOK
    <3>3. Lined(s)' /\ \A k \in 1 .. l : expose[k] \in Slot /\ expose[k] # s
      BY <1>5, <2>2, <3>1, LinedQueue DEF Lined
    <3>4. \A j, k \in DOMAIN expose' : expose'[j] = expose'[k] => j = k
      BY <3>1, <3>2, <3>3 DEF GroupInv, QueueInv
    <3>5. ASSUME NEW x \in Slot PROVE Lined(x)' <=> \E k \in DOMAIN expose' : expose'[k] = x
      <4>1. Lined(x) <=> \E k \in 1 .. l : expose[k] = x
        BY <3>1, LinedQueue
      <4>. QED
        BY <1>5, <3>2, <3>3, <4>1
    <3>6. ASSUME NEW k \in DOMAIN expose'
          PROVE  info'[expose'[k]].state \in IF k = 1 THEN {"go", "abort"} ELSE {"waiting", "abort"}
      <4>1. CASE k = l + 1
        <5>1. l = 0 <=> expose = <<>>
          BY <3>1 DEF TypeOK
        <5>. QED
          BY <2>2, <3>2, <4>1, <5>1
      <4>2. CASE k \in 1 .. l
        BY <3>1, <3>2, <3>3, <4>2 DEF GroupInv, QueueInv
      <4>. QED
        BY <3>2, <4>1, <4>2
    <3>7. ASSUME NEW x \in Slot, Lined(x)', info'[x].state = "abort" PROVE Rest(x)' = {}
      <4>1. x # s
        BY <2>2, <3>7
      <4>. QED
        BY <1>4, <1>5, <3>7, <4>1 DEF GroupInv, QueueInv
    <3>. QED
      BY <3>4, <3>5, <3>6, <3>7 DEF QueueInv
  <2>. QED
    BY <2>1, <2>2
<1>9. OwnerInv'
  <2>1. SUFFICES ASSUME NEW u \in Thread, Owner(u)' PROVE OwnerRight(u)'
    BY DEF OwnerInv
  <2>2. u # t /\ Owner(u) /\ pc'[u] = pc[u] /\ my'[u] = my[u] /\ my[u].slot \in Slot /\ OwnerRight(u)
    BY <1>2, <1>3, <2>1, LocalTypes DEF GroupInv, OwnerInv, Owner
  <2>3. Lined(my[u].slot)' /\ Rest(my[u].slot)' = {} /\ info'[my[u].slot] = info[my[u].slot]
    <3>1. PICK x \in Slot : x = my[u].slot
      BY <2>2
    <3>2. Lined(x) /\ Rest(x) = {}
      BY <2>2, <3>1 DEF OwnerRight
    <3>3. Lined(x)' /\ Rest(x)' = {} /\ info'[x] = info[x]
      BY <1>4, <1>5, <3>2
    <3>. QED
      BY <2>2, <3>1, <3>3, AfterStep
  <2>4. ASSUME NEW v \in Thread, Owner(v)', v # u PROVE my'[v].slot # my[u].slot
    BY <1>2, <1>3, <2>2, <2>4 DEF OwnerRight
  <2>5. info'[my[u].slot].state # "abort" \/ pc[u] # "expose"
    BY <2>2, <2>3 DEF OwnerRight
  <2>6. expose'[1] = expose[1]
    <3>1. Len(expose) > 0 /\ expose \in Seq(Slot)
      BY <2>2, HasHead DEF TypeOK
    <3>. QED
      BY <3>1
  <2>. QED
    BY <2>2, <2>3, <2>4, <2>5, <2>6, OtherOwner
<1>. QED
  BY <1>6, <1>7, <1>8, <1>9 DEF GroupInv

LEMMA AbandonGroups ==
  ASSUME BufferConstants, TypeOK, GroupInv, NEW t \in Thread, Abandon(t)
  PROVE  GroupInv'
<1>1. PICK s \in Slot : s = my[t].slot /\ info' = [info EXCEPT ![s].state = "abort"]
  BY LocalTypes DEF Abandon
<1>2. /\ pc[t] = "expose" /\ info[s].state = "waiting" /\ expose' = expose
      /\ pc' = [pc EXCEPT ![t] = "out"] /\ my' = [my EXCEPT ![t] = Returned(@, @.lsn, @.size)]
  BY <1>1 DEF Abandon, Go
<1>3. pc'[t] = "out" /\ \A u \in Thread : u # t => pc'[u] = pc[u] /\ my'[u] = my[u]
  BY <1>2 DEF TypeOK
<1>4. /\ info'[s].state = "abort"
      /\ \A x \in Slot : /\ x # s => info'[x] = info[x]
                         /\ info'[x].count = info[x].count /\ info'[x].error = info[x].error
                         /\ info'[x].left = info[x].left /\ info'[x].joined = info[x].joined
  <2>0. info \in [Slot -> Info]
    BY DEF TypeOK
  <2>1. info'[s].state = "abort"
    BY <1>1, <2>0 DEF Info
  <2>2. \A x \in Slot : x # s => info'[x] = info[x]
    BY <1>1, <2>0
  <2>3. /\ info'[s].count = info[s].count /\ info'[s].error = info[s].error
        /\ info'[s].left = info[s].left /\ info'[s].joined = info[s].joined
    BY <1>1, <2>0 DEF Info
  <2>. QED
    BY <2>1, <2>2, <2>3
<1>5. OwnerRight(t) /\ Lined(s) /\ Rest(s) = {}
  BY <1>1, <1>2 DEF GroupInv, OwnerInv, OwnerRight, Owner
<1>6. ~Member(t) /\ ~Member(t)' /\ ~Owner(t)' /\ ~Leader(t)'
  BY <1>2, <1>3 DEF Member, Leader, Owner
<1>7. ASSUME NEW x \in Slot PROVE Rest(x)' = Rest(x) /\ (Lined(x)' <=> Lined(x))
  <2>1. Rest(x)' = Rest(x)
    <3>1. \A u \in Thread : (Member(u) /\ my[u].slot = x)' <=> (Member(u) /\ my[u].slot = x)
      BY <1>3, <1>6, Unmoved
    <3>2. \A u \in Thread : Member(u) /\ my[u].slot = x => my'[u].pos = my[u].pos /\ my'[u].n = my[u].n
      BY <1>3, <1>6
    <3>. QED
      BY <3>1, <3>2, RestSame
  <2>. QED
    BY <1>4, <2>1 DEF Lined
<1>8. MemberInv'
  <2>1. ASSUME NEW u \in Thread PROVE MemberRight(u)'
    <3>1. CASE u = t
      BY <1>3, <1>6, <3>1 DEF MemberRight
    <3>2. CASE u # t
      <4>1. my[u].slot \in Slot /\ info[my[u].slot].joined \in Nat
        BY LocalTypes, InfoTypes
      <4>. QED
        BY <1>3, <1>4, <3>2, <4>1, OtherMember
    <3>. QED
      BY <3>1, <3>2
  <2>2. ASSUME NEW u \in Thread, NEW v \in Thread PROVE Apart(u, v)'
    <3>1. CASE u # t /\ v # t
      BY <1>3, <3>1, OtherApart
    <3>. QED
      BY <1>6, <3>1 DEF Apart
  <2>. QED
    BY <2>1, <2>2 DEF MemberInv
<1>9. RestInv'
  BY <1>4, <1>7 DEF GroupInv, RestInv
<1>10. QueueInv'
  <2>1. \A k \in DOMAIN expose : expose[k] \in Slot
    BY <1>1, LinedQueue
  <2>2. ASSUME NEW k \in DOMAIN expose
        PROVE  info'[expose[k]].state \in IF k = 1 THEN {"go", "abort"} ELSE {"waiting", "abort"}
    BY <1>4, <2>1 DEF GroupInv, QueueInv
  <2>3. ASSUME NEW x \in Slot, Lined(x)', info'[x].state = "abort" PROVE Rest(x)' = {}
    BY <1>4, <1>5, <1>7, <2>3 DEF GroupInv, QueueInv
  <2>. QED
    BY <1>2, <1>7, <2>1, <2>2, <2>3 DEF GroupInv, QueueInv
<1>11. OwnerInv'
  <2>1. SUFFICES ASSUME NEW u \in Thread, Owner(u)' PROVE OwnerRight(u)'
    BY DEF OwnerInv
  <2>2. u # t /\ Owner(u) /\ pc'[u] = pc[u] /\ my'[u] = my[u] /\ my[u].slot \in Slot /\ OwnerRight(u)
    BY <1>3, <1>6, <2>1, Unmoved, LocalTypes DEF GroupInv, OwnerInv
  <2>3. my[u].slot # s
    BY <1>1, <1>2, <2>2 DEF OwnerRight, Owner
  <2>4. Lined(my[u].slot)' /\ Rest(my[u].slot)' = {} /\ info'[my[u].slot] = info[my[u].slot]
    <3>1. PICK x \in Slot : x = my[u].slot
      BY <2>2
    <3>2. Lined(x) /\ Rest(x) = {}
      BY <2>2, <3>1 DEF OwnerRight
    <3>3. Lined(x)' /\ Rest(x)' = {} /\ info'[x] = info[x]
      BY <1>4, <1>7, <2>3, <3>1, <3>2
    <3>. QED
      BY <2>2, <3>1, <3>3, AfterStep
  <2>5. ASSUME NEW v \in Thread, Owner(v)', v # u PROVE my'[v].slot # my[u].slot
    BY <1>3, <1>6, <2>2, <2>5, Unmoved DEF OwnerRight
  <2>6. info'[my[u].slot].state # "abort" \/ pc[u] # "expose"
    BY <2>2, <2>4 DEF OwnerRight
  <2>. QED
    BY <1>2, <2>2, <2>4, <2>5, <2>6, OtherOwner
<1>. QED
  BY <1>8, <1>9, <1>10, <1>11 DEF GroupInv

\* A member of a group that has its place, or that has none, leaves it.
LEMMA LeaveGroups ==
  ASSUME BufferConstants, TypeOK, GroupInv, NEW t \in Thread, NEW s \in Slot, s = my[t].slot,
         pc[t] = "copy", info[s].count = "finished",
         \A u \in Thread : u # t => pc'[u] = pc[u] /\ my'[u] = my[u],
         pc'[t] \in {"out", "expose"},
         pc'[t] = "expose" <=> info[s].left = my[t].n /\ ~info[s].error,
         pc'[t] = "expose" => my'[t].slot = s,
         expose' = expose,
         \A x \in Slot : x # s => info'[x] = info[x],
         info'[s].left = info[s].left - my[t].n,
         /\ info'[s].count = info[s].count /\ info'[s].error = info[s].error
         /\ info'[s].joined = info[s].joined /\ info'[s].state = info[s].state
  PROVE  GroupInv'
<1>1. PICK n \in Nat : n = my[t].n /\ n > 0
  BY LocalTypes, MemberHas DEF Member
<1>2. Member(t) /\ ~Owner(t) /\ ~Member(t)' /\ ~Leader(t)' /\ (Owner(t)' <=> pc'[t] = "expose")
  BY DEF Member, Leader, Owner
<1>3. \A x \in Slot : Lined(x)' <=> Lined(x)
  BY DEF Lined
<1>4. ASSUME NEW x \in Slot, x # s PROVE Rest(x)' = Rest(x)
  <2>1. \A u \in Thread : (Member(u) /\ my[u].slot = x)' <=> (Member(u) /\ my[u].slot = x)
    BY <1>2, <1>4, Unmoved
  <2>2. \A u \in Thread : Member(u) /\ my[u].slot = x => my'[u].pos = my[u].pos /\ my'[u].n = my[u].n
    BY <1>2, <1>4
  <2>. QED
    BY <2>1, <2>2, RestSame
<1>5. Rest(s)' = Rest(s) \ Part(t)
  <2>1. ASSUME NEW x PROVE x \in Rest(s)' <=> \E u \in Thread : Member(u)' /\ my'[u].slot = s /\ x \in Part(u)'
    BY DEF Rest
  <2>2. ASSUME NEW x PROVE x \in Rest(s) <=> \E u \in Thread : Member(u) /\ my[u].slot = s /\ x \in Part(u)
    BY DEF Rest
  <2>3. ASSUME NEW u \in Thread, u # t, Member(u), my[u].slot = s PROVE Part(u) \intersect Part(t) = {}
    BY <1>2, <2>3 DEF GroupInv, MemberInv, Apart
  <2>4. ASSUME NEW x PROVE x \in Rest(s)' <=> x \in Rest(s) /\ x \notin Part(t)
    BY <2>1, <2>2, <2>3, <1>2, Unmoved
  <2>. QED
    BY <2>4
<1>6. Part(t) \subseteq Rest(s) /\ IsFiniteSet(Rest(s)) /\ Part(t) # {} /\ Cardinality(Part(t)) = n /\ IsFiniteSet(Part(t))
  <2>1. PICK p \in Nat : p = my[t].pos
    BY LocalTypes
  <2>2. Cardinality(p .. (p + n - 1)) = n /\ IsFiniteSet(p .. (p + n - 1))
    <3>1. n > 0
      BY <1>1
    <3>2. PICK q \in Int : q = p + n - 1
      OBVIOUS
    <3>3. ~(p > q) /\ q - p + 1 = n
      BY <3>1, <3>2
    <3>. QED
      BY <3>2, <3>3, FS_Interval
  <2>3. Part(t) = p .. (p + n - 1)
    BY <1>1, <2>1 DEF Part
  <2>. QED
    BY <1>2, <2>2, <2>3, MemberHas, RestIn
<1>7. Cardinality(Rest(s)') = Cardinality(Rest(s)) - n
  <2>1. IsFiniteSet(Rest(s)) /\ Part(t) \subseteq Rest(s) /\ Cardinality(Part(t)) = n
    BY <1>6
  <2>2. Cardinality(Rest(s) \ Part(t)) = Cardinality(Rest(s)) - Cardinality(Part(t))
    BY ONLY <2>1, LessOf, ZenonT(30)
  <2>. QED
    BY <1>5, <2>1, <2>2
<1>8. Lined(s) => info[s].left = Cardinality(Rest(s)) /\ info[s].state # "abort" /\ \A u \in Thread : Owner(u) => my[u].slot # s
  <2>1. ASSUME NEW u \in Thread, Owner(u) PROVE my[u].slot # s
    BY <1>6, <2>1 DEF GroupInv, OwnerInv, OwnerRight
  <2>. QED
    BY <1>6, <2>1 DEF GroupInv, RestInv, QueueInv, Lined
<1>9. pc'[t] = "expose" => Lined(s) /\ Rest(s)' = {}
  <2>1. SUFFICES ASSUME pc'[t] = "expose" PROVE Lined(s) /\ Rest(s)' = {}
    OBVIOUS
  <2>2. Lined(s)
    BY <2>1 DEF Lined
  <2>3. Cardinality(Rest(s)') = 0
    BY <1>1, <1>7, <1>8, <2>1, <2>2
  <2>4. IsFiniteSet(Rest(s)')
    BY <1>5, <1>6, LessOf
  <2>. QED
    BY <2>2, <2>3, <2>4, FS_EmptySet
<1>10. MemberInv'
  <2>1. ASSUME NEW u \in Thread PROVE MemberRight(u)'
    <3>1. CASE u = t
      BY <1>2, <3>1 DEF MemberRight
    <3>2. CASE u # t
      <4>1. my[u].slot \in Slot /\ info[my[u].slot].joined \in Nat
        BY LocalTypes, InfoTypes
      <4>2. info'[my[u].slot].joined = info[my[u].slot].joined /\ info'[my[u].slot].count = info[my[u].slot].count
        BY <4>1
      <4>. QED
        BY <3>2, <4>1, <4>2, OtherMember
    <3>. QED
      BY <3>1, <3>2
  <2>2. ASSUME NEW u \in Thread, NEW v \in Thread PROVE Apart(u, v)'
    <3>1. CASE u # t /\ v # t
      BY <3>1, OtherApart
    <3>. QED
      BY <1>2, <3>1 DEF Apart
  <2>. QED
    BY <2>1, <2>2 DEF MemberInv
<1>11. RestInv'
  <2>1. SUFFICES ASSUME NEW x \in Slot
        PROVE  /\ info'[x].count = "unused" => info'[x].joined = 0
               /\ info'[x].count \in {"available", "pending"} => ~info'[x].error /\ Rest(x)' = 0 .. (info'[x].joined - 1)
               /\ info'[x].count = "finished" /\ ~info'[x].error => info'[x].left = Cardinality(Rest(x)')
    BY DEF RestInv
  <2>2. CASE x = s
    BY <1>1, <1>7, <1>8, <2>2 DEF Lined
  <2>3. CASE x # s
    BY <1>4, <2>3 DEF GroupInv, RestInv
  <2>. QED
    BY <2>2, <2>3
<1>12. QueueInv'
  <2>1. \A k \in DOMAIN expose : expose[k] \in Slot
    BY LinedQueue
  <2>2. ASSUME NEW x \in Slot, Lined(x)', info'[x].state = "abort" PROVE Rest(x)' = {}
    <3>1. x # s /\ Lined(x)
      BY <1>3, <1>8, <2>2
    <3>. QED
      BY <1>4, <2>2, <3>1 DEF GroupInv, QueueInv
  <2>. QED
    BY <1>3, <2>1, <2>2 DEF GroupInv, QueueInv
<1>13. OwnerInv'
  <2>1. SUFFICES ASSUME NEW u \in Thread, Owner(u)' PROVE OwnerRight(u)'
    BY DEF OwnerInv
  <2>2. CASE u = t
    <3>1. pc'[t] = "expose" /\ my'[t].slot = s /\ Lined(s) /\ Rest(s)' = {}
      BY <1>2, <1>9, <2>1, <2>2
    <3>2. Lined(my[t].slot)' /\ Rest(my[t].slot)' = {}
      BY <1>3, <3>1, AfterStep
    <3>3. info'[s].state # "abort"
      BY <1>8, <3>1
    <3>4. ASSUME NEW v \in Thread, Owner(v)', my'[v].slot = s PROVE v = t
      BY <1>8, <3>1, <3>4, Unmoved
    <3>. QED
      BY <2>2, <3>1, <3>2, <3>3, <3>4 DEF OwnerRight
  <2>3. CASE u # t
    <3>1. Owner(u) /\ pc'[u] = pc[u] /\ my'[u] = my[u] /\ my[u].slot \in Slot /\ OwnerRight(u)
      BY <2>1, <2>3, Unmoved, LocalTypes DEF GroupInv, OwnerInv
    <3>2. Lined(my[u].slot) /\ my[u].slot # s
      BY <1>6, <3>1 DEF OwnerRight
    <3>3. Lined(my[u].slot)' /\ Rest(my[u].slot)' = {} /\ info'[my[u].slot] = info[my[u].slot]
      <4>1. PICK x \in Slot : x = my[u].slot
        BY <3>1
      <4>2. Lined(x) /\ Rest(x) = {}
        BY <3>1, <4>1 DEF OwnerRight
      <4>3. Lined(x)' /\ Rest(x)' = {} /\ info'[x] = info[x]
        BY <1>3, <1>4, <3>2, <4>1, <4>2
      <4>. QED
        BY <3>1, <4>1, <4>3, AfterStep
    <3>4. ASSUME NEW v \in Thread, Owner(v)', v # u PROVE my'[v].slot # my[u].slot
      <4>1. CASE v = t
        BY <1>2, <3>2, <3>4, <4>1
      <4>2. CASE v # t
        BY <3>1, <3>4, <4>2, Unmoved DEF OwnerRight
      <4>. QED
        BY <4>1, <4>2
    <3>5. info'[my[u].slot].state # "abort" \/ pc[u] # "expose"
      BY <3>1, <3>3 DEF OwnerRight
    <3>. QED
      BY <3>1, <3>3, <3>4, <3>5, OtherOwner
  <2>. QED
    BY <2>2, <2>3
<1>. QED
  BY <1>10, <1>11, <1>12, <1>13 DEF GroupInv

LEMMA CopyGroups ==
  ASSUME BufferConstants, TypeOK, GroupInv, NEW t \in Thread, Copy(t) \/ Fail(t)
  PROVE  GroupInv'
<1>1. PICK s \in Slot, n \in Nat : s = my[t].slot /\ n = my[t].n
  BY LocalTypes
<1>2. /\ pc[t] = "copy" /\ info[s].count = "finished" /\ expose' = expose
      /\ info' = [info EXCEPT ![s].left = @ - n]
      /\ pc' = [pc EXCEPT ![t] = IF info[s].left = n /\ ~info[s].error THEN "expose" ELSE "out"]
  BY <1>1 DEF Copy, Fail, Leaves, LastOut, Go
<1>3. /\ \A u \in Thread : u # t => pc'[u] = pc[u]
      /\ pc'[t] \in {"out", "expose"}
      /\ pc'[t] = "expose" <=> info[s].left = n /\ ~info[s].error
  BY <1>2 DEF TypeOK
<1>4. PICK m : my' = [my EXCEPT ![t] = m] /\ (info[s].left = n /\ ~info[s].error => m.slot = s)
  <2>1. CASE Copy(t)
    <3>1. [my[t] EXCEPT !.lsn = Lsn(t), !.size = my[t].n].slot = s
      BY <1>1, LocalTypes DEF Local
    <3>. QED
      BY <1>1, <2>1, <3>1 DEF Copy, LastOut
  <2>2. CASE Fail(t)
    BY <1>1, <2>2 DEF Fail
  <2>. QED
    BY <2>1, <2>2
<1>5. (\A u \in Thread : u # t => my'[u] = my[u]) /\ (pc'[t] = "expose" => my'[t].slot = s)
  BY <1>3, <1>4 DEF TypeOK
<1>6. \A x \in Slot : x # s => info'[x] = info[x]
  BY <1>2 DEF TypeOK
<1>7. /\ info'[s].left = info[s].left - n
      /\ info'[s].count = info[s].count /\ info'[s].error = info[s].error
      /\ info'[s].joined = info[s].joined /\ info'[s].state = info[s].state
  <2>1. info \in [Slot -> Info]
    BY DEF TypeOK
  <2>. QED
    BY <1>2, <2>1 DEF Info
<1>. QED
  BY <1>1, <1>2, <1>3, <1>5, <1>6, <1>7, LeaveGroups

\* The first group of the line is exposed, and gone.
LEMMA HandOverGroups ==
  ASSUME BufferConstants, TypeOK, GroupInv, NEW t \in Thread, HandOver(t)
  PROVE  GroupInv'
<1>1. PICK s \in Slot, l \in Nat : s = my[t].slot /\ l = Len(expose)
  BY LocalTypes DEF TypeOK
<1>2. /\ l > 0 /\ expose[1] = s /\ Lined(s) /\ Rest(s) = {} /\ DOMAIN expose = 1 .. l /\ Owner(t) /\ ~Member(t)
      /\ \A k \in 1 .. l : expose[k] \in Slot /\ Lined(expose[k])
      /\ \A j, k \in 1 .. l : expose[j] = expose[k] => j = k
  <2>1. Owner(t) /\ pc[t] = "hand over"
    BY DEF HandOver, Owner
  <2>2. OwnerRight(t)
    BY <2>1 DEF GroupInv, OwnerInv
  <2>. QED
    BY <1>1, <2>1, <2>2, HasHead, LinedQueue DEF OwnerRight, GroupInv, QueueInv, Member, Leader
<1>3. /\ expose' = Tail(expose) /\ DOMAIN expose' = 1 .. (l - 1) /\ Len(expose') = l - 1
      /\ \A k \in 1 .. (l - 1) : expose'[k] = expose[k + 1]
  <2>1. expose' = Tail(expose) /\ expose \in Seq(Slot) /\ expose # <<>>
    <3>1. expose \in Seq(Slot)
      BY DEF TypeOK
    <3>2. expose # <<>>
      BY <1>1, <1>2, <3>1
    <3>. QED
      BY <3>1, <3>2 DEF HandOver
  <2>. QED
    BY <1>1, <1>2, <2>1
<1>4. /\ pc[t] = "hand over"
      /\ \A u \in Thread : u # t => pc'[u] = pc[u] /\ my'[u] = my[u]
      /\ info'[s] = NewInfo("unused")
      /\ \/ /\ l > 1 /\ info[expose[2]].state = "abort" /\ my'[t].slot = expose[2] /\ pc'[t] = "update"
            /\ \A x \in Slot : x # s => info'[x] = info[x]
         \/ /\ pc'[t] = "out" /\ (l > 1 => info[expose[2]].state # "abort")
            /\ \A x \in Slot : x # s => info'[x] = IF x \in Next_in_line THEN [info[x] EXCEPT !.state = "go"] ELSE info[x]
  <2>0. my \in [Thread -> Local] /\ pc \in [Thread -> PC] /\ info \in [Slot -> Info]
    BY DEF TypeOK
  <2>1. CASE \E n \in Next_in_line : info[n].state = "abort"
    <3>1. /\ info' = [info EXCEPT ![s] = NewInfo("unused")] /\ pc[t] = "hand over"
          /\ my' = [my EXCEPT ![t].slot = expose[2]]
          /\ pc' = [pc EXCEPT ![t] = "update"]
      BY <1>1, <2>1 DEF HandOver, Go
    <3>2. l > 1 /\ info[expose[2]].state = "abort"
      BY <1>1, <2>1 DEF Next_in_line
    <3>3. my'[t].slot = expose[2]
      BY <2>0, <3>1 DEF Local
    <3>. QED
      BY <2>0, <3>1, <3>2, <3>3
  <2>2. CASE ~\E n \in Next_in_line : info[n].state = "abort"
    <3>1. /\ info' = [x \in Slot |-> IF x = s THEN NewInfo("unused")
                                     ELSE IF x \in Next_in_line THEN [info[x] EXCEPT !.state = "go"] ELSE info[x]]
          /\ pc[t] = "hand over" /\ pc' = [pc EXCEPT ![t] = "out"]
          /\ my' = [my EXCEPT ![t] = Returned(@, @.lsn, @.size)]
      BY <1>1, <2>2 DEF HandOver, Go
    <3>2. l > 1 => info[expose[2]].state # "abort"
      BY <1>1, <2>2 DEF Next_in_line
    <3>. QED
      BY <2>0, <3>1, <3>2
  <2>. QED
    BY <2>1, <2>2
<1>5. /\ info'[s].count = "unused" /\ info'[s].joined = 0 /\ ~Lined(s)'
      /\ \A x \in Slot : x # s => /\ info'[x].count = info[x].count /\ info'[x].error = info[x].error
                                  /\ info'[x].left = info[x].left /\ info'[x].joined = info[x].joined
                                  /\ (Lined(x)' <=> Lined(x))
                                  /\ (info'[x].state = info[x].state \/ (info'[x].state = "go" /\ l > 1 /\ x = expose[2]))
  <2>1. info'[s].count = "unused" /\ info'[s].joined = 0
    BY <1>4, NewInfoType
  <2>2. ASSUME NEW x \in Slot, x # s
        PROVE  /\ info'[x].count = info[x].count /\ info'[x].error = info[x].error
               /\ info'[x].left = info[x].left /\ info'[x].joined = info[x].joined
               /\ (info'[x].state = info[x].state \/ (info'[x].state = "go" /\ l > 1 /\ x = expose[2]))
    <3>1. CASE info'[x] = info[x]
      BY <3>1
    <3>2. CASE x \in Next_in_line /\ info'[x] = [info[x] EXCEPT !.state = "go"]
      <4>1. l > 1 /\ x = expose[2]
        BY <1>1, <3>2 DEF Next_in_line
      <4>. QED
        BY <3>2, <4>1, InfoTypes DEF Info
    <3>. QED
      BY <1>4, <2>2, <3>1, <3>2
  <2>. QED
    BY <2>1, <2>2 DEF Lined
<1>6. ~Member(t)' /\ ~Leader(t)' /\ (Owner(t)' <=> pc'[t] = "update")
  BY <1>4 DEF Member, Leader, Owner
<1>7. ASSUME NEW x \in Slot PROVE Rest(x)' = Rest(x)
  <2>1. \A u \in Thread : (Member(u) /\ my[u].slot = x)' <=> (Member(u) /\ my[u].slot = x)
    BY <1>2, <1>4, <1>6, Unmoved
  <2>2. \A u \in Thread : Member(u) /\ my[u].slot = x => my'[u].pos = my[u].pos /\ my'[u].n = my[u].n
    BY <1>2, <1>4
  <2>. QED
    BY <2>1, <2>2, RestSame
<1>8. MemberInv'
  <2>1. ASSUME NEW u \in Thread PROVE MemberRight(u)'
    <3>1. CASE u = t
      BY <1>4, <1>6, <3>1 DEF MemberRight
    <3>2. CASE u # t
      <4>1. Member(u) => my[u].slot \in Slot /\ my[u].slot # s /\ info[my[u].slot].joined \in Nat
        BY <1>2, NoMember, LocalTypes, InfoTypes
      <4>2. Member(u) => /\ info'[my[u].slot].joined = info[my[u].slot].joined
                         /\ info'[my[u].slot].count = info[my[u].slot].count
        BY <1>5, <4>1
      <4>. QED
        <5>1. Leader(u) => Member(u)
          BY DEF Member
        <5>2. Member(u) => info'[my[u].slot].joined \in Nat /\ info'[my[u].slot].joined >= info[my[u].slot].joined
          BY <4>1, <4>2
        <5>3. Leader(u) => info'[my[u].slot].count = info[my[u].slot].count
          BY <4>2, <5>1
        <5>. QED
          BY <1>4, <3>2, <5>2, <5>3, OtherMember
    <3>. QED
      BY <3>1, <3>2
  <2>2. ASSUME NEW u \in Thread, NEW v \in Thread PROVE Apart(u, v)'
    <3>1. CASE u # t /\ v # t
      BY <1>4, <3>1, OtherApart
    <3>. QED
      BY <1>6, <3>1 DEF Apart
  <2>. QED
    BY <2>1, <2>2 DEF MemberInv
<1>9. RestInv'
  <2>1. SUFFICES ASSUME NEW x \in Slot
        PROVE  /\ info'[x].count = "unused" => info'[x].joined = 0
               /\ info'[x].count \in {"available", "pending"} => ~info'[x].error /\ Rest(x)' = 0 .. (info'[x].joined - 1)
               /\ info'[x].count = "finished" /\ ~info'[x].error => info'[x].left = Cardinality(Rest(x)')
    BY DEF RestInv
  <2>2. CASE x = s
    BY <1>5, <2>2
  <2>3. CASE x # s
    BY <1>5, <1>7, <2>3 DEF GroupInv, RestInv
  <2>. QED
    BY <2>2, <2>3
<1>10. QueueInv'
  <2>1. \A k \in 1 .. (l - 1) : k + 1 \in 1 .. l /\ expose'[k] = expose[k + 1] /\ expose[k + 1] # s /\ expose[k + 1] \in Slot
    BY <1>2, <1>3
  <2>2. \A j, k \in DOMAIN expose' : expose'[j] = expose'[k] => j = k
    <3>1. ASSUME NEW j \in 1 .. (l - 1), NEW k \in 1 .. (l - 1), expose'[j] = expose'[k] PROVE j = k
      <4>1. j + 1 = k + 1
        BY <1>2, <2>1, <3>1
      <4>. QED
        BY <4>1
    <3>. QED
      BY <1>3, <3>1
  <2>3. ASSUME NEW x \in Slot PROVE Lined(x)' <=> \E k \in DOMAIN expose' : expose'[k] = x
    <3>1. CASE x = s
      BY <1>3, <1>5, <2>1, <3>1
    <3>2. CASE x # s
      <4>1. Lined(x)' <=> \E k \in 1 .. l : expose[k] = x
        BY <1>1, <1>5, <3>2, LinedQueue
      <4>2. ASSUME NEW k \in 1 .. l, expose[k] = x PROVE \E j \in 1 .. (l - 1) : expose'[j] = x
        <5>1. k # 1 /\ k - 1 \in 1 .. (l - 1) /\ (k - 1) + 1 = k
          BY <1>2, <3>2, <4>2
        <5>2. expose'[k - 1] = expose[(k - 1) + 1]
          BY <1>3, <5>1
        <5>. QED
          BY <4>2, <5>1, <5>2
      <4>3. ASSUME NEW j \in 1 .. (l - 1), expose'[j] = x PROVE \E k \in 1 .. l : expose[k] = x
        BY <2>1, <4>3
      <4>. QED
        BY <1>3, <4>1, <4>2, <4>3
    <3>. QED
      BY <3>1, <3>2
  <2>4. ASSUME NEW k \in DOMAIN expose'
        PROVE  info'[expose'[k]].state \in IF k = 1 THEN {"go", "abort"} ELSE {"waiting", "abort"}
    <3>1. k \in 1 .. (l - 1) /\ k + 1 # 1
      BY <1>3, <2>4
    <3>2. expose'[k] = expose[k + 1] /\ expose[k + 1] \in Slot /\ expose[k + 1] # s /\ k + 1 \in 1 .. l
      BY <2>1, <3>1
    <3>3. info[expose[k + 1]].state \in {"waiting", "abort"}
      BY <1>2, <3>1, <3>2 DEF GroupInv, QueueInv
    <3>4. CASE k = 1
      <4>1. l > 1 /\ expose[k + 1] = expose[2]
        BY <3>1, <3>4
      <4>2. info'[expose[2]].state \in {"go", "abort"}
        <5>1. CASE info[expose[2]].state = "abort"
          BY <1>4, <1>5, <3>2, <4>1, <5>1
        <5>2. CASE info[expose[2]].state # "abort"
          <6>1. info'[expose[2]] = [info[expose[2]] EXCEPT !.state = "go"]
            BY <1>1, <1>4, <3>2, <4>1, <5>2 DEF Next_in_line
          <6>. QED
            BY <3>2, <4>1, <6>1, InfoTypes DEF Info
        <5>. QED
          BY <5>1, <5>2
      <4>. QED
        BY <3>2, <3>4, <4>1, <4>2
    <3>5. CASE k # 1
      <4>1. expose[k + 1] # expose[2]
        <5>1. k + 1 # 2 /\ 2 \in 1 .. l
          BY <3>1, <3>2, <3>5
        <5>. QED
          BY <1>2, <3>2, <5>1
      <4>. QED
        BY <1>5, <3>2, <3>3, <3>5, <4>1
    <3>. QED
      BY <3>4, <3>5
  <2>5. ASSUME NEW x \in Slot, Lined(x)', info'[x].state = "abort" PROVE Rest(x)' = {}
    <3>1. x # s /\ Lined(x) /\ info[x].state = "abort"
      BY <1>5, <2>5
    <3>. QED
      BY <1>7, <3>1 DEF GroupInv, QueueInv
  <2>. QED
    BY <2>2, <2>3, <2>4, <2>5 DEF QueueInv
<1>11. OwnerInv'
  <2>1. SUFFICES ASSUME NEW u \in Thread, Owner(u)' PROVE OwnerRight(u)'
    BY DEF OwnerInv
  <2>2. ASSUME NEW v \in Thread, v # t, Owner(v)'
        PROVE  Owner(v) /\ pc'[v] = pc[v] /\ my'[v] = my[v] /\ my[v].slot \in Slot /\ OwnerRight(v) /\ my[v].slot # s
               /\ pc[v] = "expose"
    <3>1. Owner(v) /\ pc'[v] = pc[v] /\ my'[v] = my[v] /\ my[v].slot \in Slot /\ OwnerRight(v)
      BY <1>4, <2>2, Unmoved, LocalTypes DEF GroupInv, OwnerInv
    <3>2. my[v].slot # s
      BY <1>1, <1>2, <2>2, <3>1 DEF OwnerRight
    <3>. QED
      BY <1>2, <3>1, <3>2 DEF OwnerRight
  <2>3. ASSUME NEW v \in Thread, v # t, Owner(v)' PROVE my[v].slot \in Slot /\ info[my[v].slot].state # "abort"
    BY <2>2, <2>3 DEF OwnerRight
  <2>4. CASE u = t
    <3>1. l > 1 /\ info[expose[2]].state = "abort" /\ my'[t].slot = expose[2] /\ pc'[t] = "update" /\ info'[expose[2]] = info[expose[2]]
      <4>1. l > 1 /\ info[expose[2]].state = "abort" /\ my'[t].slot = expose[2] /\ pc'[t] = "update"
            /\ \A x \in Slot : x # s => info'[x] = info[x]
        BY <1>4, <1>6, <2>1, <2>4
      <4>2. expose[2] \in Slot /\ expose[2] # s
        <5>1. 2 \in 1 .. l /\ 1 \in 1 .. l
          BY <4>1
        <5>. QED
          BY <1>2, <5>1
      <4>. QED
        BY <4>1, <4>2
    <3>2. PICK x \in Slot : x = expose[2] /\ x # s /\ Lined(x)
      <4>1. 2 \in 1 .. l /\ 1 \in 1 .. l
        BY <3>1
      <4>. QED
        BY <1>2, <4>1
    <3>3. Lined(x)' /\ Rest(x)' = {}
      BY <1>5, <1>7, <3>1, <3>2 DEF GroupInv, QueueInv
    <3>4. Lined(my[t].slot)' /\ Rest(my[t].slot)' = {}
      BY <3>1, <3>2, <3>3, AfterStep
    <3>5. expose'[1] = x
      BY <1>3, <3>1, <3>2
    <3>6. ASSUME NEW v \in Thread, Owner(v)', my'[v].slot = x PROVE v = t
      BY <2>2, <2>3, <3>1, <3>2, <3>6
    <3>. QED
      BY <2>4, <3>1, <3>2, <3>4, <3>5, <3>6 DEF OwnerRight
  <2>5. CASE u # t
    <3>1. Owner(u) /\ pc'[u] = pc[u] /\ my'[u] = my[u] /\ my[u].slot \in Slot /\ OwnerRight(u) /\ my[u].slot # s
               /\ pc[u] = "expose"
      BY <2>1, <2>2, <2>5
    <3>2. PICK x \in Slot : x = my[u].slot /\ Lined(x) /\ Rest(x) = {} /\ info[x].state # "abort"
      BY <3>1 DEF OwnerRight
    <3>3. Lined(x)' /\ Rest(x)' = {} /\ info'[x].state # "abort"
      BY <1>5, <1>7, <3>1, <3>2
    <3>4. Lined(my[u].slot)' /\ Rest(my[u].slot)' = {}
      BY <3>1, <3>2, <3>3, AfterStep
    <3>5. ASSUME NEW v \in Thread, Owner(v)', v # u PROVE my'[v].slot # x
      <4>1. CASE v = t
        BY <1>4, <1>6, <3>2, <3>5, <4>1
      <4>2. CASE v # t
        BY <2>2, <3>1, <3>2, <3>5, <4>2 DEF OwnerRight
      <4>. QED
        BY <4>1, <4>2
    <3>. QED
      BY <3>1, <3>2, <3>3, <3>4, <3>5, OtherOwner
  <2>. QED
    BY <2>4, <2>5
<1>. QED
  BY <1>8, <1>9, <1>10, <1>11 DEF GroupInv

\* One thread moves, and neither joins nor leaves a group.
LEMMA QuietThread ==
  ASSUME TypeOK, GroupInv, info' = info, expose' = expose, NEW t \in Thread,
         \A u \in Thread : u # t => pc'[u] = pc[u] /\ my'[u] = my[u],
         \/ /\ ~Member(t) /\ ~Owner(t) /\ pc'[t] \in {"out", "join", "flush wait", "flush asleep"}
            /\ pc'[t] = "join" => my'[t].n > 0
         \/ /\ pc[t] \in {"space", "space wait", "space asleep"} /\ pc'[t] \in {"space", "space wait", "space asleep"}
            /\ my'[t] = my[t]
         \/ /\ pc[t] = "update" \/ (pc[t] = "expose" /\ info[my[t].slot].state = "go")
            /\ pc'[t] = "hand over" /\ my'[t] = my[t]
  PROVE  GroupInv'
<1>1. ASSUME NEW u \in Thread
      PROVE  /\ (Member(u)' <=> Member(u)) /\ (Owner(u)' <=> Owner(u)) /\ (Leader(u)' <=> Leader(u))
             /\ Member(u) \/ Owner(u) => my'[u].slot = my[u].slot
             /\ Member(u) => my'[u].pos = my[u].pos /\ my'[u].n = my[u].n
             /\ pc'[u] = "first" <=> pc[u] = "first"
             /\ pc'[u] = "join" => my'[u].n > 0
             /\ Owner(u) /\ pc'[u] # "expose" => pc[u] # "expose" \/ info[my[u].slot].state = "go"
             /\ pc'[u] = "expose" => pc[u] = "expose"
  <2>1. CASE u # t
    <3>1. pc[u] = "join" => my[u].n > 0
      BY DEF GroupInv, MemberInv, MemberRight
    <3>. QED
      BY <2>1, <3>1, Unmoved
  <2>2. CASE u = t
    BY <2>2 DEF Member, Leader, Owner
  <2>. QED
    BY <2>1, <2>2
<1>. QED
  BY <1>1, QuietGroups

LEMMA GroupStep ==
  ASSUME BufferConstants, TypeOK, TypeOK', GroupInv, [Next]_vars
  PROVE  GroupInv'
<1>. USE DEF group, ends, epochs, disk
<1>0. pc \in [Thread -> PC] /\ my \in [Thread -> Local]
  BY DEF TypeOK
<1>1. ASSUME NEW t \in Thread, Insert(t) PROVE GroupInv'
  <2>1. PICK n \in world.size, i \in 0..(Active - 1) :
          my' = [my EXCEPT ![t].n = n, ![t].idx = i, ![t].slot = slots[i], ![t].todo = @ - 1]
    BY <1>1 DEF Insert
  <2>2. n > 0 /\ my'[t].n = n /\ pc[t] = "out" /\ pc'[t] = "join"
    <3>1. n > 0
      BY DEF TypeOK
    <3>2. my'[t].n = n
      BY <1>0, <2>1 DEF Local
    <3>. QED
      BY <1>0, <1>1, <3>1, <3>2 DEF Insert, Go
  <2>3. info' = info /\ expose' = expose /\ \A u \in Thread : u # t => pc'[u] = pc[u] /\ my'[u] = my[u]
    BY <1>0, <1>1, <2>1 DEF Insert, Go
  <2>. QED
    BY <2>2, <2>3, QuietThread DEF Member, Leader, Owner
<1>2. ASSUME NEW t \in Thread, NextSlot(t) PROVE GroupInv'
  <2>1. pc[t] = "join" /\ my[t].n > 0 /\ pc' = pc /\ info' = info /\ expose' = expose
    BY <1>2 DEF NextSlot, GroupInv, MemberInv, MemberRight
  <2>2. my'[t].n = my[t].n /\ \A u \in Thread : u # t => my'[u] = my[u]
    BY <1>0, <1>2 DEF NextSlot, Local
  <2>. QED
    BY <2>1, <2>2, QuietThread DEF Member, Leader, Owner
<1>3. ASSUME NEW t \in Thread, NoSpace(t) \/ AwaitSpace(t) \/ SpaceCame(t) PROVE GroupInv'
  <2>1. /\ info' = info /\ expose' = expose /\ my' = my /\ pc[t] \in {"space", "space wait"}
        /\ \/ pc' = [pc EXCEPT ![t] = "space wait"] \/ pc' = [pc EXCEPT ![t] = "space asleep"] \/ pc' = [pc EXCEPT ![t] = "space"]
    BY <1>3 DEF NoSpace, AwaitSpace, SpaceCame, Go
  <2>. QED
    BY <1>0, <2>1, QuietThread
<1>4. ASSUME NEW t \in Thread, Allocate(t) PROVE GroupInv'
  <2>1. PICK s \in Slot : s = my[t].slot
    BY LocalTypes
  <2>2. PICK e, l, nb, sp : Allocated(t, e, l, nb, sp)
    BY <1>4 DEF Allocate
  <2>3. /\ \A x \in Slot : x # s => info'[x] = info[x]
        /\ info'[s].count = "finished" /\ info'[s].joined = info[s].joined
        /\ info'[s].error = info[s].error /\ info'[s].left = info[s].joined
        /\ info'[s].state = IF expose = <<>> THEN "go" ELSE "waiting"
        /\ expose' = Append(expose, s)
    <3>0. PICK i \in Info : i = info[s]
      BY InfoTypes
    <3>1. \E x, y, z, w, st :
            /\ st = IF expose = <<>> THEN "go" ELSE "waiting"
            /\ info' = [info EXCEPT ![s] =
                 [i EXCEPT !.count = "finished", !.left = i.joined, !.lsn = l, !.oldEnd = x,
                     !.startPos = sp, !.pos = y, !.newEnd = z, !.newBase = w, !.state = st]]
      BY <2>1, <2>2, <3>0, ZenonT(40) DEF Allocated
    <3>6. PICK x, y, z, w, st :
            /\ st = IF expose = <<>> THEN "go" ELSE "waiting"
            /\ info' = [info EXCEPT ![s] =
                 [i EXCEPT !.count = "finished", !.left = i.joined, !.lsn = l, !.oldEnd = x,
                     !.startPos = sp, !.pos = y, !.newEnd = z, !.newBase = w, !.state = st]]
      BY <3>1
    <3>2. info \in [Slot -> Info]
      BY DEF TypeOK
    <3>3. \A x1 \in Slot : x1 # s => info'[x1] = info[x1]
      BY <3>6, <3>2
    <3>4. /\ info'[s].count = "finished" /\ info'[s].joined = info[s].joined
          /\ info'[s].error = info[s].error /\ info'[s].left = info[s].joined
          /\ info'[s].state = st
      BY <3>0, <3>6, <3>2 DEF Info
    <3>5. expose' = Append(expose, s)
      BY <2>1, <2>2 DEF Allocated
    <3>. QED
      BY <3>6, <3>3, <3>4, <3>5
  <2>4. pc[t] = "space" /\ pc' = [pc EXCEPT ![t] = "copy"] /\ my' = my
    BY <1>4 DEF Allocate, Go
  <2>5. ~info[s].error
    BY <2>1, <2>4 DEF GroupInv, MemberInv, MemberRight, RestInv, Leader
  <2>. QED
    BY <2>1, <2>3, <2>4, <2>5, AllocateGroups
<1>5. ASSUME NEW t \in Thread, OutOfLogSpace(t) PROVE GroupInv'
  <2>1. PICK s \in Slot : s = my[t].slot
    BY LocalTypes
  <2>2. info' = [info EXCEPT ![s].count = "finished", ![s].left = info[s].joined, ![s].error = TRUE]
    BY <1>5, <2>1 DEF OutOfLogSpace
  <2>3. /\ \A x \in Slot : x # s => info'[x] = info[x]
        /\ info'[s].count = "finished" /\ info'[s].joined = info[s].joined /\ info'[s].error
    <3>1. info \in [Slot -> Info]
      BY DEF TypeOK
    <3>. QED
      BY <2>2, <3>1 DEF Info
  <2>4. pc[t] = "space" /\ pc' = [pc EXCEPT ![t] = "copy"] /\ my' = my /\ expose' = expose
    BY <1>5 DEF OutOfLogSpace, Go
  <2>. QED
    BY <2>1, <2>3, <2>4, AllocateGroups
<1>6. ASSUME NEW t \in Thread, Update(t) PROVE GroupInv'
  <2>1. /\ info' = info /\ expose' = expose /\ my' = my /\ pc' = [pc EXCEPT ![t] = "hand over"]
        /\ pc[t] = "update" \/ (pc[t] = "expose" /\ info[my[t].slot].state = "go")
    BY <1>6 DEF Update, Go
  <2>. QED
    BY <1>0, <2>1, QuietThread
<1>7. ASSUME NEW t \in Thread, FlushNow(t) \/ AwaitFlush(t) \/ Flushed(t) PROVE GroupInv'
  <2>1. /\ info' = info /\ expose' = expose /\ my' = my /\ pc[t] \in {"out", "flush wait"}
        /\ \/ pc' = [pc EXCEPT ![t] = "flush wait"] \/ pc' = [pc EXCEPT ![t] = "flush asleep"] \/ pc' = [pc EXCEPT ![t] = "out"]
    BY <1>7 DEF FlushNow, AwaitFlush, Flushed, HasLogged, Go
  <2>. QED
    BY <1>0, <2>1, QuietThread DEF Member, Leader, Owner
<1>8. ASSUME NEW t \in Thread, compensate(t) PROVE GroupInv'
  <2>1. info' = info /\ expose' = expose /\ my' = my /\ pc' = pc /\ pc[t] = "out"
    BY <1>8 DEF compensate, Compensable, HasLogged
  <2>. QED
    BY <2>1, QuietThread DEF Member, Leader, Owner
<1>9. ASSUME info' = info, expose' = expose, my' = my, pc' = pc \/ Broadcast PROVE GroupInv'
  <2>1. ASSUME NEW u \in Thread
        PROVE  /\ (Member(u)' <=> Member(u)) /\ (Owner(u)' <=> Owner(u)) /\ (Leader(u)' <=> Leader(u))
               /\ pc'[u] = "first" <=> pc[u] = "first"
               /\ pc'[u] = "join" <=> pc[u] = "join"
               /\ pc'[u] = "expose" <=> pc[u] = "expose"
    BY <1>0, <1>9 DEF Broadcast, Member, Leader, Owner
  <2>2. \A u \in Thread : pc[u] = "join" => my[u].n > 0
    BY DEF GroupInv, MemberInv, MemberRight
  <2>. QED
    BY <1>9, <2>1, <2>2, QuietGroups
<1>10. CASE Daemon \/ WaitForLogSpace \/ ReleaseSpace \/ UNCHANGED vars
  <2>1. info' = info /\ expose' = expose /\ my' = my /\ (pc' = pc \/ Broadcast)
    BY <1>10 DEF Daemon, DaemonTop, NothingToFlush, ChooseFlush, NoMoreCompensation, Write, NowFree,
                 WaitForLogSpace, ReleaseSpace, vars
  <2>. QED
    BY <1>9, <2>1
<1>. QED
  BY <1>1, <1>2, <1>3, <1>4, <1>5, <1>6, <1>7, <1>8, <1>10, JoinGroups, CloseGroups, CopyGroups, AbandonGroups,
     HandOverGroups
     DEF Next, Progress, Inserting, Flushing, Done

-----------------------------------------------------------------------------
(***************************************************************************)
(* What a step leaves as it was.                                           *)
(***************************************************************************)
LEMMA AtFrame ==
  ASSUME NEW at, AtInv(at), end' = end, tail' = tail
  PROVE  AtInv(at)'
  BY DEF AtInv, Where, lo

LEMMA LineFrame ==
  ASSUME NEW at, EndsInv(at), LineInv(at), buf' = buf, Ends(cur)' = Ends(cur), end' = end, tail' = tail,
         expose' = expose, Shown' <=> Shown, Len(expose) \in Nat,
         \A k \in 1 .. Len(expose) : Grp(k)' = Grp(k)
  PROVE  EndsInv(at)' /\ LineInv(at)'
<1>1. First' = First /\ Line' = Line /\ First \in {1, 2} /\ Line \subseteq 1 .. Len(expose)
  BY DEF First, Line
<1>2. cur'.lsn = cur.lsn /\ cur'.base = cur.base /\ cur'.end = cur.end
  BY DEF Ends
<1>3. Aligned(cur)' /\ Aligned(buf)' /\ Holds(at, cur)' /\ CurEnd' = CurEnd /\ CurLsn' = CurLsn /\ Ends(buf)' = Ends(buf)
  BY <1>2 DEF EndsInv, Aligned, Holds, CurEnd, CurLsn, Ends, lo
<1>4. EndsInv(at)'
  <2>1. ~(First > Len(expose)) => EpochOf(Grp(Len(expose)))' = EpochOf(Grp(Len(expose)))
    <3>1. SUFFICES ASSUME ~(First > Len(expose)) PROVE EpochOf(Grp(Len(expose)))' = EpochOf(Grp(Len(expose)))
      OBVIOUS
    <3>2. Len(expose) \in 1 .. Len(expose)
      BY <1>1, <3>1
    <3>3. Grp(Len(expose))' = Grp(Len(expose))
      <4>1. PICK k \in 1 .. Len(expose) : k = Len(expose)
        BY <3>2
      <4>2. Grp(k)' = Grp(k)
        OBVIOUS
      <4>3. Grp(Len(expose))' = Grp(k)'
        BY <4>1 DEF Grp
      <4>. QED
        BY <4>1, <4>2, <4>3
    <3>. QED
      BY <3>3 DEF EpochOf, Bgn
  <2>. QED
    BY <1>1, <1>3, <2>1 DEF EndsInv
<1>5. ASSUME NEW k \in Line PROVE Prev(k)' = Prev(k)
  <2>1. k = First \/ k - 1 \in 1 .. Len(expose)
    BY <1>1 DEF Line
  <2>2. k # First => Grp(k - 1)' = Grp(k - 1)
    BY <2>1
  <2>. QED
    BY <1>1, <2>2 DEF Prev, EpochOf, Bgn
<1>6. ASSUME NEW k \in Line PROVE LineRight(at, k)'
  <2>1. Grp(k)' = Grp(k) /\ Prev(k)' = Prev(k) /\ LineRight(at, k)
    BY <1>1, <1>5 DEF LineInv
  <2>. QED
    BY <1>3, <2>1 DEF LineRight, Follows, Placed, HoldsGroup, Fin, Bgn, lo, file
<1>7. ASSUME NEW k \in Line, NEW j \in Line, j < k PROVE Ordered(j, k)'
  <2>1. Grp(k)' = Grp(k) /\ Grp(j)' = Grp(j) /\ Ordered(j, k)
    BY <1>1, <1>7 DEF LineInv
  <2>. QED
    BY <2>1 DEF Ordered, Fin, Bgn
<1>. QED
  BY <1>1, <1>4, <1>6, <1>7 DEF LineInv

LEMMA BytesFrame ==
  ASSUME TypeOK, NEW at, BytesInv(at), start' = start, end' = end, bytes' = bytes, durable' \in Nat, durable <= durable',
         \A t \in Thread : Copies(t) => Copies(t)' /\ Target(t)' = Target(t)
  PROVE  BytesInv(at)'
<1>1. Kept' = Kept
  BY DEF Kept
<1>2. ASSUME NEW a, There(at, a) PROVE There(at, a)'
  BY <1>2 DEF There
<1>3. ASSUME NEW p \in 0 .. (Seg - 1), bytes[p] >= durable' PROVE \E a \in 0 .. (end - 1) : a % Seg = p /\ at[a] = bytes[p]
  <2>1. bytes[p] \in Int /\ durable \in Nat
    BY DEF TypeOK
  <2>2. bytes[p] >= durable
    BY <1>3, <2>1
  <2>. QED
    BY <2>2 DEF BytesInv
<1>. QED
  BY <1>1, <1>2, <1>3 DEF BytesInv

LEMMA EpochFrame ==
  ASSUME NEW at, EpochInv(at), cur' = cur, old' = old
  PROVE  EpochInv(at)' /\ NextPos' = NextPos /\ NextLsn' = NextLsn
  BY DEF EpochInv, NextPos, NextLsn, Empty, Aligned, Holds, lo, file

LEMMA CutFrame ==
  ASSUME NEW at, NEW d, NEW p, NEW l, Cut(at, d, p, l), end' = end
  PROVE  Cut(at, d, p, l)'
  BY DEF Cut, lo

SameFlush == /\ fl'.lsn = fl.lsn /\ fl'.start1 = fl.start1 /\ fl'.end1 = fl.end1 /\ fl'.start2 = fl.start2
             /\ fl'.end2 = fl.end2 /\ fl'.upto = fl.upto /\ fl'.newStart = fl.newStart

LEMMA InFlightFrame ==
  ASSUME NEW at, InFlight(at), SameFlush, start' = start, end' = end, durable' = durable, CurEnd' = CurEnd
  PROVE  InFlight(at)'
<1>1. FlBase1' = FlBase1 /\ FlBase2' = FlBase2 /\ FlPos' = FlPos /\ One' = One /\ Two' = Two /\ Kept' = Kept
  BY DEF SameFlush, FlBase1, FlBase2, FlPos, One, Two, Kept, lo
<1>2. Cut(at, durable, FlPos, fl.lsn)'
  BY <1>1 DEF InFlight, Cut, lo, SameFlush
<1>. QED
  BY <1>1, <1>2 DEF InFlight, SameFlush

LEMMA FlushFrame ==
  ASSUME NEW at, FlushInv(at), SameFlush, start' = start, end' = end, durable' = durable, CurEnd' = CurEnd,
         flushing' = flushing, NextPos' = NextPos, NextLsn' = NextLsn, dpc' = dpc \/ (Idle /\ Idle')
  PROVE  FlushInv(at)'
<1>1. Cut(at, durable, NextPos, NextLsn) => Cut(at, durable, NextPos, NextLsn)'
  BY DEF Cut, lo
<1>2. Cut(at, fl.upto, NextPos, NextLsn) => Cut(at, fl.upto, NextPos, NextLsn)'
  BY DEF Cut, lo, SameFlush
<1>3. InFlight(at) => InFlight(at)'
  BY InFlightFrame
<1>. QED
  BY <1>1, <1>2, <1>3 DEF FlushInv, SameFlush, Idle, Flight

\* A record is where it was, in a line that was exposed further or not.
LEMMA InLogFrame ==
  ASSUME NEW t \in Thread, InLog(t), my'[t].lsn = my[t].lsn, my'[t].size = my[t].size, CurLsn' = CurLsn,
         \A k \in Line : \E j \in Line' : Grp(j)' = Grp(k)
  PROVE  InLog(t)'
  BY DEF InLog, RecEnd

LEMMA RecordFrame ==
  ASSUME NEW t \in Thread, RecordRight(t), my'[t].lsn = my[t].lsn, my'[t].size = my[t].size, InLog(t)',
         cur'.lsn = cur.lsn, bytes' = bytes, durable' = durable,
         dpc' \in Flight => dpc \in Flight /\ fl'.upto = fl.upto
  PROVE  RecordRight(t)'
  BY DEF RecordRight, RecEnd, Whole, Where, lo

SameThreads ==
  \A t \in Thread : /\ my'[t].lsn = my[t].lsn /\ my'[t].size = my[t].size
                    /\ pc'[t] \in {"flush wait", "flush asleep"} =>
                         pc[t] \in {"flush wait", "flush asleep"} \/ Recorded(t)
                    /\ Copies(t) => Copies(t)' /\ Target(t)' = Target(t)
MoreClr(at) == \A l \in clr' : l \in clr \/ (~(l < durable) /\ \E a \in 0 .. (end - 1) : at[a] = l)
SameGroups == \A k \in 1 .. Len(expose) : Grp(k)' = Grp(k)

LEMMA GhostQuiet ==
  ASSUME TypeOK, NEW at, Ghost(at),
         buf' = buf, tail' = tail, end' = end, cur' = cur, old' = old, bytes' = bytes,
         flushing' = flushing, durable' = durable, start' = start, kept' = kept,
         expose' = expose, Shown' <=> Shown, SameGroups, SameThreads,
         SameFlush, dpc' = dpc \/ (Idle /\ Idle'), MoreClr(at)
  PROVE  Ghost(at)'
<1>1. Len(expose) \in Nat /\ Ends(cur)' = Ends(cur) /\ CurEnd' = CurEnd /\ CurLsn' = CurLsn /\ durable \in Nat
  <2>1. expose \in Seq(Slot) /\ durable \in Nat
    BY DEF TypeOK
  <2>. QED
    BY <2>1 DEF Ends, CurEnd, CurLsn
<1>2. AtInv(at)'
  BY AtFrame DEF Ghost
<1>3. EndsInv(at)' /\ LineInv(at)'
  <2>1. \A k \in 1 .. Len(expose) : Grp(k)' = Grp(k)
    BY DEF SameGroups
  <2>2. EndsInv(at) /\ LineInv(at)
    BY DEF Ghost
  <2>. QED
    BY <1>1, <2>1, <2>2, LineFrame
<1>4. BytesInv(at)'
  <2>1. durable' \in Nat /\ durable <= durable'
    BY <1>1
  <2>. QED
    BY <2>1, BytesFrame DEF Ghost, SameThreads
<1>5. EpochInv(at)' /\ NextPos' = NextPos /\ NextLsn' = NextLsn
  BY EpochFrame DEF Ghost
<1>6. FlushInv(at)'
  BY <1>1, <1>5, FlushFrame DEF Ghost
<1>7. RecordInv'
  <2>1. ASSUME NEW t \in Thread, Recorded(t)' PROVE RecordRight(t)'
    <3>1. RecordRight(t)
      BY <2>1 DEF Ghost, RecordInv, Recorded, SameThreads
    <3>2. \A k \in Line : \E j \in Line' : Grp(j)' = Grp(k)
      <4>1. Line' = Line /\ Line \subseteq 1 .. Len(expose)
        <5>1. First' = First /\ First \in {1, 2}
          BY DEF First
        <5>. QED
          BY <1>1, <5>1 DEF Line
      <4>. QED
        BY <4>1 DEF SameGroups
    <3>3. InLog(t)'
      BY <1>1, <3>1, <3>2, InLogFrame DEF RecordRight, SameThreads
    <3>. QED
      BY <3>1, <3>3, RecordFrame DEF SameFlush, Flight, Idle, SameThreads
  <2>2. ASSUME NEW t \in Thread, pc'[t] \in {"flush wait", "flush asleep"} PROVE Recorded(t)'
    BY <2>2 DEF Ghost, RecordInv, Recorded, SameThreads
  <2>. QED
    BY <2>1, <2>2 DEF RecordInv
<1>8. ClrInv(at)'
  BY DEF Ghost, ClrInv, MoreClr
<1>. QED
  BY <1>2, <1>3, <1>4, <1>5, <1>6, <1>7, <1>8 DEF Ghost

-----------------------------------------------------------------------------
(***************************************************************************)
(* Steps that are about neither places nor bytes.                          *)
(***************************************************************************)
SameSpots == \A x \in Slot : Lined(x) => Lined(x)' /\ Spot(info[x])' = Spot(info[x])

\* The places of groups in the line are kept, and so are those of their members.
LEMMA SpotsKept ==
  ASSUME TypeOK, GroupInv, SameSpots, expose' = expose
  PROVE  /\ SameGroups
         /\ \A u \in Thread : pc'[u] = pc[u] /\ my'[u] = my[u] /\ Copies(u) => Copies(u)' /\ Target(u)' = Target(u)
<1>1. ASSUME NEW k \in 1 .. Len(expose) PROVE Grp(k)' = Grp(k)
  <2>1. PICK x \in Slot : x = expose[k] /\ Lined(x)
    <3>1. \E s \in Slot : TRUE
      <4>1. expose \in Seq(Slot)
        BY DEF TypeOK
      <4>. QED
        BY <4>1
    <3>. QED
      BY <3>1, LinedQueue
  <2>2. Spot(info[x])' = Spot(info[x])
    BY <2>1 DEF SameSpots
  <2>. QED
    BY <2>1, <2>2 DEF Grp
<1>2. ASSUME NEW u \in Thread, pc'[u] = pc[u], my'[u] = my[u], Copies(u) PROVE Copies(u)' /\ Target(u)' = Target(u)
  <2>1. PICK x \in Slot : x = my[u].slot /\ my'[u].slot = x /\ Lined(x)
    BY <1>2, LocalTypes DEF Copies
  <2>2. Lined(x)' /\ Spot(info[x])' = Spot(info[x])
    BY <2>1 DEF SameSpots
  <2>3. Lined(my[u].slot)'
    BY <2>1, <2>2, AfterStep
  <2>4. Spot(info'[my'[u].slot]) = Spot(info[my[u].slot]) /\ Part(u)' = Part(u)
    BY <1>2, <2>1, <2>2, Unmoved
  <2>. QED
    BY <1>2, <2>3, <2>4 DEF Copies, Target, Bgn
<1>. QED
  BY <1>1, <1>2 DEF SameGroups

LEMMA CalmThread ==
  ASSUME TypeOK, GroupInv, NEW t \in Thread, \A u \in Thread : u # t => pc'[u] = pc[u] /\ my'[u] = my[u],
         ~Copies(t), pc[t] # "hand over", pc'[t] # "hand over", my'[t].lsn = my[t].lsn, my'[t].size = my[t].size,
         pc'[t] \in {"flush wait", "flush asleep"} => pc[t] \in {"flush wait", "flush asleep"} \/ Recorded(t),
         SameSpots, expose' = expose
  PROVE  (Shown' <=> Shown) /\ SameGroups /\ SameThreads
<1>1. Shown' <=> Shown
  BY DEF Shown
<1>2. SameThreads
  BY SpotsKept DEF SameThreads
<1>. QED
  BY <1>1, <1>2, SpotsKept

\* Nothing but the locals of a thread and what is about slots that have no place.
Calm(t) ==
  \/ Insert(t) \/ NextSlot(t) \/ Join(t) \/ Close(t) \/ NoSpace(t) \/ AwaitSpace(t) \/ SpaceCame(t)
  \/ OutOfLogSpace(t) \/ Fail(t) \/ Abandon(t) \/ FlushNow(t) \/ AwaitFlush(t) \/ Flushed(t)

LEMMA CalmStep ==
  ASSUME BufferConstants, TypeOK, GroupInv, NEW t \in Thread, Calm(t)
  PROVE  (Shown' <=> Shown) /\ SameGroups /\ SameThreads
<1>. USE DEF group, ends, epochs, disk
<1>0. pc \in [Thread -> PC] /\ my \in [Thread -> Local] /\ info \in [Slot -> Info] /\ my[t].slot \in Slot
  BY LocalTypes DEF TypeOK
<1>1. expose' = expose
  BY DEF Calm, Insert, NextSlot, Join, Close, NoSpace, AwaitSpace, SpaceCame, OutOfLogSpace, Fail, Abandon,
         FlushNow, AwaitFlush, Flushed
<1>2. \A u \in Thread : u # t => pc'[u] = pc[u]
  BY <1>0 DEF Calm, Insert, NextSlot, Join, Close, NoSpace, AwaitSpace, SpaceCame, OutOfLogSpace, Fail, Abandon,
              FlushNow, AwaitFlush, Flushed, Go, Leaves
<1>3. pc[t] # "hand over" /\ pc'[t] # "hand over" /\ ~Copies(t)
  <2>1. (pc[t] # "hand over" /\ pc[t] # "copy") \/ Fail(t)
    BY DEF Calm, Insert, NextSlot, Join, Close, NoSpace, AwaitSpace, SpaceCame, OutOfLogSpace, Abandon,
              FlushNow, HasLogged, AwaitFlush, Flushed
  <2>2. Fail(t) => ~Copies(t) /\ pc[t] # "hand over"
    BY DEF Fail, Copies, Lined
  <2>3. pc'[t] # "hand over"
    BY <1>0, <2>1, <2>2 DEF Calm, Insert, NextSlot, Join, Close, NoSpace, AwaitSpace, SpaceCame, OutOfLogSpace, Fail, Abandon,
                  FlushNow, AwaitFlush, Flushed, Go, Leaves
  <2>. QED
    BY <2>1, <2>2, <2>3 DEF Copies
<1>4. /\ \A u \in Thread : u # t => my'[u] = my[u]
      /\ my'[t].lsn = my[t].lsn /\ my'[t].size = my[t].size
  <2>1. CASE my' = my
    BY <2>1
  <2>2. CASE Insert(t)
    BY <1>0, <2>2 DEF Insert, Local
  <2>3. CASE NextSlot(t) \/ Join(t)
    BY <1>0, <2>3 DEF NextSlot, Join, Local
  <2>4. CASE my' = [my EXCEPT ![t] = Returned(@, @.lsn, @.size)]
    <3>1. Returned(my[t], my[t].lsn, my[t].size).lsn = my[t].lsn /\ Returned(my[t], my[t].lsn, my[t].size).size = my[t].size
      <4>1. PICK m \in Local, l \in Nat \union {-1}, z \in Nat : m = my[t] /\ l = my[t].lsn /\ z = my[t].size
        BY LocalTypes
      <4>2. Returned(m, l, z).lsn = l /\ Returned(m, l, z).size = z
        BY ReturnedType
      <4>. QED
        BY <4>1, <4>2
    <3>. QED
      BY <1>0, <2>4, <3>1
  <2>. QED
    BY <2>1, <2>2, <2>3, <2>4 DEF Calm, Close, NoSpace, AwaitSpace, SpaceCame, OutOfLogSpace, Fail, Abandon,
              FlushNow, AwaitFlush, Flushed
<1>5. pc'[t] \in {"flush wait", "flush asleep"} => pc[t] \in {"flush wait", "flush asleep"} \/ Recorded(t)
  <2>1. FlushNow(t) => Recorded(t)
    BY DEF FlushNow, HasLogged, Recorded
  <2>. QED
    BY <1>0, <2>1 DEF Calm, Insert, NextSlot, Join, Close, NoSpace, AwaitSpace, SpaceCame, OutOfLogSpace, Fail, Abandon,
              AwaitFlush, Flushed, Go, Leaves
<1>6. SameSpots
  <2>1. CASE info' = info
    BY <2>1 DEF SameSpots, Lined
  <2>2. ASSUME NEW s \in Slot, ~Lined(s), \A x \in Slot : x # s => info'[x] = info[x] PROVE SameSpots
    BY <2>2 DEF SameSpots, Lined
  <2>3. CASE Join(t)
    <3>1. ~Lined(my[t].slot)
      BY <2>3 DEF Join, Lined
    <3>2. \A x \in Slot : x # my[t].slot => info'[x] = info[x]
      BY <1>0, <2>3 DEF Join
    <3>. QED
      BY <1>0, <2>2, <3>1, <3>2
  <2>4. CASE OutOfLogSpace(t)
    <3>1. ~Lined(my[t].slot)
      BY <2>4 DEF OutOfLogSpace, Lined, GroupInv, MemberInv, MemberRight, Leader
    <3>2. \A x \in Slot : x # my[t].slot => info'[x] = info[x]
      BY <1>0, <2>4 DEF OutOfLogSpace
    <3>. QED
      BY <1>0, <2>2, <3>1, <3>2
  <2>5. CASE Fail(t)
    <3>1. ~Lined(my[t].slot)
      BY <2>5 DEF Fail, Lined
    <3>2. \A x \in Slot : x # my[t].slot => info'[x] = info[x]
      BY <1>0, <2>5 DEF Fail, Leaves
    <3>. QED
      BY <1>0, <2>2, <3>1, <3>2
  <2>6. CASE Close(t)
    <3>1. PICK fresh \in Slot :
           /\ info[fresh].count = "unused"
           /\ info' = [info EXCEPT ![fresh] = NewInfo("available"), ![my[t].slot].count = "pending"]
      BY <2>6 DEF Close
    <3>2. ~Lined(my[t].slot) /\ ~Lined(fresh)
      BY <2>6, <3>1 DEF Close, Lined, GroupInv, MemberInv, MemberRight
    <3>3. \A x \in Slot : x # my[t].slot /\ x # fresh => info'[x] = info[x]
      BY <1>0, <3>1
    <3>. QED
      BY <3>2, <3>3 DEF SameSpots, Lined
  <2>7. CASE Abandon(t)
    <3>1. info' = [info EXCEPT ![my[t].slot].state = "abort"]
      BY <2>7 DEF Abandon
    <3>2. ASSUME NEW x \in Slot
          PROVE  /\ info'[x].count = info[x].count /\ info'[x].error = info[x].error /\ info'[x].joined = info[x].joined
                 /\ info'[x].lsn = info[x].lsn /\ info'[x].oldEnd = info[x].oldEnd /\ info'[x].startPos = info[x].startPos
                 /\ info'[x].pos = info[x].pos /\ info'[x].newEnd = info[x].newEnd /\ info'[x].newBase = info[x].newBase
      <4>1. CASE x = my[t].slot
        BY <1>0, <3>1, <4>1 DEF Info
      <4>2. CASE x # my[t].slot
        BY <1>0, <3>1, <4>2
      <4>. QED
        BY <4>1, <4>2
    <3>. QED
      BY <3>2 DEF SameSpots, Lined, Spot
  <2>. QED
    BY <2>1, <2>3, <2>4, <2>5, <2>6, <2>7 DEF Calm, Insert, NextSlot, NoSpace, AwaitSpace, SpaceCame,
              FlushNow, AwaitFlush, Flushed
<1>. QED
  BY <1>1, <1>2, <1>3, <1>4, <1>5, <1>6, CalmThread

\* So with the steps of the daemon that only wake, find nothing or wait.
LEMMA WakeStep ==
  ASSUME TypeOK, GroupInv, pc' = pc \/ Broadcast, my' = my, info' = info, expose' = expose, RecordInv
  PROVE  (Shown' <=> Shown) /\ SameGroups /\ SameThreads
<1>1. pc \in [Thread -> PC]
  BY DEF TypeOK
<1>2. ASSUME NEW u \in Thread
      PROVE  /\ pc'[u] = "hand over" <=> pc[u] = "hand over"
             /\ pc'[u] = "copy" <=> pc[u] = "copy"
             /\ pc'[u] \in {"flush wait", "flush asleep"} => pc[u] \in {"flush wait", "flush asleep"}
  <2>1. CASE pc' = pc
    BY <2>1
  <2>2. CASE Broadcast
    BY <1>1, <2>2 DEF Broadcast
  <2>. QED
    BY <2>1, <2>2
<1>3. Shown' <=> Shown
  BY <1>2 DEF Shown
<1>4. SameGroups
  BY DEF SameGroups, Grp, Spot
<1>5. ASSUME NEW u \in Thread, Copies(u) PROVE Copies(u)' /\ Target(u)' = Target(u)
  BY <1>2, <1>5 DEF Copies, Target, Lined, Part, Bgn, Spot
<1>. QED
  BY <1>2, <1>3, <1>4, <1>5 DEF SameThreads

LEMMA GhostCalm ==
  ASSUME BufferConstants, TypeOK, TypeOK', GroupInv, NEW at, Ghost(at),
         \/ \E t \in Thread : Calm(t) \/ compensate(t)
         \/ DaemonTop \/ NothingToFlush \/ WaitForLogSpace \/ ReleaseSpace
         \/ UNCHANGED vars
  PROVE  Ghost(at)'
<1>. USE DEF group, ends, epochs, disk
<1>1. ASSUME NEW t \in Thread, Calm(t) PROVE Ghost(at)'
  <2>1. (Shown' <=> Shown) /\ SameGroups /\ SameThreads
    BY <1>1, CalmStep
  <2>2. /\ buf' = buf /\ tail' = tail /\ end' = end /\ cur' = cur /\ old' = old /\ bytes' = bytes
        /\ flushing' = flushing /\ durable' = durable /\ start' = start /\ kept' = kept
        /\ expose' = expose /\ fl' = fl /\ clr' = clr
    BY <1>1 DEF Calm, Insert, NextSlot, Join, Close, NoSpace, AwaitSpace, SpaceCame, OutOfLogSpace, Fail, Abandon,
                FlushNow, AwaitFlush, Flushed
  <2>3. dpc' = dpc \/ (Idle /\ Idle')
    BY <1>1 DEF Calm, Insert, NextSlot, Join, Close, NoSpace, AwaitSpace, SpaceCame, OutOfLogSpace, Fail, Abandon,
                FlushNow, AwaitFlush, Flushed, SignalDaemon, Idle
  <2>4. SameFlush /\ MoreClr(at)
    BY <2>2 DEF SameFlush, MoreClr
  <2>. QED
    BY <2>1, <2>2, <2>3, <2>4, GhostQuiet
<1>2. ASSUME NEW t \in Thread, compensate(t) PROVE Ghost(at)'
  <2>1. /\ buf' = buf /\ tail' = tail /\ end' = end /\ cur' = cur /\ old' = old /\ bytes' = bytes
        /\ flushing' = flushing /\ durable' = durable /\ start' = start /\ kept' = kept
        /\ expose' = expose /\ fl' = fl /\ dpc' = dpc /\ pc' = pc /\ my' = my /\ info' = info
        /\ clr' = clr \union {my[t].lsn}
    BY <1>2 DEF compensate
  <2>2. (Shown' <=> Shown) /\ SameGroups /\ SameThreads
    <3>1. RecordInv
      BY DEF Ghost
    <3>. QED
      BY <2>1, <3>1, WakeStep
  <2>3. MoreClr(at)
    <3>1. PICK l \in Nat : l = my[t].lsn /\ l >= flushing /\ bytes[Where(l)] = l
      <4>1. my[t].lsn \in Nat \union {-1}
        BY LocalTypes
      <4>2. my[t].lsn >= 0 /\ my[t].lsn >= flushing /\ bytes[Where(my[t].lsn)] = my[t].lsn
        BY <1>2 DEF compensate, Compensable, HasLogged
      <4>. QED
        BY <4>1, <4>2
    <3>2. durable <= flushing /\ durable \in Nat /\ flushing \in Nat
      <4>1. durable \in Nat /\ flushing \in Nat /\ fl.upto \in Nat /\ fl.lsn \in Nat
        BY SpanTypes DEF TypeOK
      <4>2. dpc = "write" => durable <= fl.lsn /\ fl.lsn <= fl.upto
        BY <4>1 DEF Ghost, FlushInv, Flight, InFlight, Cut
      <4>3. flushing = IF dpc = "write" THEN fl.upto ELSE durable
        BY DEF Ghost, FlushInv
      <4>. QED
        BY <4>1, <4>2, <4>3
    <3>3. ~(l < durable) /\ l >= durable
      BY <3>1, <3>2
    <3>4. Where(l) \in 0 .. (Seg - 1)
      <4>1. PICK m : m = Data + Block
        OBVIOUS
      <4>2. lo(l) \in Nat
        <5>1. lo(l) \in 0 .. m - 1
          BY <4>1, LsnParts
        <5>. QED
          BY <5>1
      <4>. QED
        BY <4>2, Sizes, DivMod DEF Where
    <3>5. \E a \in 0 .. (end - 1) : at[a] = l
      BY <3>1, <3>3, <3>4 DEF Ghost, BytesInv
    <3>. QED
      BY <2>1, <3>1, <3>3, <3>5 DEF MoreClr
  <2>4. SameFlush
    BY <2>1 DEF SameFlush
  <2>. QED
    BY <2>1, <2>2, <2>3, <2>4, GhostQuiet
<1>3. ASSUME DaemonTop \/ NothingToFlush \/ WaitForLogSpace \/ ReleaseSpace \/ UNCHANGED vars PROVE Ghost(at)'
  <2>1. /\ buf' = buf /\ tail' = tail /\ end' = end /\ cur' = cur /\ old' = old /\ bytes' = bytes
        /\ flushing' = flushing /\ durable' = durable /\ start' = start /\ kept' = kept
        /\ expose' = expose /\ my' = my /\ info' = info /\ clr' = clr
    BY <1>3 DEF DaemonTop, NothingToFlush, WaitForLogSpace, ReleaseSpace, vars
  <2>2. pc' = pc \/ Broadcast
    BY <1>3 DEF DaemonTop, NothingToFlush, WaitForLogSpace, ReleaseSpace, vars
  <2>3. SameFlush
    <3>1. fl \in Job
      BY DEF TypeOK
    <3>. QED
      BY <1>3, <3>1 DEF DaemonTop, NothingToFlush, WaitForLogSpace, ReleaseSpace, vars, SameFlush, Job
  <2>4. dpc' = dpc \/ (Idle /\ Idle')
    BY <1>3 DEF DaemonTop, NothingToFlush, WaitForLogSpace, ReleaseSpace, vars, Idle
  <2>5. (Shown' <=> Shown) /\ SameGroups /\ SameThreads
    <3>1. RecordInv
      BY DEF Ghost
    <3>. QED
      BY <2>1, <2>2, <3>1, WakeStep
  <2>6. MoreClr(at)
    BY <2>1 DEF MoreClr
  <2>. QED
    BY <2>1, <2>3, <2>4, <2>5, <2>6, GhostQuiet
<1>. QED
  BY <1>1, <1>2, <1>3

-----------------------------------------------------------------------------
(***************************************************************************)
(* A group that follows an epoch.                                          *)
(***************************************************************************)
EpochOK(e) == e.lsn \in Nat /\ e.base \in Nat /\ e.end \in Nat
SpotOK(i) == /\ i.joined \in Nat /\ i.lsn \in Nat /\ i.oldEnd \in Nat /\ i.startPos \in Nat /\ i.pos \in Nat
             /\ i.newEnd \in Nat /\ i.newBase \in Nat \union {-1}

\* The three ways to follow: at the end, around the buffer, and in the next partition.
Goes(e, i) == /\ i.newBase = -1 /\ i.startPos = e.end /\ i.lsn = e.lsn + e.end /\ i.pos = e.end + i.joined
              /\ i.pos <= Seg /\ i.newEnd = i.pos
Wraps(e, i) == /\ i.newBase = -1 /\ i.startPos = e.end /\ i.lsn = e.lsn + e.end /\ i.pos = e.end + i.joined
               /\ i.pos > Seg /\ i.newEnd = i.pos - Seg /\ i.newEnd <= Seg /\ lo(e.lsn) + i.pos <= Data
Opens(e, i) == /\ i.newBase = e.base + Seg /\ i.startPos = 0 /\ i.pos = i.joined /\ i.newEnd = i.joined
               /\ i.joined <= Seg
               /\ lo(i.lsn) = 0 /\ file(i.lsn) = file(e.lsn) + 1 /\ e.lsn + e.end < i.lsn

LEMMA NextSegment ==
  ASSUME BufferConstants, NEW b \in Nat, b % Seg = 0
  PROVE  (b + Seg) % Seg = 0 /\ b + Seg \in Nat
<1>1. Seg \in Nat \ {0}
  BY Sizes
<1>2. (b + 0) % Seg = 0 % Seg /\ (b + Seg) % Seg = 0
  <2>1. PICK o \in Nat : o = 0
    OBVIOUS
  <2>2. (b + o) % Seg = o % Seg /\ (b + Seg) % Seg = 0
    BY <2>1, PlaceIs
  <2>. QED
    BY <2>1, <2>2
<1>. QED
  BY <1>1, <1>2

LEMMA FollowsHow ==
  ASSUME NEW e, NEW i
  PROVE  Follows(e, i) <=> /\ i.joined > 0 /\ i.oldEnd = e.base + e.end
                           /\ Goes(e, i) \/ Wraps(e, i) \/ Opens(e, i)
  BY DEF Follows, Goes, Wraps, Opens

LEMMA FollowsPlace ==
  ASSUME BufferConstants, NEW e, EpochOK(e), Aligned(e), NEW i, SpotOK(i), Follows(e, i)
  PROVE  /\ i.joined \in Nat \ {0} /\ i.oldEnd = e.base + e.end
         /\ Bgn(i) \in Nat /\ i.oldEnd <= Bgn(i) /\ Fin(i) = Bgn(i) + i.joined
         /\ EpochOf(i).base + EpochOf(i).end = Fin(i) /\ EpochOf(i).lsn + EpochOf(i).end = i.lsn + i.joined
         /\ e.lsn + e.end <= i.lsn
         /\ Goes(e, i) => Bgn(i) = i.oldEnd /\ EpochOf(i).lsn = e.lsn /\ EpochOf(i).base = e.base /\ EpochOf(i).end = i.pos
         /\ Wraps(e, i) => Bgn(i) = i.oldEnd /\ EpochOf(i).lsn = e.lsn + Seg /\ EpochOf(i).base = e.base + Seg
                           /\ EpochOf(i).end = i.pos - Seg
         /\ Opens(e, i) => Bgn(i) = i.newBase /\ EpochOf(i).lsn = i.lsn /\ EpochOf(i).base = e.base + Seg
                           /\ EpochOf(i).end = i.joined
<1>1. Seg \in Nat \ {0} /\ e.end <= Seg
  BY Sizes DEF Aligned
<1>2. /\ e.lsn \in Nat /\ e.base \in Nat /\ e.end \in Nat
      /\ i.joined \in Nat /\ i.lsn \in Nat /\ i.oldEnd \in Nat /\ i.startPos \in Nat /\ i.pos \in Nat
      /\ i.newEnd \in Nat /\ i.newBase \in Nat \union {-1}
  BY DEF EpochOK, SpotOK
<1>3. i.joined > 0 /\ i.oldEnd = e.base + e.end /\ (Goes(e, i) \/ Wraps(e, i) \/ Opens(e, i))
  BY FollowsHow
<1>4. /\ EpochOf(i).lsn = i.lsn + i.joined - i.newEnd /\ EpochOf(i).base = Bgn(i) + i.joined - i.newEnd
      /\ EpochOf(i).end = i.newEnd /\ Fin(i) = Bgn(i) + i.joined
      /\ Bgn(i) = IF i.newBase > 0 THEN i.newBase ELSE i.oldEnd
  BY DEF EpochOf, Bgn, Fin
<1>. QED
  BY <1>1, <1>2, <1>3, <1>4 DEF Goes, Wraps, Opens

LEMMA FollowsAligned ==
  ASSUME BufferConstants, NEW e, EpochOK(e), Aligned(e), NEW i, SpotOK(i), Follows(e, i)
  PROVE  EpochOK(EpochOf(i)) /\ Aligned(EpochOf(i)) /\ Placed(i)
<1>1. Seg \in Nat \ {0} /\ Data \in Nat \ {0} /\ Block \in Nat \ {0} /\ Data % Seg = 0
  BY Sizes
<1>2. /\ e.lsn \in Nat /\ e.base \in Nat /\ e.end \in Nat /\ e.end <= Seg
      /\ lo(e.lsn) % Seg = 0 /\ lo(e.lsn) + Seg <= Data /\ e.base % Seg = 0
      /\ i.joined \in Nat /\ i.lsn \in Nat /\ i.oldEnd \in Nat /\ i.startPos \in Nat /\ i.pos \in Nat
      /\ i.newEnd \in Nat /\ i.newBase \in Nat \union {-1}
  BY DEF EpochOK, SpotOK, Aligned
<1>3. i.joined > 0 /\ i.oldEnd = e.base + e.end /\ (Goes(e, i) \/ Wraps(e, i) \/ Opens(e, i))
  BY FollowsHow
<1>4. lo(e.lsn) \in Nat
  <2>1. PICK m : m = Data + Block
    OBVIOUS
  <2>2. lo(e.lsn) \in 0 .. m - 1
    BY <1>2, <2>1, LsnParts
  <2>. QED
    BY <2>2
<1>5. (e.base + Seg) % Seg = 0
  BY <1>2, NextSegment
<1>9. i.oldEnd <= Bgn(i)
  BY FollowsPlace
<1>6. CASE Goes(e, i)
  <2>1. EpochOf(i).lsn = e.lsn /\ EpochOf(i).base = e.base /\ EpochOf(i).end = i.pos /\ i.pos <= Seg
        /\ Bgn(i) = e.base + e.end /\ i.startPos = e.end
    BY <1>3, <1>6, FollowsPlace DEF Goes
  <2>2. Bgn(i) - i.startPos = e.base /\ i.startPos <= Bgn(i)
    BY <1>2, <2>1
  <2>. QED
    BY <1>9, <1>2, <2>1, <2>2 DEF EpochOK, Aligned, Placed
<1>7. CASE Wraps(e, i)
  <2>1. /\ EpochOf(i).lsn = e.lsn + Seg /\ EpochOf(i).base = e.base + Seg
        /\ EpochOf(i).end = i.newEnd /\ i.newEnd <= Seg /\ i.newEnd = i.pos - Seg
        /\ Bgn(i) = e.base + e.end /\ i.startPos = e.end /\ lo(e.lsn) + i.pos <= Data /\ i.pos > Seg
    BY <1>3, <1>7, FollowsPlace DEF Wraps
  <2>2. Bgn(i) - i.startPos = e.base /\ i.startPos <= Bgn(i)
    BY <1>2, <2>1
  <2>3. lo(e.lsn + Seg) = lo(e.lsn) + Seg
    <3>1. Seg \in 0 .. Seg
      BY <1>1
    <3>. QED
      BY <1>2, <3>1, InEpoch
  <2>4. (lo(e.lsn) + Seg) % Seg = 0
    BY <1>1, <1>2, <1>4, PlaceIs
  <2>5. lo(e.lsn) + Seg + Seg <= Data
    <3>1. PICK x \in Nat : x = lo(e.lsn) + Seg /\ x % Seg = 0
      BY <1>1, <1>4, <2>4
    <3>2. x < Data
      BY <1>1, <1>2, <1>4, <2>1, <3>1
    <3>. QED
      BY <1>1, <3>1, <3>2, Multiples
  <2>6. e.lsn + Seg \in Nat /\ e.base + Seg \in Nat
    BY <1>1, <1>2
  <2>. QED
    BY <1>9, <1>2, <1>5, <2>1, <2>2, <2>3, <2>4, <2>5, <2>6 DEF EpochOK, Aligned, Placed
<1>8. CASE Opens(e, i)
  <2>1. /\ EpochOf(i).lsn = i.lsn /\ EpochOf(i).base = e.base + Seg
        /\ EpochOf(i).end = i.joined /\ i.joined <= Seg
        /\ Bgn(i) = e.base + Seg /\ i.startPos = 0 /\ lo(i.lsn) = 0
    BY <1>3, <1>8, FollowsPlace DEF Opens
  <2>2. Bgn(i) - i.startPos = e.base + Seg /\ i.startPos <= Bgn(i)
    BY <1>1, <1>2, <2>1
  <2>3. 0 % Seg = 0 /\ 0 + Seg <= Data
    <3>1. 0 \in 0 .. Seg - 1 /\ 0 < Data /\ 0 \in Nat
      BY <1>1
    <3>2. 0 % Seg = 0
      BY <1>1, <3>1, ModSmall
    <3>. QED
      BY <1>1, <3>1, <3>2, Multiples
  <2>4. e.base + Seg \in Nat
    BY <1>1, <1>2
  <2>. QED
    BY <1>9, <1>2, <1>5, <2>1, <2>2, <2>3, <2>4 DEF EpochOK, Aligned, Placed
<1>. QED
  BY <1>3, <1>6, <1>7, <1>8

\* The places of an epoch that ends with a group are those of the epoch before and the group.
LEMMA HoldsNext ==
  ASSUME BufferConstants, NEW e, EpochOK(e), Aligned(e), NEW i, SpotOK(i), Follows(e, i),
         NEW at, Holds(at, e), HoldsGroup(at, i)
  PROVE  Holds(at, EpochOf(i))
<1>1. Seg \in Nat \ {0}
  BY Sizes
<1>2. /\ e.lsn \in Nat /\ e.base \in Nat /\ e.end \in Nat /\ e.end <= Seg
      /\ i.joined \in Nat /\ i.lsn \in Nat /\ i.oldEnd \in Nat /\ i.startPos \in Nat /\ i.pos \in Nat
      /\ i.newEnd \in Nat /\ i.newBase \in Nat \union {-1}
  BY DEF EpochOK, SpotOK, Aligned
<1>3. i.joined > 0 /\ i.oldEnd = e.base + e.end /\ (Goes(e, i) \/ Wraps(e, i) \/ Opens(e, i))
  BY FollowsHow
<1>4. /\ \A o \in 0 .. (e.end - 1) : at[e.base + o] = e.lsn + o
      /\ \A x \in 0 .. (i.joined - 1) : at[Bgn(i) + x] = i.lsn + x
  BY DEF Holds, HoldsGroup
<1>5. SUFFICES ASSUME NEW o \in 0 .. (EpochOf(i).end - 1)
               PROVE  at[EpochOf(i).base + o] = EpochOf(i).lsn + o
  BY DEF Holds
<1>6. CASE Goes(e, i)
  <2>1. EpochOf(i).lsn = e.lsn /\ EpochOf(i).base = e.base /\ EpochOf(i).end = i.pos
        /\ Bgn(i) = e.base + e.end /\ i.lsn = e.lsn + e.end /\ i.pos = e.end + i.joined
    BY <1>3, <1>6, FollowsPlace DEF Goes
  <2>2. CASE o < e.end
    BY <1>2, <1>4, <1>5, <2>1, <2>2
  <2>3. CASE ~(o < e.end)
    <3>1. PICK x \in 0 .. (i.joined - 1) : o = e.end + x
      <4>1. o - e.end \in 0 .. (i.joined - 1) /\ o = e.end + (o - e.end)
        BY <1>2, <1>5, <2>1, <2>3
      <4>. QED
        BY <4>1
    <3>2. at[Bgn(i) + x] = i.lsn + x /\ EpochOf(i).base + o = Bgn(i) + x /\ EpochOf(i).lsn + o = i.lsn + x
      BY <1>2, <1>4, <2>1, <3>1
    <3>. QED
      BY <3>2
  <2>. QED
    BY <2>2, <2>3
<1>7. CASE Wraps(e, i)
  <2>1. EpochOf(i).lsn = e.lsn + Seg /\ EpochOf(i).base = e.base + Seg /\ EpochOf(i).end = i.pos - Seg
        /\ Bgn(i) = e.base + e.end /\ i.lsn = e.lsn + e.end /\ i.pos = e.end + i.joined
    BY <1>3, <1>7, FollowsPlace DEF Wraps
  <2>2. PICK x \in 0 .. (i.joined - 1) : Seg + o = e.end + x
    <3>1. Seg + o - e.end \in 0 .. (i.joined - 1) /\ Seg + o = e.end + (Seg + o - e.end)
      BY <1>1, <1>2, <1>5, <2>1
    <3>. QED
      BY <3>1
  <2>3. at[Bgn(i) + x] = i.lsn + x /\ EpochOf(i).base + o = Bgn(i) + x /\ EpochOf(i).lsn + o = i.lsn + x
    BY <1>1, <1>2, <1>4, <2>1, <2>2
  <2>. QED
    BY <2>3
<1>8. CASE Opens(e, i)
  <2>1. EpochOf(i).lsn = i.lsn /\ EpochOf(i).base = e.base + Seg /\ EpochOf(i).end = i.joined /\ Bgn(i) = e.base + Seg
    BY <1>3, <1>8, FollowsPlace DEF Opens
  <2>. QED
    BY <1>4, <1>5, <2>1
<1>. QED
  BY <1>3, <1>6, <1>7, <1>8

\* A byte of a group is in the buffer where compensate looks for its lsn.
LEMMA GroupWhere ==
  ASSUME BufferConstants, NEW e, EpochOK(e), Aligned(e), NEW i, SpotOK(i), Follows(e, i), NEW x \in 0 .. (i.joined - 1)
  PROVE  Where(i.lsn + x) = (Bgn(i) + x) % Seg
<1>1. Seg \in Nat \ {0} /\ Data \in Nat /\ Block \in Nat \ {0}
  BY Sizes
<1>2. /\ e.lsn \in Nat /\ e.base \in Nat /\ e.end \in Nat /\ e.end <= Seg
      /\ lo(e.lsn) % Seg = 0 /\ lo(e.lsn) + Seg <= Data /\ e.base % Seg = 0
      /\ i.joined \in Nat /\ i.lsn \in Nat /\ i.oldEnd \in Nat /\ i.pos \in Nat
  BY DEF EpochOK, SpotOK, Aligned
<1>3. i.joined > 0 /\ i.oldEnd = e.base + e.end /\ (Goes(e, i) \/ Wraps(e, i) \/ Opens(e, i))
  BY FollowsHow
<1>4. lo(e.lsn) \in Nat
  <2>1. PICK m : m = Data + Block
    OBVIOUS
  <2>2. lo(e.lsn) \in 0 .. m - 1
    BY <1>2, <2>1, LsnParts
  <2>. QED
    BY <2>2
<1>5. CASE Goes(e, i) \/ Wraps(e, i)
  <2>1. /\ Bgn(i) = e.base + e.end /\ i.lsn = e.lsn + e.end /\ i.pos = e.end + i.joined
        /\ i.pos <= Seg \/ lo(e.lsn) + i.pos <= Data
    BY <1>3, <1>5, FollowsPlace DEF Goes, Wraps
  <2>2. PICK o \in Nat : o = e.end + x /\ lo(e.lsn) + o < Data + Block
    BY <1>1, <1>2, <1>4, <2>1
  <2>3. lo(e.lsn + o) = lo(e.lsn) + o
    BY <1>2, <2>2, LsnOn
  <2>4. (lo(e.lsn) + o) % Seg = o % Seg /\ (e.base + o) % Seg = o % Seg
    BY <1>2, <1>4, PlaceIs
  <2>5. i.lsn + x = e.lsn + o /\ Bgn(i) + x = e.base + o
    BY <1>2, <2>1, <2>2
  <2>. QED
    BY <2>3, <2>4, <2>5 DEF Where
<1>6. CASE Opens(e, i)
  <2>1. Bgn(i) = e.base + Seg /\ lo(i.lsn) = 0 /\ i.joined <= Seg
    BY <1>3, <1>6, FollowsPlace DEF Opens
  <2>2. x \in Nat /\ lo(i.lsn) + x < Data + Block /\ lo(i.lsn) + x = x
    BY <1>1, <1>2, <1>4, <2>1
  <2>3. lo(i.lsn + x) = x
    BY <1>2, <2>2, LsnOn
  <2>4. (e.base + Seg) % Seg = 0 /\ e.base + Seg \in Nat
    BY <1>2, NextSegment
  <2>5. (e.base + Seg + x) % Seg = x % Seg
    BY <2>2, <2>4, PlaceIs
  <2>. QED
    BY <2>1, <2>3, <2>5 DEF Where
<1>. QED
  BY <1>3, <1>5, <1>6

-----------------------------------------------------------------------------
(***************************************************************************)
(* The line, and what is flushed next.                                     *)
(***************************************************************************)
LEMMA SpotTypes ==
  ASSUME TypeOK, NEW s \in Slot
  PROVE  SpotOK(Spot(info[s]))
  BY InfoTypes DEF SpotOK, Spot

LEMMA LineIs ==
  ASSUME TypeOK, GroupInv
  PROVE  /\ Len(expose) \in Nat /\ First \in {1, 2} /\ First <= Len(expose) + 1 /\ Line \subseteq 1 .. Len(expose)
         /\ \A k \in 1 .. Len(expose) : SpotOK(Grp(k)) /\ expose[k] \in Slot /\ Lined(expose[k])
         /\ EpochOK(cur) /\ EpochOK(buf) /\ EpochOK(old)
<1>1. expose \in Seq(Slot)
  BY DEF TypeOK
<1>2. First \in {1, 2} /\ Len(expose) \in Nat
  BY <1>1 DEF First
<1>3. First <= Len(expose) + 1
  <2>1. ASSUME NEW t \in Thread, pc[t] = "hand over" PROVE Len(expose) > 0
    BY <2>1, HasHead DEF Owner
  <2>2. Shown => Len(expose) > 0
    BY <2>1 DEF Shown
  <2>3. First = IF Shown THEN 2 ELSE 1
    BY DEF First
  <2>. QED
    BY <1>2, <2>2, <2>3
<1>4. Line \subseteq 1 .. Len(expose)
  BY <1>2 DEF Line
<1>5. ASSUME NEW k \in 1 .. Len(expose) PROVE SpotOK(Grp(k)) /\ expose[k] \in Slot /\ Lined(expose[k])
  <2>1. PICK x \in Slot : x = expose[k] /\ Lined(x)
    <3>1. \E s \in Slot : TRUE
      BY <1>1
    <3>. QED
      BY <3>1, LinedQueue
  <2>. QED
    BY <2>1, SpotTypes DEF Grp
<1>6. EpochOK(cur) /\ EpochOK(buf) /\ EpochOK(old)
  BY SpanTypes DEF EpochOK
<1>. QED
  BY <1>2, <1>3, <1>4, <1>5, <1>6

LEMMA EndTypes ==
  ASSUME TypeOK
  PROVE  /\ CurEnd \in Nat /\ CurLsn \in Nat /\ NextPos \in Nat /\ NextLsn \in Nat
         /\ end \in Nat /\ tail \in Nat /\ start \in Nat /\ durable \in Nat
<1>1. end \in Nat /\ tail \in Nat /\ start \in Nat /\ durable \in Nat
  BY DEF TypeOK
<1>. QED
  BY <1>1, SpanTypes DEF CurEnd, CurLsn, NextPos, NextLsn

\* A byte below end: what it holds, and that lsns go up.
LEMMA AtHas ==
  ASSUME NEW at, AtInv(at), NEW a \in 0 .. (end - 1)
  PROVE  /\ at[a] = -1 \/ (at[a] \in Nat /\ at[a] < tail /\ Where(at[a]) = a % Seg)
         /\ \A b \in 0 .. (a - 1) : at[a] # -1 => at[b] < at[a]
  BY DEF AtInv

LEMMA NextIn ==
  ASSUME BufferConstants, TypeOK, NEW at, AtInv(at), EndsInv(at), EpochInv(at)
  PROVE  NextPos <= CurEnd /\ NextLsn <= CurLsn /\ CurEnd <= end /\ CurLsn <= tail
<1>0. Seg \in Nat \ {0}
  BY Sizes
<1>1. CurEnd <= end /\ CurLsn <= tail /\ cur.start <= cur.end /\ old.start <= old.end
      /\ CurEnd = cur.base + cur.end /\ CurLsn = cur.lsn + cur.end
  BY DEF EndsInv, EpochInv, CurEnd, CurLsn
<1>2. CASE Empty(old)
  BY <1>1, <1>2, SpanTypes DEF NextPos, NextLsn
<1>3. CASE ~Empty(old)
  <2>1. /\ old.start < old.end /\ old.end <= Seg /\ old.base + Seg = cur.base /\ cur.end > 0
        /\ Holds(at, old) /\ Holds(at, cur)
    BY <1>1, <1>3, SpanTypes DEF EpochInv, EndsInv, Aligned, Empty
  <2>2. PICK b \in Nat, a \in Nat : b = old.base + old.start /\ a = cur.base + 0
    BY SpanTypes
  <2>3. b < a /\ a < CurEnd /\ a \in 0 .. (end - 1) /\ b \in 0 .. (a - 1)
    BY <1>0, <1>1, <2>1, <2>2, SpanTypes, EndTypes
  <2>4. at[a] = cur.lsn + 0 /\ at[b] = old.lsn + old.start
    BY <2>1, <2>2, SpanTypes DEF Holds
  <2>5. at[b] < at[a]
    BY <2>3, <2>4, AtHas, SpanTypes
  <2>. QED
    BY <1>1, <1>3, <2>1, <2>2, <2>3, <2>4, <2>5, SpanTypes DEF NextPos, NextLsn
<1>. QED
  BY <1>2, <1>3

-----------------------------------------------------------------------------
(***************************************************************************)
(* Allocate: the log gets longer.                                          *)
(***************************************************************************)
Grown(at, i) == [a \in Nat |-> IF a < end THEN at[a] ELSE IF a < Bgn(i) THEN -1 ELSE i.lsn + (a - Bgn(i))]

LEMMA GrownIs ==
  ASSUME TypeOK, NEW at, AtInv(at), NEW i, SpotOK(i), i.oldEnd = end, end <= Bgn(i), Bgn(i) \in Nat
  PROVE  /\ \A a \in 0 .. (end - 1) : Grown(at, i)[a] = at[a]
         /\ \A a \in end .. (Bgn(i) - 1) : Grown(at, i)[a] = -1
         /\ \A x \in Nat : Grown(at, i)[Bgn(i) + x] = i.lsn + x
         /\ HoldsGroup(Grown(at, i), i)
<1>1. end \in Nat /\ i.lsn \in Nat /\ i.joined \in Nat
  BY DEF TypeOK, SpotOK
<1>2. \A a \in 0 .. (end - 1) : Grown(at, i)[a] = at[a]
  BY <1>1 DEF Grown
<1>3. \A a \in end .. (Bgn(i) - 1) : Grown(at, i)[a] = -1
  BY <1>1 DEF Grown
<1>4. ASSUME NEW x \in Nat PROVE Grown(at, i)[Bgn(i) + x] = i.lsn + x
  <2>1. PICK a \in Nat, b \in Nat : b = Bgn(i) /\ a = b + x /\ ~(a < end) /\ ~(a < b) /\ a - b = x
    BY <1>1
  <2>. QED
    BY <2>1 DEF Grown
<1>5. HoldsGroup(Grown(at, i), i)
  BY <1>1, <1>3, <1>4 DEF HoldsGroup
<1>. QED
  BY <1>2, <1>3, <1>4, <1>5

\* What holds of the log up to a position and from there on holds of a longer one.
LEMMA CutGrows ==
  ASSUME TypeOK, NEW at, AtInv(at), NEW i, SpotOK(i), i.oldEnd = end, end <= Bgn(i), Bgn(i) \in Nat, end' = Fin(i),
         tail <= i.lsn, NEW d \in Nat, NEW p \in Nat, NEW l \in Nat, p <= end, l <= tail, Cut(at, d, p, l)
  PROVE  LET g == Grown(at, i)
         IN  /\ d = l \/ (d < l /\ lo(l) = 0)
             /\ \A a \in 0 .. (end' - 1) : IF a < p THEN g[a] < d ELSE g[a] = -1 \/ l <= g[a]
<1>1. end \in Nat /\ tail \in Nat /\ i.lsn \in Nat /\ i.joined \in Nat /\ end' = Bgn(i) + i.joined
  BY DEF TypeOK, SpotOK, Fin
<1>2. d = l \/ (d < l /\ lo(l) = 0)
  BY DEF Cut
<1>. DEFINE g == Grown(at, i)
<1>3. ASSUME NEW a \in 0 .. (end' - 1) PROVE IF a < p THEN g[a] < d ELSE g[a] = -1 \/ l <= g[a]
  <2>1. CASE a < end
    <3>1. a \in 0 .. (end - 1) /\ g[a] = at[a]
      BY <1>1, <2>1, GrownIs
    <3>. QED
      BY <3>1 DEF Cut
  <2>2. CASE ~(a < end) /\ a < Bgn(i)
    <3>1. a \in end .. (Bgn(i) - 1) /\ ~(a < p)
      BY <1>1, <2>2
    <3>. QED
      BY <3>1, GrownIs
  <2>3. CASE ~(a < Bgn(i))
    <3>1. PICK x \in Nat : a = Bgn(i) + x
      <4>1. a - Bgn(i) \in Nat /\ a = Bgn(i) + (a - Bgn(i))
        BY <1>1, <2>3
      <4>. QED
        BY <4>1
    <3>2. g[a] = i.lsn + x /\ ~(a < p)
      BY <1>1, <2>3, <3>1, GrownIs
    <3>. QED
      BY <1>1, <3>2
  <2>. QED
    BY <1>1, <2>1, <2>2, <2>3
<1>. QED
  BY <1>2, <1>3

\* What Allocate does: a group is placed after the end of the log, and its members may copy.
Placing(t, s) ==
  /\ s = my[t].slot /\ ~Lined(s) /\ Lined(s)' /\ \A x \in Slot : x # s => info'[x] = info[x]
  /\ expose' = Append(expose, s)
  /\ Spot(info[s])'.joined = info[s].joined /\ Rest(s) = 0 .. (info[s].joined - 1)
  /\ \A u \in Thread : Member(u) /\ my[u].slot = s => pc'[u] = "copy"
  /\ pc[t] = "space" /\ pc' = [pc EXCEPT ![t] = "copy"]
  /\ cur' = cur /\ old' = old /\ bytes' = bytes /\ clr' = clr /\ my' = my /\ fl' = fl /\ dpc' = dpc
  /\ flushing' = flushing /\ durable' = durable /\ start' = start /\ kept' = kept

LEMMA AllocatePlaces ==
  ASSUME BufferConstants, TypeOK, TypeOK', GroupInv, NEW at, EndsInv(at), start <= end, NEW t \in Thread, Allocate(t),
         NEW s, s = my[t].slot, NEW i, i = Spot(info'[s])
  PROVE  /\ Placing(t, s) /\ SpotOK(i)
         /\ Follows(Ends(buf), i) /\ Ends(buf)' = EpochOf(i) /\ i.oldEnd = end
         /\ end' = Fin(i) /\ tail' = i.lsn + i.joined
<1>. USE DEF group, ends, epochs, disk
<1>1. s \in Slot /\ info \in [Slot -> Info] /\ pc \in [Thread -> PC] /\ t \in Thread
  BY LocalTypes DEF TypeOK
<1>2. PICK n \in Nat : n = info[s].joined
  BY <1>1, InfoTypes
<1>3. pc[t] = "space" /\ Leader(t) /\ Member(t) /\ info[s].count = "pending" /\ ~Lined(s) /\ n > 0
  <2>1. pc[t] = "space" /\ Leader(t) /\ Member(t)
    BY DEF Allocate, Leader, Member
  <2>2. info[s].count = "pending"
    BY <2>1 DEF GroupInv, MemberInv, MemberRight
  <2>3. n > 0
    BY <1>2, <2>1, MemberHas
  <2>. QED
    BY <2>1, <2>2, <2>3 DEF Lined
<1>4. /\ cur' = cur /\ old' = old /\ bytes' = bytes /\ clr' = clr /\ my' = my /\ fl' = fl /\ dpc' = dpc
      /\ flushing' = flushing /\ durable' = durable /\ start' = start /\ kept' = kept
      /\ pc' = [pc EXCEPT ![t] = "copy"]
  BY DEF Allocate, Go
<1>5. PICK e, l, nb, sp : 
        /\ Allocated(t, e, l, nb, sp)
        /\ \/ buf.end + n - Seg <= 0 /\ e = [buf EXCEPT !.end = @ + n] /\ l = tail /\ nb = -1 /\ sp = buf.end
           \/ /\ buf.end + n - Seg > 0 /\ lo(buf.lsn) + buf.end + n <= Data
              /\ e = Epoch(buf.lsn + Seg, buf.base + Seg, 0, buf.end + n - Seg) /\ l = tail /\ nb = -1 /\ sp = buf.end
           \/ /\ e = Epoch(first_lsn(file(tail) + 1), buf.base + Seg, 0, n)
              /\ l = first_lsn(file(tail) + 1) /\ nb = buf.base + Seg /\ sp = 0
  BY <1>2 DEF Allocate, Wanted
<1>6. n <= Seg
  <2>1. end - start + n <= Seg - 2 * Block
    BY <1>2 DEF Allocate, Room, Wanted
  <2>. QED
    BY <2>1, Sizes, EndTypes
<1>7. /\ expose' = Append(expose, s) /\ buf' = e /\ tail' = l + n /\ end' = e.base + e.end
      /\ info' = [info EXCEPT ![s] =
           [@ EXCEPT !.count = "finished", !.left = n, !.lsn = l, !.oldEnd = buf.base + buf.end,
                     !.startPos = sp, !.pos = sp + n, !.newEnd = e.end,
                     !.newBase = nb, !.state = IF expose = <<>> THEN "go" ELSE "waiting"]]
  BY <1>2, <1>5 DEF Allocated
<1>8. /\ info'[s].joined = n /\ info'[s].count = "finished" /\ info'[s].error = info[s].error
      /\ info'[s].lsn = l /\ info'[s].oldEnd = buf.base + buf.end /\ info'[s].startPos = sp /\ info'[s].pos = sp + n
      /\ info'[s].newEnd = e.end /\ info'[s].newBase = nb
  <2>1. PICK r \in Info : r = info[s]
    BY <1>1
  <2>2. info'[s] = [r EXCEPT !.count = "finished", !.left = n, !.lsn = l, !.oldEnd = buf.base + buf.end,
                     !.startPos = sp, !.pos = sp + n, !.newEnd = e.end,
                     !.newBase = nb, !.state = IF expose = <<>> THEN "go" ELSE "waiting"]
    BY <1>1, <1>7, <2>1
  <2>3. r.joined = n
    BY <1>2, <2>1
  <2>. QED
    BY <2>1, <2>2, <2>3 DEF Info
<1>9. /\ i.joined = n /\ i.lsn = l /\ i.oldEnd = buf.base + buf.end /\ i.startPos = sp /\ i.pos = sp + n
      /\ i.newEnd = e.end /\ i.newBase = nb
  BY <1>8 DEF Spot
<1>10. SpotOK(i)
  <2>1. info' \in [Slot -> Info]
    BY DEF TypeOK
  <2>2. info'[s] \in Info
    BY <1>1, <2>1
  <2>. QED
    BY <2>2 DEF SpotOK, Spot, Info
<1>11. ~info[s].error /\ Rest(s) = 0 .. (n - 1)
  BY <1>1, <1>2, <1>3 DEF GroupInv, RestInv
<1>12. Lined(s)'
  BY <1>8, <1>11 DEF Lined
<1>13. ASSUME NEW u \in Thread, Member(u), my[u].slot = s PROVE pc'[u] = "copy"
  <2>1. CASE u = t
    BY <1>1, <1>4, <2>1
  <2>2. CASE u # t
    <3>1. ~Leader(u)
      BY <1>3, <1>13, <2>2 DEF GroupInv, MemberInv, Apart
    <3>. QED
      BY <1>1, <1>4, <1>13, <2>2, <3>1 DEF Member
  <2>. QED
    BY <2>1, <2>2
<1>14. Placing(t, s)
  <2>1. \A x \in Slot : x # s => info'[x] = info[x]
    BY <1>1, <1>7
  <2>2. Spot(info[s])'.joined = info[s].joined
    BY <1>2, <1>8 DEF Spot
  <2>. QED
    BY <1>2, <1>3, <1>4, <1>7, <1>11, <1>12, <1>13, <2>1, <2>2 DEF Placing
<1>15. /\ end = buf.base + buf.end /\ tail = buf.lsn + buf.end /\ Aligned(buf) /\ EpochOK(buf) /\ EpochOK(Ends(buf))
       /\ Aligned(Ends(buf)) /\ Ends(buf).lsn = buf.lsn /\ Ends(buf).base = buf.base /\ Ends(buf).end = buf.end
  BY SpanTypes DEF EndsInv, EpochOK, Ends, Aligned
<1>16. e.base \in Nat /\ e.end \in Nat /\ e.lsn \in Nat
  BY <1>7, SpanTypes DEF TypeOK, Span
<1>17. buf.lsn \in Nat /\ buf.base \in Nat /\ buf.end \in Nat /\ buf.end <= Seg /\ Seg \in Nat \ {0} /\ tail \in Nat
       /\ buf \in Span
  BY <1>15, SpanTypes, Sizes, EndTypes DEF Aligned, TypeOK
<1>18. /\ Follows(Ends(buf), i)
       /\ EpochOf(i).lsn = e.lsn /\ EpochOf(i).base = e.base /\ EpochOf(i).end = e.end
  <2>1. CASE buf.end + n - Seg <= 0 /\ e = [buf EXCEPT !.end = @ + n] /\ l = tail /\ nb = -1 /\ sp = buf.end
    <3>1. e.end = buf.end + n /\ e.lsn = buf.lsn /\ e.base = buf.base
      BY <1>17, <2>1 DEF Span
    <3>2. Goes(Ends(buf), i)
      BY <1>2, <1>9, <1>15, <1>17, <2>1, <3>1 DEF Goes
    <3>3. Follows(Ends(buf), i)
      BY <1>2, <1>3, <1>9, <1>15, <3>2, FollowsHow
    <3>4. EpochOf(i).lsn = buf.lsn /\ EpochOf(i).base = buf.base /\ EpochOf(i).end = buf.end + n
      BY <1>10, <1>15, <1>9, <2>1, <3>2, <3>3, FollowsPlace
    <3>. QED
      BY <3>1, <3>3, <3>4
  <2>2. CASE /\ buf.end + n - Seg > 0 /\ lo(buf.lsn) + buf.end + n <= Data
              /\ e = Epoch(buf.lsn + Seg, buf.base + Seg, 0, buf.end + n - Seg) /\ l = tail /\ nb = -1 /\ sp = buf.end
    <3>1. e.end = buf.end + n - Seg /\ e.lsn = buf.lsn + Seg /\ e.base = buf.base + Seg
      BY <2>2 DEF Epoch
    <3>0. lo(buf.lsn) \in Nat
      <4>1. PICK m : m = Data + Block
        OBVIOUS
      <4>2. lo(buf.lsn) \in 0 .. m - 1
        BY <1>17, <4>1, LsnParts
      <4>. QED
        BY <4>2
    <3>2. Wraps(Ends(buf), i)
      BY <1>2, <1>6, <1>9, <1>15, <1>17, <2>2, <3>0, <3>1 DEF Wraps
    <3>3. Follows(Ends(buf), i)
      BY <1>2, <1>3, <1>9, <1>15, <3>2, FollowsHow
    <3>4. EpochOf(i).lsn = buf.lsn + Seg /\ EpochOf(i).base = buf.base + Seg /\ EpochOf(i).end = buf.end + n - Seg
      BY <1>2, <1>17, <1>10, <1>15, <1>9, <2>2, <3>2, <3>3, FollowsPlace
    <3>. QED
      BY <3>1, <3>3, <3>4
  <2>3. CASE /\ e = Epoch(first_lsn(file(tail) + 1), buf.base + Seg, 0, n)
              /\ l = first_lsn(file(tail) + 1) /\ nb = buf.base + Seg /\ sp = 0
    <3>1. e.end = n /\ e.lsn = l /\ e.base = buf.base + Seg
      BY <2>3 DEF Epoch
    <3>2. file(tail) = file(buf.lsn) /\ file(tail) \in Nat
      <4>1. PICK o \in 0 .. Seg : o = buf.end
        BY <1>17
      <4>2. file(buf.lsn + o) = file(buf.lsn)
        BY <1>15, <1>17, InEpoch DEF Aligned
      <4>3. file(buf.lsn) \in Nat
        <5>1. PICK m : m = Data + Block
          OBVIOUS
        <5>. QED
          BY <1>17, <5>1, LsnParts
      <4>. QED
        BY <1>15, <4>1, <4>2, <4>3
    <3>3. l \in Nat /\ lo(l) = 0 /\ file(l) = file(tail) + 1
      <4>1. PICK f \in Nat : f = file(tail) + 1
        BY <3>2
      <4>2. first_lsn(f) \in Nat /\ lo(first_lsn(f)) = 0 /\ file(first_lsn(f)) = f
        BY FirstIs
      <4>. QED
        BY <2>3, <4>1, <4>2
    <3>4. tail < l
      <4>1. file(tail) < file(l)
        BY <3>2, <3>3
      <4>. QED
        BY <1>17, <3>3, <4>1, FileOrder
    <3>5. Opens(Ends(buf), i)
      BY <1>2, <1>6, <1>9, <1>15, <1>17, <2>3, <3>1, <3>2, <3>3, <3>4 DEF Opens
    <3>6. Follows(Ends(buf), i)
      BY <1>2, <1>3, <1>9, <1>15, <3>5, FollowsHow
    <3>7. EpochOf(i).lsn = l /\ EpochOf(i).base = buf.base + Seg /\ EpochOf(i).end = n
      BY <1>10, <1>15, <1>9, <2>3, <3>5, <3>6, FollowsPlace
    <3>. QED
      BY <3>1, <3>6, <3>7
  <2>. QED
    BY <1>5, <2>1, <2>2, <2>3
<1>19. Ends(buf)' = EpochOf(i)
  BY <1>7, <1>18 DEF Ends, EpochOf
<1>20. e.base + e.end = Fin(i)
  BY <1>10, <1>15, <1>18, FollowsPlace
<1>. QED
  BY <1>7, <1>9, <1>10, <1>14, <1>15, <1>18, <1>19, <1>20

LEMMA GrownType ==
  ASSUME TypeOK, NEW at \in [Nat -> Int], NEW i, SpotOK(i), i.oldEnd = end, end <= Bgn(i), Bgn(i) \in Nat
  PROVE  Grown(at, i) \in [Nat -> Int]
<1>1. i.lsn \in Nat
  BY DEF SpotOK
<1>2. \A a \in Nat : (IF a < end THEN at[a] ELSE IF a < Bgn(i) THEN -1 ELSE i.lsn + (a - Bgn(i))) \in Int
  BY <1>1
<1>. QED
  BY <1>2 DEF Grown

LEMMA AllocateGhost ==
  ASSUME BufferConstants, TypeOK, TypeOK', GroupInv, GroupInv', KeepsOff, NEW at \in [Nat -> Int], Ghost(at),
         NEW t \in Thread, Allocate(t)
  PROVE  \E g \in [Nat -> Int] : Ghost(g)'
<1>s. PICK s \in Slot : s = my[t].slot
  BY LocalTypes
<1>i. PICK i : i = Spot(info'[s])
  OBVIOUS
<1>1. s = my[t].slot /\ i = Spot(info'[s])
  BY <1>s, <1>i
<1>0. /\ AtInv(at) /\ EndsInv(at) /\ LineInv(at) /\ BytesInv(at) /\ EpochInv(at) /\ FlushInv(at)
      /\ RecordInv /\ ClrInv(at) /\ start <= end
  BY DEF Ghost, BytesInv
<1>2. /\ Placing(t, s) /\ SpotOK(i)
      /\ Follows(Ends(buf), i) /\ Ends(buf)' = EpochOf(i) /\ i.oldEnd = end
      /\ end' = Fin(i) /\ tail' = i.lsn + i.joined
  BY <1>0, <1>1, AllocatePlaces
<1>3. /\ EpochOK(Ends(buf)) /\ Aligned(Ends(buf)) /\ end = buf.base + buf.end /\ tail = buf.lsn + buf.end
      /\ Ends(buf).lsn = buf.lsn /\ Ends(buf).base = buf.base /\ Ends(buf).end = buf.end
  BY <1>0, SpanTypes DEF EndsInv, EpochOK, Ends, Aligned
<1>4. /\ i.joined \in Nat \ {0} /\ i.lsn \in Nat /\ Bgn(i) \in Nat /\ end <= Bgn(i) /\ Fin(i) = Bgn(i) + i.joined
      /\ tail <= i.lsn /\ end < end' /\ tail < tail' /\ end \in Nat /\ tail \in Nat /\ end' \in Nat /\ tail' \in Nat
  <2>1. /\ i.joined \in Nat \ {0} /\ Bgn(i) \in Nat /\ end <= Bgn(i) /\ Fin(i) = Bgn(i) + i.joined
        /\ tail <= i.lsn
    BY <1>2, <1>3, FollowsPlace
  <2>2. i.lsn \in Nat /\ end \in Nat /\ tail \in Nat
    BY <1>2, EndTypes DEF SpotOK
  <2>. QED
    BY <1>2, <2>1, <2>2
<1>e. PICK e1 \in Nat, l1 \in Nat : e1 = end' /\ l1 = tail' /\ e1 = Bgn(i) + i.joined /\ l1 = i.lsn + i.joined /\ end < e1 /\ tail < l1
  BY <1>2, <1>4
<1>5. PICK g \in [Nat -> Int] : g = Grown(at, i)
  BY <1>2, <1>4, GrownType
<1>6. /\ \A a \in 0 .. (end - 1) : g[a] = at[a]
      /\ \A a \in end .. (Bgn(i) - 1) : g[a] = -1
      /\ \A x \in Nat : g[Bgn(i) + x] = i.lsn + x
      /\ HoldsGroup(g, i)
  <2>1. /\ \A a \in 0 .. (end - 1) : Grown(at, i)[a] = at[a]
        /\ \A a \in end .. (Bgn(i) - 1) : Grown(at, i)[a] = -1
        /\ \A x \in Nat : Grown(at, i)[Bgn(i) + x] = i.lsn + x
        /\ HoldsGroup(Grown(at, i), i)
    BY <1>0, <1>2, <1>4, GrownIs
  <2>. QED
    BY <1>5, <2>1, Zenon
\* Every new byte is one of the group's, or left out.
<1>7. ASSUME NEW a \in 0 .. (e1 - 1), ~(a < end)
      PROVE  g[a] = -1 \/ \E x \in 0 .. (i.joined - 1) : a = Bgn(i) + x /\ g[a] = i.lsn + x
  <2>1. CASE a < Bgn(i)
    <3>1. a \in end .. (Bgn(i) - 1)
      BY <1>4, <1>e, <1>7, <2>1
    <3>. QED
      BY <1>6, <3>1
  <2>2. CASE ~(a < Bgn(i))
    <3>1. PICK x \in 0 .. (i.joined - 1) : a = Bgn(i) + x
      <4>1. a - Bgn(i) \in 0 .. (i.joined - 1) /\ a = Bgn(i) + (a - Bgn(i))
        BY <1>2, <1>4, <1>e, <2>2
      <4>. QED
        BY <4>1
    <3>2. x \in Nat
      BY <1>4, <1>e
    <3>3. g[a] = i.lsn + x
      BY <1>6, <3>1, <3>2
    <3>. QED
      BY <3>1, <3>3
  <2>. QED
    BY <2>1, <2>2
<1>8. AtInv(g)'
  <2>1. ASSUME NEW a \in 0 .. (e1 - 1)
        PROVE  /\ g[a] = -1 \/ (g[a] \in Nat /\ g[a] < l1 /\ Where(g[a]) = a % Seg)
               /\ \A b \in 0 .. (a - 1) : g[a] # -1 => g[b] < g[a]
    <3>1. CASE a < end
      <4>1. a \in 0 .. (end - 1) /\ g[a] = at[a] /\ \A b \in 0 .. (a - 1) : g[b] = at[b]
        BY <1>4, <1>e, <1>6, <3>1
      <4>2. /\ at[a] = -1 \/ (at[a] \in Nat /\ at[a] < tail /\ Where(at[a]) = a % Seg)
            /\ \A b \in 0 .. (a - 1) : at[a] # -1 => at[b] < at[a]
        BY <1>0, <4>1, AtHas
      <4>. QED
        BY <1>4, <1>e, <4>1, <4>2
    <3>2. CASE ~(a < end) /\ g[a] # -1
      <4>1. PICK x \in 0 .. (i.joined - 1) : a = Bgn(i) + x /\ g[a] = i.lsn + x
        BY <1>7, <3>2
      <4>2. Where(i.lsn + x) = a % Seg
        BY <1>2, <1>3, <4>1, GroupWhere
      <4>3. g[a] \in Nat /\ g[a] < l1 /\ tail <= g[a]
        BY <1>2, <1>4, <1>e, <4>1
      <4>4. ASSUME NEW b \in 0 .. (a - 1) PROVE g[b] < g[a]
        <5>1. CASE b < end
          <6>1. b \in 0 .. (end - 1) /\ g[b] = at[b]
            BY <1>4, <1>e, <1>6, <5>1
          <6>2. at[b] = -1 \/ (at[b] \in Nat /\ at[b] < tail)
            BY <1>0, <6>1, AtHas
          <6>. QED
            BY <1>4, <1>e, <4>3, <6>1, <6>2
        <5>2. CASE ~(b < end)
          <6>1. b \in 0 .. (e1 - 1)
            BY <1>4, <1>e
          <6>2. g[b] = -1 \/ \E y \in 0 .. (i.joined - 1) : b = Bgn(i) + y /\ g[b] = i.lsn + y
            BY <1>7, <5>2, <6>1
          <6>. QED
            BY <1>4, <1>e, <4>1, <4>3, <6>2
        <5>. QED
          BY <5>1, <5>2
      <4>. QED
        BY <4>1, <4>2, <4>3, <4>4
    <3>3. CASE ~(a < end) /\ g[a] = -1
      BY <3>3
    <3>. QED
      BY <3>1, <3>2, <3>3
  <2>2. \A a \in 0 .. (end' - 1) :
          /\ g[a] = -1 \/ (g[a] \in Nat /\ g[a] < tail' /\ Where(g[a]) = a % Seg)
          /\ \A b \in 0 .. (a - 1) : g[a] # -1 => g[b] < g[a]
    BY <1>e, <2>1, Zenon
  <2>. QED
    BY <2>2 DEF AtInv, Where, lo
\* What is in the line stays there, and the new group is its last.
<1>k. PICK k0 \in Nat, k1 \in Nat : k0 = Len(expose) /\ k1 = k0 + 1
  BY LineIs
<1>9. /\ Len(expose') = k1
      /\ \A k \in 1 .. k0 : expose'[k] = expose[k] /\ Grp(k)' = Grp(k)
      /\ Grp(k1)' = i
  <2>1. expose \in Seq(Slot) /\ expose' = Append(expose, s)
    BY <1>2 DEF TypeOK, Placing
  <2>2. Len(expose') = k1 /\ expose'[k1] = s /\ \A k \in 1 .. k0 : expose'[k] = expose[k]
    BY <1>k, <2>1
  <2>3. ASSUME NEW k \in 1 .. k0 PROVE Grp(k)' = Grp(k)
    <3>1. expose[k] \in Slot /\ Lined(expose[k]) /\ ~Lined(s)
      BY <1>2, <1>k, LineIs DEF Placing
    <3>2. info'[expose[k]] = info[expose[k]]
      BY <1>2, <3>1 DEF Placing
    <3>. QED
      BY <2>2, <3>2 DEF Grp
  <2>4. Grp(k1)' = i
    BY <1>1, <2>2 DEF Grp
  <2>. QED
    BY <2>2, <2>3, <2>4
<1>10. /\ First' = First /\ First \in {1, 2} /\ First <= k1
       /\ Line \subseteq 1 .. k0 /\ Line' = First .. k1
       /\ Line' = Line \union {k1}
  <2>1. pc \in [Thread -> PC] /\ pc[t] = "space" /\ pc' = [pc EXCEPT ![t] = "copy"]
    BY <1>2 DEF TypeOK, Placing
  <2>2. Shown' <=> Shown
    BY <2>1 DEF Shown
  <2>3. First' = First
    BY <2>2 DEF First
  <2>4. First \in {1, 2} /\ First <= k1 /\ Line \subseteq 1 .. k0
    BY <1>k, LineIs
  <2>5. Line' = First .. k1
    BY <1>9, <2>3 DEF Line
  <2>6. First .. k1 = (First .. k0) \union {k1}
    BY <1>k, <2>4
  <2>. QED
    BY <1>k, <2>3, <2>4, <2>5, <2>6 DEF Line
<1>11. /\ cur' = cur /\ old' = old /\ CurEnd' = CurEnd /\ CurLsn' = CurLsn /\ NextPos' = NextPos /\ NextLsn' = NextLsn
       /\ start' = start /\ Kept' = Kept /\ durable' = durable /\ flushing' = flushing /\ bytes' = bytes /\ my' = my
       /\ fl' = fl /\ dpc' = dpc /\ clr' = clr /\ kept' = kept
  BY <1>2 DEF Placing, CurEnd, CurLsn, NextPos, NextLsn, Empty, Kept
<1>12. /\ CurEnd \in Nat /\ CurLsn \in Nat /\ NextPos \in Nat /\ NextLsn \in Nat /\ start \in Nat /\ durable \in Nat
       /\ CurEnd <= end /\ CurLsn <= tail /\ NextPos <= CurEnd /\ NextLsn <= CurLsn
  BY <1>0, EndTypes, NextIn
<1>13. Holds(g, cur)
  <2>1. ASSUME NEW o \in 0 .. (cur.end - 1) PROVE g[cur.base + o] = cur.lsn + o
    <3>1. at[cur.base + o] = cur.lsn + o
      BY <1>0 DEF EndsInv, Holds
    <3>2. cur.base + o \in 0 .. (end - 1)
      BY <1>4, <1>12, SpanTypes DEF CurEnd
    <3>. QED
      BY <1>6, <3>1, <3>2
  <2>. QED
    BY <2>1 DEF Holds
<1>14. EndsInv(g)'
  <2>1. Ends(buf)' = EpochOf(i) /\ EpochOK(EpochOf(i)) /\ Aligned(EpochOf(i))
    BY <1>2, <1>3, FollowsAligned
  <2>2. Ends(buf') = EpochOf(i) /\ Aligned(buf)'
    BY <2>1 DEF Ends, Aligned, lo
  <2>3. buf'.base + buf'.end = Fin(i) /\ buf'.lsn + buf'.end = i.lsn + i.joined
    <3>1. EpochOf(i).base + EpochOf(i).end = Fin(i) /\ EpochOf(i).lsn + EpochOf(i).end = i.lsn + i.joined
      BY <1>2, <1>3, FollowsPlace
    <3>. QED
      BY <2>1, <3>1 DEF Ends
  <2>4. Aligned(cur)' /\ Holds(g, cur)'
    BY <1>0, <1>11, <1>13 DEF EndsInv, Aligned, Holds, lo
  <2>5. ~(First > Len(expose))' /\ Ends(buf)' = EpochOf(Grp(Len(expose)))'
    <3>1. Grp(Len(expose))' = i
      BY <1>9 DEF Grp
    <3>2. ~(First > Len(expose))'
      BY <1>k, <1>9, <1>10
    <3>. QED
      BY <2>1, <3>1, <3>2 DEF EpochOf, Bgn
  <2>6. CurEnd' <= end' /\ CurLsn' <= tail'
    BY <1>4, <1>11, <1>12
  <2>7. end' = buf'.base + buf'.end /\ tail' = buf'.lsn + buf'.end
    BY <1>2, <2>3
  <2>. QED
    BY <2>2, <2>4, <2>5, <2>6, <2>7 DEF EndsInv
<1>15. LineInv(g)'
  <2>1. ASSUME NEW k \in Line PROVE LineRight(g, k)'
    <3>1. k \in 1 .. k0 /\ Grp(k)' = Grp(k) /\ LineRight(at, k) /\ SpotOK(Grp(k))
      BY <1>k, <1>0, <1>9, <1>10, LineIs DEF LineInv
    <3>2. Prev(k)' = Prev(k)
      <4>1. CASE k = First
        BY <1>10, <1>11, <4>1 DEF Prev, Ends
      <4>2. CASE k # First
        <5>1. k - 1 \in 1 .. k0
          BY <1>k, <1>9, <1>10, <3>1, <4>2 DEF Line
        <5>2. Grp(k - 1)' = Grp(k - 1)
          BY <1>9, <5>1
        <5>. QED
          BY <1>10, <4>2, <5>2 DEF Prev, EpochOf, Bgn
      <4>. QED
        BY <4>1, <4>2
    <3>3. PICK e, r : e = Prev(k) /\ r = Grp(k)
      OBVIOUS
    <3>4. /\ Follows(e, r) /\ Placed(r) /\ HoldsGroup(at, r) /\ CurEnd <= r.oldEnd /\ Fin(r) <= end
          /\ CurLsn <= r.lsn /\ r.lsn + r.joined <= tail /\ SpotOK(r)
      BY <3>1, <3>3 DEF LineRight
    <3>5. HoldsGroup(g, r)
      <4>1. Bgn(r) \in Nat /\ Fin(r) = Bgn(r) + r.joined /\ r.joined \in Nat /\ r.oldEnd \in Nat
        BY <3>4 DEF SpotOK, Bgn, Fin
      <4>2. ASSUME NEW a \in r.oldEnd .. (Bgn(r) - 1) PROVE g[a] = -1
        <5>1. a \in 0 .. (end - 1)
          BY <1>4, <3>4, <4>1
        <5>. QED
          BY <1>6, <3>4, <5>1 DEF HoldsGroup
      <4>3. ASSUME NEW x \in 0 .. (r.joined - 1) PROVE g[Bgn(r) + x] = r.lsn + x
        <5>1. Bgn(r) + x \in 0 .. (end - 1)
          BY <1>4, <3>4, <4>1
        <5>. QED
          BY <1>6, <3>4, <5>1 DEF HoldsGroup
      <4>. QED
        BY <4>2, <4>3 DEF HoldsGroup
    <3>6. Fin(r) \in Nat /\ r.lsn + r.joined \in Nat
      BY <3>4 DEF SpotOK, Bgn, Fin
    <3>7. Fin(r) <= end' /\ r.lsn + r.joined <= tail'
      BY <1>4, <3>4, <3>6
    <3>8. Prev(k)' = e /\ Grp(k)' = r /\ CurEnd' = CurEnd /\ CurLsn' = CurLsn
      BY <1>11, <3>1, <3>2, <3>3
    <3>. QED
      BY <3>4, <3>5, <3>7, <3>8 DEF LineRight
  <2>2. ASSUME NEW k, k = k1 PROVE LineRight(g, k)'
    <3>1. Grp(k)' = i
      BY <1>9, <2>2 DEF Grp
    <3>2. Prev(k)' = Ends(buf)
      <4>1. Ends(buf) = IF First > Len(expose) THEN Ends(cur) ELSE EpochOf(Grp(Len(expose)))
        BY <1>0 DEF EndsInv
      <4>2. CASE First > Len(expose)
        <5>1. k = First'
          BY <1>k, <1>9, <1>10, <2>2, <4>2
        <5>. QED
          BY <1>11, <4>1, <4>2, <5>1 DEF Prev, Ends
      <4>3. CASE ~(First > Len(expose))
        <5>1. k # First' /\ k - 1 = k0 /\ k0 \in 1 .. k0
          BY <1>k, <1>9, <1>10, <2>2, <4>3
        <5>2. Grp(k - 1)' = Grp(Len(expose))
          <6>1. Grp(k0)' = Grp(k0)
            BY <1>9, <5>1
          <6>. QED
            BY <1>k, <5>1, <6>1 DEF Grp
        <5>. QED
          BY <4>1, <4>3, <5>1, <5>2 DEF Prev, EpochOf, Bgn
      <4>. QED
        BY <4>2, <4>3
    <3>3. Placed(i)
      BY <1>2, <1>3, FollowsAligned
    <3>4. Fin(i) <= end' /\ i.lsn + i.joined <= tail' /\ CurEnd <= i.oldEnd /\ CurLsn <= i.lsn
      BY <1>2, <1>4, <1>12
    <3>5. PICK e : e = Ends(buf)
      OBVIOUS
    <3>6. Prev(k)' = e /\ Grp(k)' = i /\ CurEnd' = CurEnd /\ CurLsn' = CurLsn /\ Follows(e, i)
      BY <1>2, <1>11, <3>1, <3>2, <3>5
    <3>. QED
      BY <1>6, <3>3, <3>4, <3>6 DEF LineRight
  <2>3. ASSUME NEW j \in Line, NEW k \in Line, j < k PROVE Ordered(j, k)'
    <3>1. Grp(k)' = Grp(k) /\ Grp(j)' = Grp(j) /\ Ordered(j, k)
      BY <1>0, <1>9, <1>10, <2>3 DEF LineInv
    <3>. QED
      BY <3>1 DEF Ordered, Fin, Bgn
  <2>4. ASSUME NEW j \in Line, NEW k, k = k1 PROVE Ordered(j, k)'
    <3>1. Grp(k)' = i /\ Grp(j)' = Grp(j)
      BY <1>9, <1>10, <2>4 DEF Grp
    <3>2. PICK r : r = Grp(j)
      OBVIOUS
    <3>3. Fin(r) <= end /\ r.lsn + r.joined <= tail /\ SpotOK(r)
      <4>1. j \in 1 .. Len(expose)
        BY <1>k, <1>10
      <4>. QED
        BY <1>0, <3>2, <4>1, LineIs DEF LineInv, LineRight
    <3>4. Fin(r) \in Nat /\ r.lsn + r.joined \in Nat
      BY <3>3 DEF SpotOK, Bgn, Fin
    <3>5. Fin(r) <= i.oldEnd /\ r.lsn + r.joined <= i.lsn
      BY <1>2, <1>4, <3>3, <3>4
    <3>. QED
      BY <3>1, <3>2, <3>5 DEF Ordered
  <2>5. ASSUME NEW j \in Line', NEW k \in Line', j < k PROVE Ordered(j, k)'
    <3>1. j \in Line
      <4>1. j \in First .. k1 /\ k \in First .. k1 /\ j # k1
        BY <1>10, <2>5
      <4>. QED
        BY <1>10, <4>1
    <3>. QED
      BY <1>10, <2>3, <2>4, <2>5, <3>1
  <2>6. \A k \in Line' : LineRight(g, k)'
    BY <1>10, <2>1, <2>2
  <2>. QED
    BY <2>5, <2>6 DEF LineInv
<1>16. BytesInv(g)'
  <2>1. end' - Kept <= Seg /\ start <= end'
    BY <1>0, <1>4, <1>e, <1>12 DEF KeepsOff, Kept
  <2>2. \A u \in Thread : Copies(u) => Copies(u)' /\ Target(u)' = Target(u)
    <3>1. ASSUME NEW u \in Thread, Copies(u) PROVE Copies(u)' /\ Target(u)' = Target(u)
      <4>1. PICK x \in Slot : x = my[u].slot /\ x # s /\ info'[x] = info[x] /\ Lined(x)
        BY <1>2, <3>1, LocalTypes DEF Copies, Placing
      <4>2. pc'[u] = "copy" /\ my'[u] = my[u]
        <5>1. pc[u] = "copy" /\ pc \in [Thread -> PC]
          BY <3>1 DEF Copies, TypeOK
        <5>. QED
          BY <1>2, <5>1 DEF Placing
      <4>. QED
        BY <3>1, <4>1, <4>2 DEF Copies, Target, Lined, Part, Bgn
    <3>. QED
      BY <3>1
  <2>3. ASSUME NEW a \in Kept .. (e1 - 1) PROVE There(g, a)'
    <3>1. CASE a < end
      <4>1. a \in Kept .. (end - 1) /\ a \in 0 .. (end - 1)
        <5>1. Kept \in Nat
          <6>1. PICK b \in Nat : b = start
            BY <1>12
          <6>2. b - (b % Block) \in Nat
            BY Sizes, RoundDown
          <6>. QED
            BY <6>1, <6>2 DEF Kept
        <5>. QED
          BY <1>4, <1>e, <3>1, <5>1
      <4>2. There(at, a) /\ g[a] = at[a]
        BY <1>0, <1>6, <4>1 DEF BytesInv
      <4>. QED
        BY <1>11, <2>2, <4>2 DEF There
    <3>2. CASE ~(a < end) /\ g[a] # -1
      <4>1. Kept \in Nat
        <5>1. PICK b \in Nat : b = start
          BY <1>12
        <5>2. b - (b % Block) \in Nat
          BY Sizes, RoundDown
        <5>. QED
          BY <5>1, <5>2 DEF Kept
      <4>2. PICK x \in 0 .. (i.joined - 1) : a = Bgn(i) + x
        <5>1. a \in 0 .. (e1 - 1)
          BY <1>4, <1>e, <4>1
        <5>. QED
          BY <1>7, <3>2, <5>1
      <4>3. x \in Rest(s)
        <5>1. i.joined = info[s].joined
          BY <1>1, <1>2 DEF Placing
        <5>. QED
          BY <1>2, <5>1 DEF Placing
      <4>4. PICK u \in Thread : Member(u) /\ my[u].slot = s /\ x \in Part(u)
        BY <4>3 DEF Rest
      <4>5. Copies(u)' /\ Part(u)' = Part(u) /\ Spot(info[my[u].slot])' = i
        <5>1. pc'[u] = "copy" /\ my'[u] = my[u] /\ Lined(s)'
          BY <1>2, <1>11, <4>4 DEF Placing
        <5>. QED
          BY <1>1, <4>4, <5>1 DEF Copies, Lined, Part
      <4>6. a \in Target(u)'
        BY <4>2, <4>4, <4>5 DEF Target
      <4>. QED
        BY <4>5, <4>6 DEF There
    <3>3. CASE g[a] = -1
      BY <3>3 DEF There
    <3>. QED
      BY <3>1, <3>2, <3>3
  <2>4. ASSUME NEW p \in 0 .. (Seg - 1), bytes[p] >= durable
        PROVE  \E a \in 0 .. (e1 - 1) : a % Seg = p /\ g[a] = bytes[p]
    <3>1. PICK a \in 0 .. (end - 1) : a % Seg = p /\ at[a] = bytes[p]
      BY <1>0, <2>4 DEF BytesInv
    <3>. QED
      BY <1>4, <1>e, <1>6, <3>1
  <2>5. \A a \in Kept .. (end' - 1) : There(g, a)'
    BY <1>e, <2>3, Zenon
  <2>6. \A p \in 0 .. (Seg - 1) : bytes[p] >= durable => \E a \in 0 .. (end' - 1) : a % Seg = p /\ g[a] = bytes[p]
    BY <1>e, <2>4, Zenon
  <2>. QED
    BY <1>11, <2>1, <2>5, <2>6 DEF BytesInv
<1>17. EpochInv(g)'
  <2>1. ~Empty(old) => Holds(g, old)
    <3>1. SUFFICES ASSUME ~Empty(old), NEW o \in 0 .. (old.end - 1) PROVE g[old.base + o] = old.lsn + o
      BY DEF Holds
    <3>2. Holds(at, old) /\ old.base + Seg = cur.base /\ old.end <= Seg
      BY <1>0, <3>1 DEF EpochInv, Aligned
    <3>3. old.base + o \in 0 .. (end - 1)
      BY <1>4, <1>12, <3>2, SpanTypes, Sizes DEF CurEnd
    <3>. QED
      BY <1>6, <3>2, <3>3 DEF Holds
  <2>2. EpochInv(g)
    BY <1>0, <2>1 DEF EpochInv
  <2>. QED
    BY <1>11, <2>2 DEF EpochInv, Empty, Aligned, Holds, lo, file
<1>18. ASSUME NEW d \in Nat, NEW p \in Nat, NEW l \in Nat, p <= end, l <= tail, Cut(at, d, p, l) PROVE Cut(g, d, p, l)'
  <2>1. /\ d = l \/ (d < l /\ lo(l) = 0)
        /\ \A a \in 0 .. (end' - 1) : IF a < p THEN g[a] < d ELSE g[a] = -1 \/ l <= g[a]
    BY <1>0, <1>2, <1>4, <1>5, <1>18, CutGrows
  <2>. QED
    BY <2>1 DEF Cut, lo
<1>19. FlushInv(g)'
  <2>0. /\ fl.lsn \in Nat /\ fl.upto \in Nat /\ fl.newStart \in Nat /\ fl.start1 \in Nat /\ fl.end1 \in Nat
        /\ fl.start2 \in Nat /\ fl.end2 \in Nat
    BY SpanTypes
  <2>1. Idle' = Idle /\ (dpc' \in Flight <=> dpc \in Flight)
    BY <1>11 DEF Idle, Flight
  <2>2. Idle => start <= NextPos /\ Cut(at, durable, NextPos, NextLsn)
    BY <1>0 DEF FlushInv
  <2>3. ~Idle => start <= fl.newStart /\ fl.newStart <= NextPos /\ Cut(at, fl.upto, NextPos, NextLsn)
    BY <1>0 DEF FlushInv
  <2>4. PICK d \in Nat, np \in Nat, nl \in Nat, up \in Nat : d = durable /\ np = NextPos /\ nl = NextLsn /\ up = fl.upto
    BY <1>12, <2>0
  <2>5. np <= end /\ nl <= tail
    BY <1>4, <1>12, <2>4
  <2>6. Idle => Cut(g, d, np, nl)'
    BY <1>18, <2>2, <2>4, <2>5
  <2>7. ~Idle => Cut(g, up, np, nl)'
    BY <1>18, <2>3, <2>4, <2>5
  <2>8. dpc \in Flight => InFlight(g)'
    <3>1. SUFFICES ASSUME dpc \in Flight PROVE InFlight(g)'
      OBVIOUS
    <3>2. InFlight(at) /\ ~Idle
      BY <1>0, <3>1 DEF FlushInv, Flight, Idle
    <3>3. /\ FlBase1 \in Nat /\ FlBase1 % Seg = 0 /\ FlBase2 \in Nat /\ FlBase2 % Seg = 0
          /\ start <= FlPos /\ FlPos <= fl.newStart /\ Cut(at, durable, FlPos, fl.lsn)
          /\ fl.lsn <= fl.upto /\ fl.start1 <= fl.end1
      BY <3>2 DEF InFlight
    <3>4. FlPos \in Nat
      BY <2>0, <3>3 DEF FlPos
    <3>5. PICK fp \in Nat, l \in Nat : fp = FlPos /\ l = fl.lsn
      BY <2>0, <3>4
    <3>6. fp <= end /\ l <= tail
      <4>1. up <= nl
        BY <2>3, <2>4, <3>2 DEF Cut
      <4>. QED
        BY <1>4, <2>0, <2>3, <2>4, <2>5, <3>2, <3>3, <3>5, <4>1
    <3>7. Cut(g, d, fp, l)'
      BY <1>18, <2>4, <3>3, <3>5, <3>6
    <3>8. /\ FlBase1' = FlBase1 /\ FlBase2' = FlBase2 /\ FlPos' = FlPos /\ One' = One /\ Two' = Two
      BY <1>11 DEF FlBase1, FlBase2, FlPos, One, Two, lo
    <3>9. ASSUME NEW p \in One
          PROVE  /\ p \in 0 .. (Seg - 1) /\ Kept <= FlBase1 + p /\ FlBase1 + p < CurEnd
                 /\ g[FlBase1 + p] = fl.lsn + p - fl.start1
      <4>1. /\ p \in 0 .. (Seg - 1) /\ Kept <= FlBase1 + p /\ FlBase1 + p < CurEnd
            /\ at[FlBase1 + p] = fl.lsn + p - fl.start1
        BY <3>2 DEF InFlight
      <4>2. FlBase1 + p \in 0 .. (end - 1)
        BY <1>4, <1>12, <3>3, <4>1
      <4>. QED
        BY <1>6, <4>1, <4>2
    <3>10. ASSUME NEW p \in Two
           PROVE  /\ p \in 0 .. (Seg - 1) /\ Kept <= FlBase2 + p /\ FlBase2 + p < CurEnd
                  /\ g[FlBase2 + p] = fl.lsn + fl.end1 - fl.start1 + p - fl.start2
      <4>1. /\ p \in 0 .. (Seg - 1) /\ Kept <= FlBase2 + p /\ FlBase2 + p < CurEnd
            /\ at[FlBase2 + p] = fl.lsn + fl.end1 - fl.start1 + p - fl.start2
        BY <3>2 DEF InFlight
      <4>2. FlBase2 + p \in 0 .. (end - 1)
        BY <1>4, <1>12, <3>3, <4>1
      <4>. QED
        BY <1>6, <4>1, <4>2
    <3>11. Cut(g, durable, FlPos, fl.lsn)'
      <4>1. durable' = d /\ FlPos' = fp /\ fl'.lsn = l
        BY <1>11, <2>4, <3>5, <3>8
      <4>. QED
        BY <3>7, <4>1 DEF Cut, lo
    <3>. QED
      BY <1>11, <3>3, <3>8, <3>9, <3>10, <3>11 DEF InFlight
  <2>9. Idle => Cut(g, durable, NextPos, NextLsn)'
    <3>1. durable' = d /\ NextPos' = np /\ NextLsn' = nl
      BY <1>11, <2>4
    <3>. QED
      BY <2>6, <3>1 DEF Cut, lo
  <2>10. ~Idle => Cut(g, fl.upto, NextPos, NextLsn)'
    <3>1. fl'.upto = up /\ NextPos' = np /\ NextLsn' = nl
      BY <1>11, <2>4
    <3>. QED
      BY <2>7, <3>1 DEF Cut, lo
  <2>11. /\ dpc = "durable" => durable = fl.upto
         /\ flushing = IF dpc = "write" THEN fl.upto ELSE durable
    BY <1>0 DEF FlushInv
  <2>. QED
    BY <1>11, <2>1, <2>2, <2>3, <2>8, <2>9, <2>10, <2>11 DEF FlushInv
<1>20. RecordInv'
  <2>1. ASSUME NEW u \in Thread, Recorded(u)' PROVE RecordRight(u)'
    <3>1. RecordRight(u)
      BY <1>0, <1>11, <2>1 DEF RecordInv, Recorded
    <3>2. \A k \in Line : \E j \in Line' : Grp(j)' = Grp(k)
      BY <1>9, <1>10
    <3>3. InLog(u)'
      BY <1>11, <3>1, <3>2, InLogFrame DEF RecordRight
    <3>. QED
      BY <1>11, <3>1, <3>3, RecordFrame
  <2>2. ASSUME NEW u \in Thread, pc'[u] \in {"flush wait", "flush asleep"} PROVE Recorded(u)'
    <3>1. pc[u] \in {"flush wait", "flush asleep"}
      <4>1. pc \in [Thread -> PC] /\ pc' = [pc EXCEPT ![t] = "copy"]
        BY <1>2 DEF TypeOK, Placing
      <4>. QED
        BY <2>2, <4>1
    <3>. QED
      BY <1>0, <1>11, <3>1 DEF RecordInv, Recorded
  <2>. QED
    BY <2>1, <2>2 DEF RecordInv
<1>21. ClrInv(g)'
  <2>1. ASSUME NEW l \in clr PROVE \E a \in 0 .. (e1 - 1) : g[a] = l
    <3>1. PICK a \in 0 .. (end - 1) : at[a] = l
      BY <1>0 DEF ClrInv
    <3>. QED
      BY <1>4, <1>e, <1>6, <3>1
  <2>2. \A l \in clr : \E a \in 0 .. (end' - 1) : g[a] = l
    BY <1>e, <2>1, Zenon
  <2>3. ClrInv(at)
    BY <1>0
  <2>. QED
    BY <1>11, <2>2, <2>3 DEF ClrInv
<1>. QED
  BY <1>8, <1>14, <1>15, <1>16, <1>17, <1>19, <1>20, <1>21 DEF Ghost

-----------------------------------------------------------------------------
(***************************************************************************)
(* The window of the buffer, and where the log on disk ends in it.         *)
(***************************************************************************)
LEMMA KeptIs ==
  ASSUME BufferConstants, TypeOK
  PROVE  Kept \in Nat /\ Kept <= start /\ start < Kept + Block
<1>1. PICK b \in Nat : b = start
  BY EndTypes
<1>2. b - (b % Block) \in Nat /\ b - (b % Block) <= b /\ b < b - (b % Block) + Block
  BY Sizes, RoundDown
<1>. QED
  BY <1>1, <1>2 DEF Kept

\* Two bytes of the window are in different places.
LEMMA InWindow ==
  ASSUME BufferConstants, TypeOK, NEW at, BytesInv(at), NEW a \in Kept .. (end - 1), NEW b \in Kept .. (end - 1),
         a % Seg = b % Seg
  PROVE  a = b
<1>1. Kept \in Nat /\ end \in Nat /\ end - Kept <= Seg /\ Seg \in Nat \ {0}
  BY KeptIs, EndTypes, Sizes DEF BytesInv
<1>2. a \in Nat /\ b \in Nat /\ a - b < Seg /\ b - a < Seg
  BY <1>1
<1>3. CASE a < b
  <2>1. a % Seg # b % Seg
    BY <1>1, <1>2, <1>3, ModDiffers
  <2>. QED
    BY <2>1
<1>4. CASE b < a
  <2>1. a % Seg # b % Seg
    BY <1>1, <1>2, <1>4, ModDiffers
  <2>. QED
    BY <2>1
<1>. QED
  BY <1>2, <1>3, <1>4

LEMMA CutTells ==
  ASSUME TypeOK, NEW at, AtInv(at), NEW d \in Nat, NEW p \in Nat, NEW l \in Nat, Cut(at, d, p, l), NEW a \in 0 .. (end - 1)
  PROVE  /\ d <= l
         /\ a < p => at[a] < d
         /\ ~(a < p) => at[a] = -1 \/ (l <= at[a] /\ d <= at[a])
<1>1. d <= l
  BY DEF Cut
<1>2. at[a] = -1 \/ at[a] \in Nat
  BY AtHas
<1>3. IF a < p THEN at[a] < d ELSE at[a] = -1 \/ l <= at[a]
  BY DEF Cut
<1>. QED
  BY <1>1, <1>2, <1>3

LEMMA DurableCut ==
  ASSUME BufferConstants, TypeOK, NEW at, Ghost(at)
  PROVE  \E p \in Nat, l \in Nat : start <= p /\ p <= CurEnd /\ Cut(at, durable, p, l)
<1>1. AtInv(at) /\ EndsInv(at) /\ EpochInv(at) /\ FlushInv(at)
  BY DEF Ghost
<1>2. NextPos <= CurEnd /\ NextPos \in Nat /\ NextLsn \in Nat /\ CurEnd \in Nat /\ start \in Nat
  BY <1>1, NextIn, EndTypes
<1>3. CASE Idle
  BY <1>1, <1>2, <1>3 DEF FlushInv
<1>4. CASE dpc \in Flight
  <2>1. InFlight(at) /\ ~Idle
    BY <1>1, <1>4 DEF FlushInv, Flight, Idle
  <2>2. start <= FlPos /\ FlPos <= fl.newStart /\ Cut(at, durable, FlPos, fl.lsn) /\ FlBase1 \in Nat
    BY <2>1 DEF InFlight
  <2>3. fl.newStart <= NextPos
    BY <1>1, <2>1 DEF FlushInv
  <2>4. FlPos \in Nat /\ fl.lsn \in Nat /\ fl.newStart \in Nat
    BY <2>2, SpanTypes DEF FlPos
  <2>5. FlPos <= CurEnd
    BY <1>2, <2>2, <2>3, <2>4
  <2>. QED
    BY <2>2, <2>4, <2>5
<1>5. CASE dpc = "durable"
  <2>1. ~Idle
    BY <1>5 DEF Idle
  <2>2. start <= fl.newStart /\ fl.newStart <= NextPos /\ Cut(at, fl.upto, NextPos, NextLsn) /\ durable = fl.upto
    BY <1>1, <1>5, <2>1 DEF FlushInv
  <2>3. start <= NextPos
    BY <1>2, <2>2, SpanTypes
  <2>. QED
    BY <1>2, <2>2, <2>3
<1>. QED
  BY <1>3, <1>4, <1>5 DEF TypeOK, Idle, Flight

\* A byte that is not on disk yet is in the window.
LEMMA NotDurable ==
  ASSUME BufferConstants, TypeOK, NEW at, Ghost(at), NEW p \in 0 .. (Seg - 1), bytes[p] >= durable
  PROVE  \E a \in Kept .. (end - 1) : a % Seg = p /\ at[a] = bytes[p]
<1>1. PICK a \in 0 .. (end - 1) : a % Seg = p /\ at[a] = bytes[p]
  BY DEF Ghost, BytesInv
<1>2. PICK q \in Nat, l \in Nat : start <= q /\ Cut(at, durable, q, l)
  BY DurableCut
<1>3. durable \in Nat /\ start \in Nat /\ end \in Nat /\ Kept \in Nat /\ Kept <= start
  BY EndTypes, KeptIs
<1>4. AtInv(at) /\ at[a] \in Int
  <2>1. AtInv(at)
    BY DEF Ghost
  <2>2. at[a] = -1 \/ at[a] \in Nat
    BY <2>1, AtHas
  <2>. QED
    BY <2>1, <2>2
<1>5. ~(a < q)
  BY <1>1, <1>2, <1>3, <1>4, CutTells
<1>6. a \in Kept .. (end - 1)
  BY <1>2, <1>3, <1>5
<1>. QED
  BY <1>1, <1>6

-----------------------------------------------------------------------------
(***************************************************************************)
(* Copy.                                                                   *)
(***************************************************************************)
\* The group of who copies is in the line.
LEMMA CopierIn ==
  ASSUME TypeOK, GroupInv, NEW t \in Thread, Copies(t)
  PROVE  \E k \in Line : expose[k] = my[t].slot
<1>1. PICK s \in Slot : s = my[t].slot /\ Lined(s)
  BY LocalTypes DEF Copies
<1>2. PICK k \in 1 .. Len(expose) : expose[k] = s
  BY <1>1, LinedQueue
<1>3. Rest(s) # {}
  <2>1. Member(t)
    BY DEF Copies, Member
  <2>. QED
    BY <1>1, <2>1, MemberHas
<1>4. Shown => k # 1
  <2>1. SUFFICES ASSUME NEW u \in Thread, pc[u] = "hand over" PROVE k # 1
    BY DEF Shown
  <2>2. expose[1] = my[u].slot /\ Rest(my[u].slot) = {}
    BY <2>1 DEF GroupInv, OwnerInv, OwnerRight, Owner
  <2>. QED
    BY <1>2, <1>3, <2>2
<1>5. k \in Line
  BY <1>4, LineIs DEF Line, First
<1>. QED
  BY <1>1, <1>2, <1>5

LEMMA PlacedSame ==
  ASSUME BufferConstants, NEW i, SpotOK(i), Placed(i), Bgn(i) \in Nat, NEW y \in Nat
  PROVE  (i.startPos + y) % Seg = (Bgn(i) + y) % Seg
<1>1. PICK b \in Nat, f \in Nat : b = Bgn(i) /\ f = i.startPos /\ f <= b /\ (b - f) % Seg = 0
  BY DEF SpotOK, Placed
<1>2. PICK c \in Nat, o \in Nat : c = b - f /\ o = f + y /\ c % Seg = 0
  BY <1>1
<1>3. (c + o) % Seg = o % Seg
  BY <1>2, PlaceIs
<1>4. c + o = b + y
  BY <1>1, <1>2
<1>. QED
  BY <1>1, <1>2, <1>3, <1>4

\* Where a member copies to, and what is known of it.
Copying(at, t, k, P, n, B, L) ==
  /\ P = my[t].pos /\ n = my[t].n /\ B = Bgn(Grp(k)) /\ L = Grp(k).lsn
  /\ expose[k] = my[t].slot /\ Grp(k) = Spot(info[my[t].slot])
  /\ P + n <= Grp(k).joined /\ CurEnd <= B /\ B + Grp(k).joined <= end
  /\ Target(t) = {B + y : y \in P .. (P + n - 1)}
  /\ \A y \in 0 .. (P + n - 1) : at[B + y] = L + y
  /\ \A x \in Nat : Place(t, x) = (B + P + x) % Seg

LEMMA TargetIs ==
  ASSUME BufferConstants, TypeOK, GroupInv, NEW at, Ghost(at), NEW t \in Thread, Copies(t)
  PROVE  \E k \in Line, P \in Nat, n \in Nat \ {0}, B \in Nat, L \in Nat : Copying(at, t, k, P, n, B, L)
<1>1. PICK k \in Line : expose[k] = my[t].slot
  BY CopierIn
<1>2. PICK i : i = Grp(k) /\ i = Spot(info[my[t].slot])
  BY <1>1 DEF Grp
<1>3. LineRight(at, k) /\ SpotOK(i)
  BY <1>2, LineIs DEF Ghost, LineInv
<1>4. PICK P \in Nat, n \in Nat \ {0} : P = my[t].pos /\ n = my[t].n /\ P + n <= i.joined
  <2>1. Member(t)
    BY DEF Copies, Member
  <2>2. my[t].n \in Nat /\ my[t].n > 0 /\ my[t].pos \in Nat /\ my[t].pos + my[t].n <= info[my[t].slot].joined
    BY <2>1, MemberHas
  <2>3. i.joined = info[my[t].slot].joined
    BY <1>2 DEF Spot
  <2>. QED
    BY <2>2, <2>3
<1>5. PICK B \in Nat, L \in Nat : B = Bgn(i) /\ L = i.lsn
  BY <1>3 DEF SpotOK, Bgn
<1>6. Placed(i) /\ HoldsGroup(at, i) /\ CurEnd <= i.oldEnd /\ B + i.joined <= end /\ i.joined \in Nat /\ i.oldEnd \in Nat
  BY <1>2, <1>3, <1>5 DEF LineRight, Fin, SpotOK
<1>7. i.oldEnd <= B /\ CurEnd \in Nat
  BY <1>5, <1>6, EndTypes DEF Placed
<1>8. Target(t) = {B + y : y \in P .. (P + n - 1)}
  BY <1>2, <1>4, <1>5 DEF Target, Part
<1>9. \A y \in 0 .. (P + n - 1) : at[B + y] = L + y
  <2>1. ASSUME NEW y \in 0 .. (P + n - 1) PROVE at[B + y] = L + y
    <3>1. y \in 0 .. (i.joined - 1)
      BY <1>4, <1>6
    <3>. QED
      BY <1>5, <1>6, <3>1 DEF HoldsGroup
  <2>. QED
    BY <2>1
<1>10. ASSUME NEW x \in Nat PROVE Place(t, x) = (B + P + x) % Seg
  <2>1. PICK y \in Nat : y = P + x
    BY <1>4
  <2>2. (i.startPos + y) % Seg = (B + y) % Seg
    BY <1>3, <1>5, <1>6, PlacedSame
  <2>3. i.startPos + P + x = i.startPos + y /\ B + P + x = B + y
    BY <1>3, <2>1 DEF SpotOK
  <2>4. info[my[t].slot].startPos = i.startPos
    BY <1>2 DEF Spot
  <2>. QED
    BY <1>4, <2>2, <2>3, <2>4 DEF Place
<1>11. CurEnd <= B
  BY <1>6, <1>7
<1>12. Copying(at, t, k, P, n, B, L)
  BY <1>1, <1>2, <1>4, <1>5, <1>6, <1>8, <1>9, <1>10, <1>11 DEF Copying
<1>. QED
  BY <1>12

\* All of the member's piece is in the window, past what the epochs have.
LEMMA TargetIn ==
  ASSUME BufferConstants, TypeOK, GroupInv, NEW at, Ghost(at), NEW t \in Thread,
         NEW k \in Line, NEW P \in Nat, NEW n \in Nat \ {0}, NEW B \in Nat, NEW L \in Nat, Copying(at, t, k, P, n, B, L),
         NEW y \in P .. (P + n - 1)
  PROVE  B + y \in Kept .. (end - 1) /\ CurEnd <= B + y /\ B + y \in Nat /\ at[B + y] = L + y
<1>1. SpotOK(Grp(k)) /\ P + n <= Grp(k).joined /\ CurEnd <= B /\ B + Grp(k).joined <= end
  BY LineIs DEF Copying
<1>2. PICK j \in Nat : j = Grp(k).joined
  BY <1>1 DEF SpotOK
<1>3. Kept <= CurEnd /\ Kept \in Nat /\ CurEnd \in Nat /\ end \in Nat
  <2>1. PICK p \in Nat : start <= p /\ p <= CurEnd
    BY DurableCut
  <2>. QED
    BY <2>1, KeptIs, EndTypes
<1>4. B + y \in Kept .. (end - 1) /\ CurEnd <= B + y /\ B + y \in Nat
  BY <1>1, <1>2, <1>3
<1>5. y \in 0 .. (P + n - 1)
  OBVIOUS
<1>. QED
  BY <1>4, <1>5 DEF Copying

LEMMA CopyBytes ==
  ASSUME BufferConstants, TypeOK, GroupInv, NEW at, Ghost(at), NEW t \in Thread, Copy(t)
  PROVE  /\ \A a \in Target(t) : a \in Kept .. (end - 1) /\ CurEnd <= a /\ bytes'[a % Seg] = at[a]
         /\ \A p \in 0 .. (Seg - 1) : bytes'[p] = bytes[p] \/ \E a \in Target(t) : a % Seg = p
<1>1. Copies(t)
  BY DEF Copy, Copies, Lined
<1>2. PICK k \in Line, P \in Nat, n \in Nat \ {0}, B \in Nat, L \in Nat : Copying(at, t, k, P, n, B, L)
  BY <1>1, TargetIs
<1>3. /\ P = my[t].pos /\ n = my[t].n /\ L = Grp(k).lsn /\ Grp(k) = Spot(info[my[t].slot])
      /\ Target(t) = {B + y : y \in P .. (P + n - 1)}
      /\ \A x \in Nat : Place(t, x) = (B + P + x) % Seg
  BY <1>2 DEF Copying
<1>4. DOMAIN bytes = 0 .. (Seg - 1) /\ Seg \in Nat \ {0}
  BY Sizes DEF TypeOK
<1>5. Lsn(t) = L + P
  BY <1>3 DEF Lsn, Spot
<1>6. \A p \in 0 .. (Seg - 1) :
        bytes'[p] = IF \E x \in 0 .. (n - 1) : Place(t, x) = p
                      THEN L + P + CHOOSE x \in 0 .. (n - 1) : Place(t, x) = p
                      ELSE bytes[p]
  BY <1>3, <1>4, <1>5 DEF Copy
<1>7. ASSUME NEW x \in 0 .. (n - 1)
      PROVE  /\ x \in Nat /\ P + x \in P .. (P + n - 1) /\ B + P + x = B + (P + x) /\ Place(t, x) = (B + (P + x)) % Seg
             /\ B + (P + x) \in Kept .. (end - 1) /\ CurEnd <= B + (P + x) /\ at[B + (P + x)] = L + (P + x)
             /\ B + (P + x) \in Target(t)
  <2>1. x \in Nat /\ P + x \in P .. (P + n - 1) /\ B + P + x = B + (P + x)
    OBVIOUS
  <2>2. Place(t, x) = (B + (P + x)) % Seg
    BY <1>3, <2>1
  <2>3. PICK y \in P .. (P + n - 1) : y = P + x
    BY <2>1
  <2>4. B + y \in Kept .. (end - 1) /\ CurEnd <= B + y /\ at[B + y] = L + y
    BY <1>2, TargetIn
  <2>5. B + y \in Target(t)
    BY <1>3
  <2>. QED
    BY <2>1, <2>2, <2>3, <2>4, <2>5
<1>8. ASSUME NEW x \in 0 .. (n - 1) PROVE bytes'[(B + (P + x)) % Seg] = L + (P + x)
  <2>1. PICK p \in 0 .. (Seg - 1) : p = (B + (P + x)) % Seg
    <3>1. B + (P + x) \in Nat
      OBVIOUS
    <3>. QED
      BY <1>4, <3>1, DivMod
  <2>2. Place(t, x) = p
    BY <1>7, <2>1
  <2>3. PICK z \in 0 .. (n - 1) : z = (CHOOSE w \in 0 .. (n - 1) : Place(t, w) = p) /\ Place(t, z) = p
    BY <2>2
  <2>4. z = x
    <3>1. (B + (P + z)) % Seg = (B + (P + x)) % Seg
      BY <1>7, <2>1, <2>3
    <3>2. B + (P + z) = B + (P + x)
      <4>1. BytesInv(at)
        BY DEF Ghost
      <4>. QED
        BY <1>7, <3>1, <4>1, InWindow
    <3>. QED
      BY <3>2
  <2>5. \E w \in 0 .. (n - 1) : Place(t, w) = p
    BY <2>2
  <2>6. bytes'[p] = L + P + CHOOSE w \in 0 .. (n - 1) : Place(t, w) = p
    BY <1>6, <2>5
  <2>7. bytes'[p] = L + P + x
    BY <2>3, <2>4, <2>6
  <2>. QED
    BY <2>1, <2>7
<1>9. ASSUME NEW a \in Target(t) PROVE \E x \in 0 .. (n - 1) : a = B + (P + x)
  <2>1. PICK y \in P .. (P + n - 1) : a = B + y
    BY <1>3
  <2>2. y - P \in 0 .. (n - 1) /\ y = P + (y - P)
    BY <2>1
  <2>. QED
    BY <2>1, <2>2
<1>10. ASSUME NEW a \in Target(t) PROVE a \in Kept .. (end - 1) /\ CurEnd <= a /\ bytes'[a % Seg] = at[a]
  <2>1. PICK x \in 0 .. (n - 1) : a = B + (P + x)
    BY <1>9
  <2>2. bytes'[a % Seg] = L + (P + x)
    BY <1>8, <2>1
  <2>. QED
    BY <1>7, <2>1, <2>2
<1>11. ASSUME NEW p \in 0 .. (Seg - 1) PROVE bytes'[p] = bytes[p] \/ \E a \in Target(t) : a % Seg = p
  <2>1. CASE \E x \in 0 .. (n - 1) : Place(t, x) = p
    BY <1>7, <2>1
  <2>2. CASE ~\E x \in 0 .. (n - 1) : Place(t, x) = p
    BY <1>6, <2>2
  <2>. QED
    BY <2>1, <2>2
<1>. QED
  BY <1>10, <1>11

\* A copy changes nothing that is not on disk.
LEMMA CopyOver ==
  ASSUME BufferConstants, TypeOK, GroupInv, NEW at, Ghost(at), NEW t \in Thread, Copy(t),
         NEW p \in 0 .. (Seg - 1), bytes[p] >= durable
  PROVE  bytes'[p] = bytes[p]
<1>1. PICK b \in Kept .. (end - 1) : b % Seg = p /\ at[b] = bytes[p]
  BY NotDurable
<1>2. SUFFICES ASSUME NEW a \in Target(t), a % Seg = p PROVE bytes'[p] = bytes[p]
  BY CopyBytes
<1>3. a \in Kept .. (end - 1) /\ bytes'[p] = at[a]
  BY <1>2, CopyBytes
<1>4. a = b
  <2>1. BytesInv(at)
    BY DEF Ghost
  <2>. QED
    BY <1>1, <1>2, <1>3, <2>1, InWindow
<1>. QED
  BY <1>1, <1>3, <1>4

\* The records of the line are past what is on disk, on its way there, or in the epochs.
LEMMA PastAll ==
  ASSUME BufferConstants, TypeOK, GroupInv, NEW at, Ghost(at), NEW a \in 0 .. (end - 1), CurEnd <= a, at[a] \in Nat
  PROVE  durable <= at[a] /\ (dpc \in Flight => fl.upto <= at[a]) /\ NextLsn <= at[a]
<1>1. AtInv(at) /\ EndsInv(at) /\ EpochInv(at) /\ FlushInv(at)
  BY DEF Ghost
<1>2. /\ NextPos <= CurEnd /\ NextPos \in Nat /\ NextLsn \in Nat /\ CurEnd \in Nat /\ durable \in Nat
      /\ fl.upto \in Nat
  BY <1>1, NextIn, EndTypes, SpanTypes
<1>3. durable <= at[a]
  <2>1. PICK p \in Nat, l \in Nat : p <= CurEnd /\ Cut(at, durable, p, l)
    BY DurableCut
  <2>2. ~(a < p)
    BY <1>2, <2>1
  <2>. QED
    BY <1>1, <1>2, <2>1, <2>2, CutTells
<1>4. ~(a < NextPos)
  BY <1>2
<1>5. Idle => NextLsn <= at[a]
  <2>1. Idle => Cut(at, durable, NextPos, NextLsn)
    BY <1>1 DEF FlushInv
  <2>. QED
    BY <1>1, <1>2, <1>4, <2>1, CutTells
<1>6. ~Idle => NextLsn <= at[a] /\ fl.upto <= at[a]
  <2>1. ~Idle => Cut(at, fl.upto, NextPos, NextLsn)
    BY <1>1 DEF FlushInv
  <2>. QED
    BY <1>1, <1>2, <1>4, <2>1, CutTells
<1>. QED
  BY <1>3, <1>5, <1>6 DEF Idle, Flight

LEMMA CopyGhost ==
  ASSUME BufferConstants, TypeOK, TypeOK', GroupInv, GroupInv', NEW at, Ghost(at), NEW t \in Thread, Copy(t)
  PROVE  Ghost(at)'
<1>. USE DEF group, ends, epochs, disk
<1>0. /\ AtInv(at) /\ EndsInv(at) /\ LineInv(at) /\ BytesInv(at) /\ EpochInv(at) /\ FlushInv(at)
      /\ RecordInv /\ ClrInv(at)
  BY DEF Ghost
<1>s. PICK s \in Slot : s = my[t].slot
  BY LocalTypes
<1>1. /\ buf' = buf /\ tail' = tail /\ end' = end /\ cur' = cur /\ old' = old /\ clr' = clr
      /\ flushing' = flushing /\ durable' = durable /\ start' = start /\ kept' = kept
      /\ expose' = expose /\ fl' = fl /\ dpc' = dpc
      /\ pc[t] = "copy" /\ info[s].count = "finished" /\ ~info[s].error
      /\ info' = [info EXCEPT ![s].left = @ - my[t].n]
      /\ pc' = [pc EXCEPT ![t] = IF LastOut(t, s) THEN "expose" ELSE "out"]
      /\ my' = [my EXCEPT ![t] = IF LastOut(t, s) THEN [@ EXCEPT !.lsn = Lsn(t), !.size = my[t].n]
                                                  ELSE Returned(@, Lsn(t), my[t].n)]
  BY <1>s DEF Copy, Leaves, Go
<1>2. Copies(t)
  BY <1>s, <1>1 DEF Copies, Lined
<1>3. PICK k \in Line, P \in Nat, n \in Nat \ {0}, B \in Nat, L \in Nat : Copying(at, t, k, P, n, B, L)
  BY <1>2, TargetIs
<1>4. /\ P = my[t].pos /\ n = my[t].n /\ L = Grp(k).lsn /\ Grp(k) = Spot(info[s]) /\ B = Bgn(Grp(k))
      /\ Target(t) = {B + y : y \in P .. (P + n - 1)} /\ P + n <= Grp(k).joined
  BY <1>3, <1>s DEF Copying
<1>5. Lsn(t) = L + P
  <2>1. Lsn(t) = info[s].lsn + my[t].pos
    BY <1>s DEF Lsn
  <2>2. L = info[s].lsn
    BY <1>4 DEF Spot
  <2>. QED
    BY <1>4, <2>1, <2>2
<1>6. my'[t].lsn = L + P /\ my'[t].size = n /\ \A u \in Thread : u # t => my'[u] = my[u] /\ pc'[u] = pc[u]
  <2>1. my \in [Thread -> Local] /\ pc \in [Thread -> PC] /\ L + P \in Nat
    BY DEF TypeOK
  <2>2. Returned(my[t], L + P, n).lsn = L + P /\ Returned(my[t], L + P, n).size = n
    <3>1. PICK m \in Local, l \in Nat \union {-1}, z \in Nat : m = my[t] /\ l = L + P /\ z = n
      BY <2>1
    <3>2. Returned(m, l, z).lsn = l /\ Returned(m, l, z).size = z
      BY ReturnedType
    <3>. QED
      BY <3>1, <3>2
  <2>3. my' = [my EXCEPT ![t] = IF LastOut(t, s) THEN [@ EXCEPT !.lsn = L + P, !.size = n] ELSE Returned(@, L + P, n)]
    BY <1>1, <1>4, <1>5
  <2>4. my'[t] = IF LastOut(t, s) THEN [my[t] EXCEPT !.lsn = L + P, !.size = n] ELSE Returned(my[t], L + P, n)
    BY <2>1, <2>3
  <2>5. [my[t] EXCEPT !.lsn = L + P, !.size = n].lsn = L + P /\ [my[t] EXCEPT !.lsn = L + P, !.size = n].size = n
    <3>1. PICK m \in Local : m = my[t]
      BY <2>1
    <3>2. [m EXCEPT !.lsn = L + P, !.size = n].lsn = L + P /\ [m EXCEPT !.lsn = L + P, !.size = n].size = n
      BY DEF Local
    <3>. QED
      BY <3>1, <3>2
  <2>6. my'[t].lsn = L + P /\ my'[t].size = n
    BY <2>2, <2>4, <2>5
  <2>. QED
    BY <1>1, <2>1, <2>3, <2>6
\* Places and bounds are as they were.
<1>7. SameSpots
  <2>1. ASSUME NEW x \in Slot PROVE (Lined(x) <=> Lined(x)') /\ Spot(info[x])' = Spot(info[x])
    <3>1. info \in [Slot -> Info]
      BY DEF TypeOK
    <3>2. /\ info'[x].count = info[x].count /\ info'[x].error = info[x].error /\ info'[x].joined = info[x].joined
          /\ info'[x].lsn = info[x].lsn /\ info'[x].oldEnd = info[x].oldEnd /\ info'[x].startPos = info[x].startPos
          /\ info'[x].pos = info[x].pos /\ info'[x].newEnd = info[x].newEnd /\ info'[x].newBase = info[x].newBase
      <4>1. CASE x = s
        BY <1>1, <3>1, <4>1 DEF Info
      <4>2. CASE x # s
        BY <1>1, <3>1, <4>2
      <4>. QED
        BY <4>1, <4>2
    <3>. QED
      BY <3>2 DEF Lined, Spot
  <2>. QED
    BY <2>1 DEF SameSpots
<1>8. SameGroups /\ \A u \in Thread : u # t /\ Copies(u) => Copies(u)' /\ Target(u)' = Target(u)
  BY <1>1, <1>6, <1>7, SpotsKept
<1>9. Shown' <=> Shown
  <2>1. pc \in [Thread -> PC]
    BY DEF TypeOK
  <2>2. pc[t] # "hand over" /\ pc'[t] # "hand over"
    BY <1>1, <2>1
  <2>. QED
    BY <1>6, <2>2 DEF Shown
<1>10. Len(expose) \in Nat /\ Ends(cur)' = Ends(cur) /\ CurEnd' = CurEnd /\ CurLsn' = CurLsn
  BY <1>1, LineIs DEF Ends, CurEnd, CurLsn
<1>11. AtInv(at)'
  BY <1>0, <1>1, AtFrame
<1>12. EndsInv(at)' /\ LineInv(at)'
  <2>1. \A j \in 1 .. Len(expose) : Grp(j)' = Grp(j)
    BY <1>8 DEF SameGroups
  <2>. QED
    BY <1>0, <1>1, <1>9, <1>10, <2>1, LineFrame
<1>13. EpochInv(at)' /\ NextPos' = NextPos /\ NextLsn' = NextLsn
  BY <1>0, <1>1, EpochFrame
<1>14. FlushInv(at)'
  <2>1. SameFlush
    BY <1>1 DEF SameFlush
  <2>. QED
    BY <1>0, <1>1, <1>10, <1>13, <2>1, FlushFrame
<1>15. ClrInv(at)'
  BY <1>0, <1>1 DEF ClrInv
<1>16. BytesInv(at)'
  <2>0. Kept' = Kept /\ Kept \in Nat
    BY <1>1, KeptIs DEF Kept
  <2>1. ASSUME NEW a \in Kept .. (end - 1) PROVE There(at, a)'
    <3>1. CASE at[a] = -1
      BY <3>1 DEF There
    <3>2. CASE a \in Target(t)
      <4>1. bytes'[a % Seg] = at[a]
        BY <3>2, CopyBytes
      <4>. QED
        BY <4>1 DEF There
    <3>3. CASE at[a] # -1 /\ a \notin Target(t)
      <4>1. There(at, a)
        BY <1>0 DEF BytesInv
      <4>2. CASE \E u \in Thread : Copies(u) /\ a \in Target(u)
        <5>1. PICK u \in Thread : Copies(u) /\ a \in Target(u)
          BY <4>2
        <5>2. u # t
          BY <3>3, <5>1
        <5>3. Copies(u)' /\ a \in Target(u)'
          BY <1>8, <5>1, <5>2
        <5>. QED
          BY <5>3 DEF There
      <4>3. CASE bytes[a % Seg] = at[a]
        <5>1. a % Seg \in 0 .. (Seg - 1)
          <6>1. a \in Nat
            BY <2>0
          <6>. QED
            BY <6>1, Sizes, DivMod
        <5>2. bytes'[a % Seg] = bytes[a % Seg]
          <6>1. SUFFICES ASSUME NEW b \in Target(t), b % Seg = a % Seg PROVE FALSE
            BY <5>1, CopyBytes
          <6>2. b \in Kept .. (end - 1)
            BY CopyBytes
          <6>3. b = a
            BY <1>0, <6>1, <6>2, InWindow
          <6>. QED
            BY <3>3, <6>3
        <5>. QED
          BY <4>3, <5>2 DEF There
      <4>. QED
        BY <3>3, <4>1, <4>2, <4>3 DEF There
    <3>. QED
      BY <3>1, <3>2, <3>3
  <2>2. ASSUME NEW p \in 0 .. (Seg - 1), bytes'[p] >= durable
        PROVE  \E a \in 0 .. (end - 1) : a % Seg = p /\ at[a] = bytes'[p]
    <3>1. CASE bytes'[p] = bytes[p]
      BY <1>0, <2>2, <3>1 DEF BytesInv
    <3>2. CASE \E a \in Target(t) : a % Seg = p
      <4>1. PICK a \in Target(t) : a % Seg = p
        BY <3>2
      <4>2. a \in Kept .. (end - 1) /\ bytes'[a % Seg] = at[a]
        BY CopyBytes
      <4>3. a \in 0 .. (end - 1)
        BY <2>0, <4>2
      <4>. QED
        BY <4>1, <4>2, <4>3
    <3>. QED
      BY <3>1, <3>2, CopyBytes
  <2>3. \A a \in Kept .. (end - 1) : There(at, a)'
    BY <2>1
  <2>4. \A p \in 0 .. (Seg - 1) : bytes'[p] >= durable => \E a \in 0 .. (end - 1) : a % Seg = p /\ at[a] = bytes'[p]
    BY <2>2
  <2>. QED
    BY <1>0, <1>1, <2>0, <2>3, <2>4 DEF BytesInv
\* The records: the others' are not overwritten, and the new one is there.
<1>17. ASSUME NEW l \in Nat, bytes[Where(l)] = l, durable <= l PROVE bytes'[Where(l)] = l
  <2>1. Where(l) \in 0 .. (Seg - 1)
    <3>1. PICK m : m = Data + Block
      OBVIOUS
    <3>2. lo(l) \in 0 .. m - 1
      BY <3>1, LsnParts
    <3>3. lo(l) \in Nat
      BY <3>2
    <3>. QED
      BY <3>3, Sizes, DivMod DEF Where
  <2>2. durable \in Nat
    BY EndTypes
  <2>. QED
    BY <1>17, <2>1, <2>2, CopyOver
<1>18. \A j \in Line : \E h \in Line' : Grp(h)' = Grp(j)
  <2>1. Line' = Line /\ Line \subseteq 1 .. Len(expose)
    BY <1>1, <1>9, LineIs DEF Line, First
  <2>. QED
    BY <1>8, <2>1 DEF SameGroups
<1>19. ASSUME NEW u \in Thread, u # t, RecordRight(u), Recorded(u) PROVE RecordRight(u)'
  <2>1. my'[u] = my[u] /\ my[u].lsn \in Nat /\ my[u].size \in Nat
    BY <1>6, <1>19, LocalTypes DEF Recorded
  <2>2. InLog(u)'
    BY <1>10, <1>18, <1>19, <2>1, InLogFrame DEF RecordRight
  <2>3. RecEnd(u)' = RecEnd(u) /\ RecEnd(u) = my[u].lsn + my[u].size
    BY <2>1 DEF RecEnd
  <2>4. ASSUME NEW l \in my[u].lsn .. (RecEnd(u) - 1), durable <= l PROVE bytes'[Where(l)] = l
    <3>1. l \in Nat /\ bytes[Where(l)] = l
      BY <1>19, <2>1, <2>4 DEF RecordRight
    <3>. QED
      BY <1>17, <2>4, <3>1
  <2>5. \A l \in my'[u].lsn .. (RecEnd(u)' - 1) : durable' <= l => bytes'[Where(l)'] = l
    BY <1>1, <2>1, <2>3, <2>4 DEF Where, lo
  <2>. QED
    BY <1>1, <1>19, <2>1, <2>2, <2>3, <2>5 DEF RecordRight, Whole, lo
<1>20. RecordRight(t)'
  <2>1. ASSUME NEW y \in P .. (P + n - 1)
        PROVE  /\ B + y \in 0 .. (end - 1) /\ CurEnd <= B + y /\ at[B + y] = L + y /\ L + y \in Nat
               /\ bytes'[Where(L + y)] = L + y
    <3>1. B + y \in Kept .. (end - 1) /\ CurEnd <= B + y /\ at[B + y] = L + y
      BY <1>3, TargetIn
    <3>2. B + y \in 0 .. (end - 1) /\ L + y \in Nat
      BY <3>1, KeptIs
    <3>3. Where(L + y) = (B + y) % Seg
      <4>1. at[B + y] # -1
        BY <3>1, <3>2
      <4>2. Where(at[B + y]) = (B + y) % Seg
        BY <1>0, <3>2, <4>1, AtHas
      <4>. QED
        BY <3>1, <4>2
    <3>4. bytes'[(B + y) % Seg] = at[B + y]
      <4>1. B + y \in Target(t)
        BY <1>4
      <4>. QED
        BY <4>1, CopyBytes
    <3>. QED
      BY <3>1, <3>2, <3>3, <3>4
  <2>2. P \in P .. (P + n - 1)
    OBVIOUS
  <2>3. durable <= L + P /\ (dpc \in Flight => fl.upto <= L + P)
    <3>1. B + P \in 0 .. (end - 1) /\ CurEnd <= B + P /\ at[B + P] = L + P /\ L + P \in Nat
      BY <2>1, <2>2
    <3>. QED
      BY <3>1, PastAll
  <2>4. cur.lsn <= L + P
    <3>1. CurLsn <= L /\ CurLsn = cur.lsn + cur.end
      BY <1>0, <1>4 DEF LineInv, LineRight, CurLsn
    <3>. QED
      BY <3>1, SpanTypes
  <2>5. RecEnd(t)' = L + P + n /\ my'[t].lsn = L + P /\ my'[t].size = n
    BY <1>6 DEF RecEnd
  <2>6. InLog(t)'
    <3>1. k \in Line' /\ Grp(k)' = Grp(k)
      <4>1. Line' = Line /\ Line \subseteq 1 .. Len(expose)
        BY <1>1, <1>9, LineIs DEF Line, First
      <4>. QED
        BY <1>8, <4>1 DEF SameGroups
    <3>2. Grp(k).lsn <= L + P /\ L + P + n <= Grp(k).lsn + Grp(k).joined
      <4>1. SpotOK(Grp(k))
        BY LineIs
      <4>. QED
        BY <1>4, <4>1 DEF SpotOK
    <3>. QED
      BY <2>5, <3>1, <3>2 DEF InLog
  <2>7. ASSUME NEW l \in (L + P) .. (L + P + n - 1) PROVE bytes'[Where(l)] = l
    <3>1. PICK y \in P .. (P + n - 1) : l = L + y
      <4>1. l - L \in P .. (P + n - 1) /\ l = L + (l - L)
        OBVIOUS
      <4>. QED
        BY <4>1
    <3>. QED
      BY <2>1, <3>1
  <2>8. \A l \in my'[t].lsn .. (RecEnd(t)' - 1) : durable' <= l => bytes'[Where(l)'] = l
    BY <2>5, <2>7 DEF Where, lo
  <2>9. /\ Whole(t, durable)' /\ (dpc' \in Flight => Whole(t, fl.upto)') /\ Whole(t, cur.lsn)'
    BY <1>1, <2>3, <2>4, <2>5 DEF Whole
  <2>10. my'[t].size > 0
    BY <2>5
  <2>. QED
    BY <2>6, <2>8, <2>9, <2>10 DEF RecordRight
<1>21. RecordInv'
  <2>1. ASSUME NEW u \in Thread, Recorded(u)' PROVE RecordRight(u)'
    <3>1. CASE u = t
      BY <1>20, <3>1
    <3>2. CASE u # t
      <4>1. Recorded(u) /\ RecordRight(u)
        BY <1>0, <1>6, <2>1, <3>2 DEF RecordInv, Recorded
      <4>. QED
        BY <1>19, <3>2, <4>1
    <3>. QED
      BY <3>1, <3>2
  <2>2. ASSUME NEW u \in Thread, pc'[u] \in {"flush wait", "flush asleep"} PROVE Recorded(u)'
    <3>1. u # t
      <4>1. pc \in [Thread -> PC]
        BY DEF TypeOK
      <4>2. pc'[t] \in {"expose", "out"}
        BY <1>1, <4>1
      <4>. QED
        BY <2>2, <4>2
    <3>. QED
      BY <1>0, <1>6, <2>2, <3>1 DEF RecordInv, Recorded
  <2>. QED
    BY <2>1, <2>2 DEF RecordInv
<1>. QED
  BY <1>11, <1>12, <1>13, <1>14, <1>15, <1>16, <1>21 DEF Ghost

-----------------------------------------------------------------------------
(***************************************************************************)
(* The first group of the line enters the epochs.                          *)
(***************************************************************************)
\* What ToEpochs does with a group that follows the current epoch.
Enters(i) ==
  \/ Goes(Ends(cur), i) /\ old' = old /\ cur' = [cur EXCEPT !.end = i.newEnd]
  \/ Wraps(Ends(cur), i) /\ old' = [cur EXCEPT !.end = Seg] /\ cur' = Epoch(cur.lsn + Seg, cur.base + Seg, 0, i.newEnd)
  \/ Opens(Ends(cur), i) /\ old' = cur /\ cur' = Epoch(i.lsn, i.newBase, 0, i.newEnd)

LEMMA UpdateFirst ==
  ASSUME BufferConstants, TypeOK, GroupInv, NEW t \in Thread,
         pc[t] = "update" \/ (pc[t] = "expose" /\ info[my[t].slot].state = "go"), NEW s, s = my[t].slot
  PROVE  /\ s \in Slot /\ expose[1] = s /\ Len(expose) \in Nat /\ 1 \in 1 .. Len(expose) /\ Lined(s)
         /\ ~Shown /\ First = 1 /\ 1 \in Line /\ Grp(1) = Spot(info[s])
<1>1. s \in Slot /\ Owner(t) /\ OwnerRight(t) /\ Lined(s) /\ Len(expose) \in Nat
  BY LocalTypes, LineIs DEF Owner, GroupInv, OwnerInv, OwnerRight
<1>2. PICK k \in 1 .. Len(expose) : expose[k] = s
  BY <1>1, LinedQueue
<1>3. expose[1] = s
  <2>1. CASE pc[t] = "update"
    BY <1>1, <2>1 DEF OwnerRight
  <2>2. CASE info[s].state = "go"
    <3>1. DOMAIN expose = 1 .. Len(expose)
      BY <1>1, LinedQueue
    <3>2. info[expose[k]].state \in IF k = 1 THEN {"go", "abort"} ELSE {"waiting", "abort"}
      BY <3>1 DEF GroupInv, QueueInv
    <3>3. k = 1
      BY <1>2, <2>2, <3>2
    <3>. QED
      BY <1>2, <3>3
  <2>. QED
    BY <2>1, <2>2
<1>4. 1 \in 1 .. Len(expose)
  BY <1>1, <1>2
<1>5. ~Shown
  <2>1. SUFFICES ASSUME NEW u \in Thread, pc[u] = "hand over" PROVE FALSE
    BY DEF Shown
  <2>2. Owner(u) /\ OwnerRight(u) /\ expose[1] = my[u].slot
    BY <2>1 DEF Owner, GroupInv, OwnerInv, OwnerRight
  <2>3. u = t
    BY <1>1, <1>3, <2>2 DEF OwnerRight
  <2>. QED
    BY <2>1, <2>3
<1>6. First = 1 /\ 1 \in Line
  BY <1>1, <1>4, <1>5 DEF First, Line
<1>. QED
  BY <1>1, <1>3, <1>4, <1>5, <1>6 DEF Grp

LEMMA UpdateIs ==
  ASSUME BufferConstants, TypeOK, GroupInv, NEW at, EndsInv(at), LineInv(at), NEW t \in Thread, Update(t),
         NEW i, i = Spot(info[my[t].slot])
  PROVE  /\ Grp(1) = i /\ 1 \in Line /\ ~Shown /\ First = 1
         /\ SpotOK(i) /\ Follows(Ends(cur), i) /\ Enters(i)
         /\ EpochOK(Ends(cur)) /\ Aligned(Ends(cur))
         /\ Ends(cur).lsn = cur.lsn /\ Ends(cur).base = cur.base /\ Ends(cur).end = cur.end
<1>1. PICK s \in Slot : s = my[t].slot
  BY LocalTypes
<1>2. /\ Grp(1) = i /\ 1 \in Line /\ ~Shown /\ First = 1 /\ i = Spot(info[s])
  BY <1>1, UpdateFirst DEF Update
<1>3. SpotOK(i)
  BY <1>2, SpotTypes
<1>4. /\ EpochOK(Ends(cur)) /\ Aligned(Ends(cur))
      /\ Ends(cur).lsn = cur.lsn /\ Ends(cur).base = cur.base /\ Ends(cur).end = cur.end
  BY SpanTypes DEF EndsInv, EpochOK, Ends, Aligned
<1>5. Follows(Ends(cur), i)
  <2>1. LineRight(at, 1)
    BY <1>2 DEF LineInv
  <2>. QED
    BY <1>2, <2>1 DEF LineRight, Prev
<1>6. ToEpochs(info[s])
  BY <1>1 DEF Update
<1>7. /\ info[s].newBase = i.newBase /\ info[s].lsn = i.lsn /\ info[s].newEnd = i.newEnd /\ info[s].pos = i.pos
  BY <1>2 DEF Spot
<1>8. Goes(Ends(cur), i) \/ Wraps(Ends(cur), i) \/ Opens(Ends(cur), i)
  BY <1>5, FollowsHow
<1>9. i.newBase \in Nat \union {-1} /\ i.pos \in Nat /\ cur.base \in Nat /\ Seg \in Nat \ {0}
  BY <1>3, Sizes, SpanTypes DEF SpotOK
<1>10. Enters(i)
  <2>1. CASE Goes(Ends(cur), i)
    <3>1. ~(i.newBase > 0) /\ ~(i.pos > Seg)
      BY <1>9, <2>1 DEF Goes
    <3>. QED
      BY <1>6, <1>7, <2>1, <3>1 DEF ToEpochs, Enters
  <2>2. CASE Wraps(Ends(cur), i)
    <3>1. ~(i.newBase > 0) /\ i.pos > Seg
      BY <1>9, <2>2 DEF Wraps
    <3>. QED
      BY <1>6, <1>7, <2>2, <3>1 DEF ToEpochs, Enters
  <2>3. CASE Opens(Ends(cur), i)
    <3>1. i.newBase > 0
      BY <1>4, <1>9, <2>3 DEF Opens
    <3>. QED
      BY <1>6, <1>7, <2>3, <3>1 DEF ToEpochs, Enters
  <2>. QED
    BY <1>8, <2>1, <2>2, <2>3
<1>. QED
  BY <1>2, <1>3, <1>4, <1>5, <1>10

\* Both say of the part that is in the current epoch what is in EpochOf.
LEMMA EnteredEnds ==
  ASSUME BufferConstants, TypeOK, NEW i, SpotOK(i), Follows(Ends(cur), i), Enters(i),
         EpochOK(Ends(cur)), Aligned(Ends(cur)),
         Ends(cur).lsn = cur.lsn, Ends(cur).base = cur.base, Ends(cur).end = cur.end
  PROVE  /\ cur'.lsn = EpochOf(i).lsn /\ cur'.base = EpochOf(i).base /\ cur'.end = EpochOf(i).end
         /\ Ends(cur)' = EpochOf(i)
         /\ CurEnd' = Fin(i) /\ CurLsn' = i.lsn + i.joined
         /\ cur'.start = IF Goes(Ends(cur), i) THEN cur.start ELSE 0
         /\ cur'.end > 0 /\ CurEnd <= CurEnd' /\ CurLsn <= i.lsn
<1>0. /\ i.joined \in Nat \ {0} /\ i.lsn \in Nat /\ i.pos \in Nat /\ i.oldEnd = cur.base + cur.end /\ Seg \in Nat \ {0}
      /\ cur.lsn \in Nat /\ cur.base \in Nat /\ cur.end \in Nat /\ cur \in Span
      /\ Bgn(i) \in Nat /\ i.oldEnd <= Bgn(i) /\ Fin(i) = Bgn(i) + i.joined
      /\ EpochOf(i).base + EpochOf(i).end = Fin(i) /\ EpochOf(i).lsn + EpochOf(i).end = i.lsn + i.joined
      /\ cur.lsn + cur.end <= i.lsn
  <2>1. /\ i.joined \in Nat \ {0} /\ i.oldEnd = Ends(cur).base + Ends(cur).end
        /\ Bgn(i) \in Nat /\ i.oldEnd <= Bgn(i) /\ Fin(i) = Bgn(i) + i.joined
        /\ EpochOf(i).base + EpochOf(i).end = Fin(i) /\ EpochOf(i).lsn + EpochOf(i).end = i.lsn + i.joined
        /\ Ends(cur).lsn + Ends(cur).end <= i.lsn
    BY FollowsPlace
  <2>2. i.lsn \in Nat /\ i.pos \in Nat /\ Seg \in Nat \ {0}
    BY Sizes DEF SpotOK
  <2>3. cur.lsn \in Nat /\ cur.base \in Nat /\ cur.end \in Nat /\ cur \in Span
    BY SpanTypes DEF TypeOK
  <2>. QED
    BY <2>1, <2>2, <2>3
<1>1. /\ cur'.lsn = EpochOf(i).lsn /\ cur'.base = EpochOf(i).base /\ cur'.end = EpochOf(i).end /\ cur'.end > 0
      /\ cur'.start = IF Goes(Ends(cur), i) THEN cur.start ELSE 0
  <2>1. CASE Goes(Ends(cur), i) /\ cur' = [cur EXCEPT !.end = i.newEnd]
    <3>1. EpochOf(i).lsn = cur.lsn /\ EpochOf(i).base = cur.base /\ EpochOf(i).end = i.pos
      BY <2>1, FollowsPlace
    <3>2. i.newEnd = i.pos /\ i.pos = cur.end + i.joined
      BY <2>1 DEF Goes
    <3>3. cur'.lsn = cur.lsn /\ cur'.base = cur.base /\ cur'.end = i.newEnd /\ cur'.start = cur.start
      BY <1>0, <2>1 DEF Span
    <3>. QED
      BY <1>0, <2>1, <3>1, <3>2, <3>3
  <2>2. CASE Wraps(Ends(cur), i) /\ cur' = Epoch(cur.lsn + Seg, cur.base + Seg, 0, i.newEnd)
    <3>1. EpochOf(i).lsn = cur.lsn + Seg /\ EpochOf(i).base = cur.base + Seg /\ EpochOf(i).end = i.pos - Seg
      BY <2>2, FollowsPlace
    <3>2. i.newEnd = i.pos - Seg /\ i.pos > Seg
      BY <2>2 DEF Wraps
    <3>3. ~Goes(Ends(cur), i)
      BY <1>0, <2>2 DEF Goes, Wraps
    <3>4. cur'.lsn = cur.lsn + Seg /\ cur'.base = cur.base + Seg /\ cur'.end = i.newEnd /\ cur'.start = 0
      BY <2>2 DEF Epoch
    <3>. QED
      BY <1>0, <3>1, <3>2, <3>3, <3>4
  <2>3. CASE Opens(Ends(cur), i) /\ cur' = Epoch(i.lsn, i.newBase, 0, i.newEnd)
    <3>1. EpochOf(i).lsn = i.lsn /\ EpochOf(i).base = cur.base + Seg /\ EpochOf(i).end = i.joined
      BY <2>3, FollowsPlace
    <3>2. i.newEnd = i.joined /\ i.newBase = cur.base + Seg
      BY <2>3 DEF Opens
    <3>3. ~Goes(Ends(cur), i)
      BY <1>0, <3>2 DEF Goes
    <3>4. cur'.lsn = i.lsn /\ cur'.base = i.newBase /\ cur'.end = i.newEnd /\ cur'.start = 0
      BY <2>3 DEF Epoch
    <3>. QED
      BY <1>0, <3>1, <3>2, <3>3, <3>4
  <2>. QED
    BY <2>1, <2>2, <2>3 DEF Enters
<1>2. Ends(cur)' = EpochOf(i)
  BY <1>1 DEF Ends, EpochOf
<1>3. CurEnd' = Fin(i) /\ CurLsn' = i.lsn + i.joined
  BY <1>0, <1>1 DEF CurEnd, CurLsn
<1>4. CurEnd <= CurEnd' /\ CurLsn <= i.lsn
  <2>1. CurEnd = i.oldEnd /\ CurLsn = cur.lsn + cur.end
    BY <1>0 DEF CurEnd, CurLsn
  <2>2. i.oldEnd <= Fin(i)
    BY <1>0
  <2>. QED
    BY <1>0, <1>3, <2>1, <2>2
<1>. QED
  BY <1>1, <1>2, <1>3, <1>4

\* Where the next flush begins, at the latest.
LEMMA StartNext ==
  ASSUME TypeOK, NEW at, FlushInv(at)
  PROVE  start <= NextPos /\ (~Idle => fl.newStart <= NextPos)
  BY SpanTypes, EndTypes DEF FlushInv

\* The old epoch is on disk when another is to take its place: its bytes and those of the group would
\* not fit into the buffer.
LEMMA OldFlushed ==
  ASSUME BufferConstants, TypeOK, NEW at, Ghost(at), NEW i, SpotOK(i), Follows(Ends(cur), i),
         EpochOK(Ends(cur)), Aligned(Ends(cur)),
         Ends(cur).lsn = cur.lsn, Ends(cur).base = cur.base, Ends(cur).end = cur.end,
         Fin(i) <= end, ~Goes(Ends(cur), i)
  PROVE  Empty(old)
<1>1. SUFFICES ASSUME ~Empty(old) PROVE FALSE
  OBVIOUS
<1>2. /\ cur.base \in Nat /\ cur.end \in Nat /\ old.base \in Nat /\ old.start \in Nat /\ old.end \in Nat
      /\ Seg \in Nat \ {0} /\ start \in Nat /\ end \in Nat /\ NextPos \in Nat /\ i.joined \in Nat /\ i.pos \in Nat
  BY SpanTypes, EndTypes, Sizes DEF SpotOK
<1>3. old.base + old.start < cur.base
  <2>1. old.start <= old.end /\ old.end <= Seg /\ old.base + Seg = cur.base
    BY <1>1 DEF Ghost, EpochInv, Aligned
  <2>2. old.start # old.end
    BY <1>1 DEF Empty
  <2>. QED
    BY <1>2, <2>1, <2>2
<1>4. start < cur.base
  <2>1. start <= NextPos
    BY StartNext DEF Ghost
  <2>2. NextPos = old.base + old.start
    BY <1>1 DEF NextPos
  <2>. QED
    BY <1>2, <1>3, <2>1, <2>2
<1>5. Fin(i) > cur.base + Seg /\ Fin(i) \in Nat
  <2>1. CASE Wraps(Ends(cur), i)
    <3>1. EpochOf(i).base = cur.base + Seg /\ EpochOf(i).end = i.pos - Seg /\ EpochOf(i).base + EpochOf(i).end = Fin(i)
      BY <2>1, FollowsPlace
    <3>2. i.pos > Seg
      BY <2>1 DEF Wraps
    <3>. QED
      BY <1>2, <3>1, <3>2
  <2>2. CASE Opens(Ends(cur), i)
    <3>1. EpochOf(i).base = cur.base + Seg /\ EpochOf(i).end = i.joined /\ EpochOf(i).base + EpochOf(i).end = Fin(i)
          /\ i.joined \in Nat \ {0}
      BY <2>2, FollowsPlace
    <3>. QED
      BY <1>2, <3>1
  <2>. QED
    BY <2>1, <2>2, FollowsHow
<1>6. Kept \in Nat /\ Kept <= start /\ end - Kept <= Seg
  BY KeptIs DEF Ghost, BytesInv
<1>. QED
  BY <1>2, <1>4, <1>5, <1>6

\* A new partition: after the end of the current one comes nothing until the group.
LEMMA CutOpens ==
  ASSUME TypeOK, NEW at, AtInv(at), NEW i, SpotOK(i), HoldsGroup(at, i), i.joined > 0, i.oldEnd = CurEnd,
         Bgn(i) \in Nat, i.oldEnd <= Bgn(i), Fin(i) = Bgn(i) + i.joined, Fin(i) <= end,
         lo(i.lsn) = 0, CurLsn < i.lsn, NEW d \in Nat, Cut(at, d, CurEnd, CurLsn)
  PROVE  Cut(at, d, Bgn(i), i.lsn)
<1>1. CurEnd \in Nat /\ CurLsn \in Nat /\ end \in Nat /\ i.lsn \in Nat /\ i.joined \in Nat
  BY EndTypes DEF SpotOK
<1>2. d < i.lsn
  BY <1>1 DEF Cut
<1>3. ASSUME NEW a \in 0 .. (end - 1), a < Bgn(i) PROVE at[a] < d
  <2>1. CASE a < CurEnd
    BY <1>1, <2>1, CutTells
  <2>2. CASE ~(a < CurEnd)
    <3>1. a \in i.oldEnd .. (Bgn(i) - 1)
      BY <1>1, <1>3, <2>2
    <3>2. at[a] = -1
      BY <3>1 DEF HoldsGroup
    <3>. QED
      BY <3>2
  <2>. QED
    BY <2>1, <2>2
<1>4. ASSUME NEW a \in 0 .. (end - 1), ~(a < Bgn(i)) PROVE at[a] = -1 \/ i.lsn <= at[a]
  <2>1. PICK o \in 0 .. (i.joined - 1) : o = 0
    BY <1>1
  <2>2. at[Bgn(i) + o] = i.lsn + o
    BY DEF HoldsGroup
  <2>3. at[Bgn(i)] = i.lsn
    BY <1>1, <2>1, <2>2
  <2>4. CASE a = Bgn(i)
    BY <1>1, <2>3, <2>4
  <2>5. CASE a # Bgn(i) /\ at[a] # -1
    <3>1. Bgn(i) \in 0 .. (a - 1)
      BY <1>4, <2>5
    <3>2. at[Bgn(i)] < at[a] /\ at[a] \in Nat
      BY <2>5, <3>1, AtHas
    <3>. QED
      BY <1>1, <2>3, <3>2
  <2>. QED
    BY <2>4, <2>5
<1>. QED
  BY <1>2, <1>3, <1>4 DEF Cut

\* What the next flush begins with does not change, or the rest of a partition is left out.
LEMMA UpdateNext ==
  ASSUME BufferConstants, TypeOK, TypeOK', NEW at, Ghost(at), NEW i, SpotOK(i), Follows(Ends(cur), i), Enters(i),
         EpochOK(Ends(cur)), Aligned(Ends(cur)),
         Ends(cur).lsn = cur.lsn, Ends(cur).base = cur.base, Ends(cur).end = cur.end,
         Fin(i) <= end, HoldsGroup(at, i)
  PROVE  /\ NextPos <= NextPos'
         /\ \A d \in Nat : Cut(at, d, NextPos, NextLsn) => Cut(at, d, NextPos', NextLsn')
<1>1. /\ cur.base \in Nat /\ cur.lsn \in Nat /\ cur.start \in Nat /\ cur.end \in Nat /\ cur \in Span
      /\ old.base \in Nat /\ old.start \in Nat /\ old.end \in Nat /\ Seg \in Nat \ {0}
      /\ NextPos \in Nat /\ NextLsn \in Nat /\ i.pos \in Nat
  BY SpanTypes, EndTypes, Sizes DEF TypeOK, SpotOK
<1>2. /\ cur'.lsn = EpochOf(i).lsn /\ cur'.base = EpochOf(i).base /\ cur'.end = EpochOf(i).end
      /\ cur'.start = IF Goes(Ends(cur), i) THEN cur.start ELSE 0
  BY EnteredEnds
<1>3. CASE Goes(Ends(cur), i) /\ old' = old
  <2>1. cur'.lsn = cur.lsn /\ cur'.base = cur.base /\ cur'.start = cur.start
    BY <1>2, <1>3, FollowsPlace
  <2>2. NextPos' = NextPos /\ NextLsn' = NextLsn
    BY <1>3, <2>1 DEF NextPos, NextLsn, Empty
  <2>. QED
    BY <1>1, <2>2
<1>4. CASE Wraps(Ends(cur), i) /\ old' = [cur EXCEPT !.end = Seg]
  <2>0. ~Goes(Ends(cur), i)
    BY <1>1, <1>4 DEF Goes, Wraps
  <2>1. Empty(old)
    BY <2>0, OldFlushed
  <2>2. cur'.lsn = cur.lsn + Seg /\ cur'.base = cur.base + Seg /\ cur'.start = 0
    BY <1>2, <1>4, <2>0, FollowsPlace
  <2>3. old'.base = cur.base /\ old'.lsn = cur.lsn /\ old'.start = cur.start /\ old'.end = Seg
    BY <1>1, <1>4 DEF Span
  <2>4. NextPos = cur.base + cur.start /\ NextLsn = cur.lsn + cur.start
    BY <2>1 DEF NextPos, NextLsn
  <2>5. NextPos' = cur.base + cur.start /\ NextLsn' = cur.lsn + cur.start
    <3>1. CASE cur.start = Seg
      BY <1>1, <2>2, <2>3, <3>1 DEF NextPos, NextLsn, Empty
    <3>2. CASE cur.start # Seg
      BY <1>1, <2>2, <2>3, <3>2 DEF NextPos, NextLsn, Empty
    <3>. QED
      BY <3>1, <3>2
  <2>. QED
    BY <1>1, <2>4, <2>5
<1>5. CASE Opens(Ends(cur), i) /\ old' = cur
  <2>0. ~Goes(Ends(cur), i)
    <3>1. i.newBase = cur.base + Seg
      BY <1>5 DEF Opens
    <3>. QED
      BY <1>1, <3>1 DEF Goes
  <2>1. Empty(old)
    BY <2>0, OldFlushed
  <2>2. NextPos = cur.base + cur.start /\ NextLsn = cur.lsn + cur.start
    BY <2>1 DEF NextPos, NextLsn
  <2>3. CASE ~Empty(cur)
    <3>1. NextPos' = cur.base + cur.start /\ NextLsn' = cur.lsn + cur.start
      BY <1>5, <2>3 DEF NextPos, NextLsn, Empty
    <3>. QED
      BY <1>1, <2>2, <3>1
  <2>4. CASE Empty(cur)
    <3>1. EpochOf(i).lsn = i.lsn /\ EpochOf(i).base = cur.base + Seg /\ Bgn(i) = i.newBase /\ i.newBase = cur.base + Seg
      BY <1>5, FollowsPlace DEF Opens
    <3>2. NextPos' = Bgn(i) /\ NextLsn' = i.lsn
      <4>1. Empty(old')
        BY <1>5, <2>4 DEF Empty
      <4>2. NextPos' = cur'.base + cur'.start /\ NextLsn' = cur'.lsn + cur'.start
        BY <4>1 DEF NextPos, NextLsn, Empty
      <4>3. i.lsn \in Nat /\ cur'.start = 0
        BY <1>2, <2>0 DEF SpotOK
      <4>. QED
        BY <1>1, <1>2, <3>1, <4>2, <4>3
    <3>3. NextPos = CurEnd /\ NextLsn = CurLsn
      BY <2>2, <2>4 DEF Empty, CurEnd, CurLsn
    <3>4. /\ i.joined > 0 /\ i.oldEnd = CurEnd /\ Bgn(i) \in Nat /\ i.oldEnd <= Bgn(i) /\ Fin(i) = Bgn(i) + i.joined
      <4>1. /\ i.joined \in Nat \ {0} /\ i.oldEnd = Ends(cur).base + Ends(cur).end
            /\ Bgn(i) \in Nat /\ i.oldEnd <= Bgn(i) /\ Fin(i) = Bgn(i) + i.joined
        BY FollowsPlace
      <4>. QED
        BY <4>1 DEF CurEnd
    <3>5. lo(i.lsn) = 0 /\ CurLsn < i.lsn
      BY <1>5 DEF Opens, CurLsn
    <3>6. ASSUME NEW d \in Nat, Cut(at, d, NextPos, NextLsn) PROVE Cut(at, d, NextPos', NextLsn')
      <4>1. Cut(at, d, Bgn(i), i.lsn)
        BY <3>3, <3>4, <3>5, <3>6, CutOpens DEF Ghost
      <4>. QED
        BY <3>2, <4>1
    <3>7. NextPos <= NextPos'
      BY <3>2, <3>3, <3>4
    <3>. QED
      BY <3>6, <3>7
  <2>. QED
    BY <2>3, <2>4
<1>. QED
  BY <1>3, <1>4, <1>5 DEF Enters

LEMMA UpdateEpochs ==
  ASSUME BufferConstants, TypeOK, TypeOK', NEW at, Ghost(at), NEW i, SpotOK(i), Follows(Ends(cur), i), Enters(i),
         EpochOK(Ends(cur)), Aligned(Ends(cur)),
         Ends(cur).lsn = cur.lsn, Ends(cur).base = cur.base, Ends(cur).end = cur.end,
         Fin(i) <= end, HoldsGroup(at, i)
  PROVE  EpochInv(at)'
<1>1. /\ cur.base \in Nat /\ cur.lsn \in Nat /\ cur.start \in Nat /\ cur.end \in Nat /\ cur \in Span
      /\ old.base \in Nat /\ old.start \in Nat /\ old.end \in Nat /\ Seg \in Nat \ {0}
      /\ i.joined \in Nat \ {0} /\ i.pos \in Nat
  <2>1. i.joined \in Nat \ {0} /\ i.pos \in Nat
    BY FollowsPlace DEF SpotOK
  <2>. QED
    BY <2>1, SpanTypes, Sizes DEF TypeOK
<1>2. /\ cur'.lsn = EpochOf(i).lsn /\ cur'.base = EpochOf(i).base /\ cur'.end = EpochOf(i).end
      /\ cur'.start = (IF Goes(Ends(cur), i) THEN cur.start ELSE 0) /\ cur'.end > 0 /\ cur'.end \in Nat
  BY EnteredEnds DEF TypeOK, Span
<1>3. EpochInv(at) /\ Aligned(cur) /\ Holds(at, cur) /\ cur.start <= cur.end /\ old.start <= old.end
  BY DEF Ghost, EndsInv, EpochInv
<1>4. CASE Goes(Ends(cur), i) /\ old' = old
  <2>1. cur'.lsn = cur.lsn /\ cur'.base = cur.base /\ cur'.start = cur.start /\ cur'.end = cur.end + i.joined
    <3>1. i.pos = cur.end + i.joined
      BY <1>4 DEF Goes
    <3>. QED
      BY <1>2, <1>4, <3>1, FollowsPlace
  <2>2. cur'.start <= cur'.end /\ cur'.end > 0
    BY <1>1, <1>3, <2>1
  <2>. QED
    BY <1>3, <1>4, <2>1, <2>2 DEF EpochInv, Empty, Aligned, Holds, lo, file
<1>5. CASE Wraps(Ends(cur), i) /\ old' = [cur EXCEPT !.end = Seg]
  <2>0. ~Goes(Ends(cur), i)
    BY <1>1, <1>5 DEF Goes, Wraps
  <2>1. cur'.lsn = cur.lsn + Seg /\ cur'.base = cur.base + Seg /\ cur'.start = 0 /\ cur'.end > 0
    BY <1>2, <1>5, <2>0, FollowsPlace
  <2>2. old'.base = cur.base /\ old'.lsn = cur.lsn /\ old'.start = cur.start /\ old'.end = Seg
    BY <1>1, <1>5 DEF Span
  <2>3. Aligned(old')
    BY <1>1, <1>3, <2>2 DEF Aligned
  <2>4. Holds(at, old')
    <3>1. ASSUME NEW o \in 0 .. (Seg - 1) PROVE at[cur.base + o] = cur.lsn + o
      <4>1. CASE o < cur.end
        <5>1. o \in 0 .. (cur.end - 1)
          BY <1>1, <4>1
        <5>. QED
          BY <1>3, <5>1 DEF Holds
      <4>2. CASE ~(o < cur.end)
        <5>1. i.pos = cur.end + i.joined /\ i.pos > Seg /\ i.lsn = cur.lsn + cur.end
          BY <1>5 DEF Wraps
        <5>2. Bgn(i) = cur.base + cur.end
          <6>1. Bgn(i) = i.oldEnd /\ i.oldEnd = Ends(cur).base + Ends(cur).end
            BY <1>5, FollowsPlace
          <6>. QED
            BY <6>1
        <5>3. PICK x \in 0 .. (i.joined - 1) : o = cur.end + x
          <6>1. o - cur.end \in 0 .. (i.joined - 1) /\ o = cur.end + (o - cur.end)
            BY <1>1, <4>2, <5>1
          <6>. QED
            BY <6>1
        <5>4. at[Bgn(i) + x] = i.lsn + x
          BY DEF HoldsGroup
        <5>5. Bgn(i) + x = cur.base + o /\ i.lsn + x = cur.lsn + o
          BY <1>1, <5>1, <5>2, <5>3
        <5>. QED
          BY <5>4, <5>5
      <4>. QED
        BY <4>1, <4>2
    <3>. QED
      BY <2>2, <3>1 DEF Holds
  <2>5. file(cur.lsn + Seg) = file(cur.lsn)
    <3>1. PICK o \in 0 .. Seg : o = Seg
      BY <1>1
    <3>2. file(cur.lsn + o) = file(cur.lsn)
      BY <1>1, <1>3, InEpoch DEF Aligned
    <3>. QED
      BY <3>1, <3>2
  <2>6. cur.start <= Seg
    BY <1>1, <1>3 DEF Aligned
  <2>7. file(old'.lsn) = file(cur'.lsn) /\ cur'.lsn = old'.lsn + Seg
    BY <2>1, <2>2, <2>5
  <2>8. /\ cur'.start <= cur'.end /\ old'.start <= old'.end /\ old'.base + Seg = cur'.base
    BY <1>1, <1>2, <2>1, <2>2, <2>6
  <2>. QED
    BY <2>1, <2>2, <2>3, <2>4, <2>7, <2>8 DEF EpochInv, Holds, Aligned, file, lo
<1>6. CASE Opens(Ends(cur), i) /\ old' = cur
  <2>0. i.newBase = cur.base + Seg
    BY <1>6 DEF Opens
  <2>1. ~Goes(Ends(cur), i)
    BY <1>1, <2>0 DEF Goes
  <2>2. cur'.lsn = i.lsn /\ cur'.base = cur.base + Seg /\ cur'.start = 0 /\ cur'.end > 0
    BY <1>2, <1>6, <2>1, FollowsPlace
  <2>3. lo(cur'.lsn) = 0 /\ file(cur'.lsn) = file(cur.lsn) + 1 /\ file(cur.lsn) \in Nat
    <3>1. file(cur.lsn) \in Nat
      <4>1. PICK m : m = Data + Block
        OBVIOUS
      <4>. QED
        BY <1>1, <4>1, LsnParts
    <3>. QED
      BY <1>6, <2>2, <3>1 DEF Opens
  <2>4. file(old'.lsn) # file(cur'.lsn)
    BY <1>6, <2>3
  <2>5. cur'.start <= cur'.end /\ old'.start <= old'.end /\ old'.base + Seg = cur'.base
    BY <1>1, <1>2, <1>3, <1>6, <2>2
  <2>. QED
    BY <1>3, <1>6, <2>2, <2>3, <2>4, <2>5 DEF EpochInv, Holds, Aligned, file, lo
<1>. QED
  BY <1>4, <1>5, <1>6 DEF Enters

LEMMA InFlightGrows ==
  ASSUME TypeOK, TypeOK', NEW at, InFlight(at), SameFlush, start' = start, end' = end, durable' = durable, CurEnd <= CurEnd'
  PROVE  InFlight(at)'
<1>1. CurEnd \in Nat /\ CurEnd' \in Nat
  <2>1. CurEnd \in Nat
    BY EndTypes
  <2>2. cur' \in Span
    BY DEF TypeOK
  <2>3. CurEnd' = cur'.base + cur'.end
    BY DEF CurEnd
  <2>. QED
    BY <2>1, <2>2, <2>3 DEF Span
<1>2. /\ FlBase1' = FlBase1 /\ FlBase2' = FlBase2 /\ FlPos' = FlPos /\ One' = One /\ Two' = Two /\ Kept' = Kept
      /\ fl'.lsn = fl.lsn /\ fl'.upto = fl.upto /\ fl'.newStart = fl.newStart /\ fl'.start1 = fl.start1
      /\ fl'.end1 = fl.end1 /\ fl'.start2 = fl.start2
  BY DEF SameFlush, FlBase1, FlBase2, FlPos, One, Two, Kept, lo
<1>3. FlBase1 \in Nat /\ FlBase2 \in Nat
  BY DEF InFlight
<1>4. ASSUME NEW p \in One
      PROVE  /\ p \in 0 .. (Seg - 1) /\ Kept <= FlBase1 + p /\ FlBase1 + p < CurEnd'
             /\ at[FlBase1 + p] = fl.lsn + p - fl.start1
  <2>1. p \in 0 .. (Seg - 1) /\ Kept <= FlBase1 + p /\ FlBase1 + p < CurEnd /\ at[FlBase1 + p] = fl.lsn + p - fl.start1
    BY DEF InFlight
  <2>. QED
    BY <1>1, <1>3, <2>1
<1>5. ASSUME NEW p \in Two
      PROVE  /\ p \in 0 .. (Seg - 1) /\ Kept <= FlBase2 + p /\ FlBase2 + p < CurEnd'
             /\ at[FlBase2 + p] = fl.lsn + fl.end1 - fl.start1 + p - fl.start2
  <2>1. /\ p \in 0 .. (Seg - 1) /\ Kept <= FlBase2 + p /\ FlBase2 + p < CurEnd
        /\ at[FlBase2 + p] = fl.lsn + fl.end1 - fl.start1 + p - fl.start2
    BY DEF InFlight
  <2>. QED
    BY <1>1, <1>3, <2>1
<1>6. /\ FlBase1 \in Nat /\ FlBase1 % Seg = 0 /\ FlBase2 \in Nat /\ FlBase2 % Seg = 0
      /\ start <= FlPos /\ FlPos <= fl.newStart /\ Cut(at, durable, FlPos, fl.lsn)
      /\ fl.lsn <= fl.upto /\ fl.start1 <= fl.end1
  BY DEF InFlight
<1>7. Cut(at, durable, FlPos, fl.lsn)'
  BY <1>2, <1>6 DEF Cut, lo
<1>. QED
  BY <1>2, <1>4, <1>5, <1>6, <1>7, Zenon DEF InFlight

\* A flush that has not started yet, or is under way, while the end of the current epoch moves.
LEMMA FlushGrows ==
  ASSUME TypeOK, TypeOK', NEW at, FlushInv(at), fl' = fl, start' = start, end' = end, durable' = durable,
         flushing' = flushing, dpc' = dpc, CurEnd <= CurEnd', NextPos <= NextPos',
         \A d \in Nat : Cut(at, d, NextPos, NextLsn) => Cut(at, d, NextPos', NextLsn')
  PROVE  FlushInv(at)'
<1>1. /\ durable \in Nat /\ fl.upto \in Nat /\ fl.newStart \in Nat /\ start \in Nat /\ NextPos \in Nat /\ NextPos' \in Nat
  <2>1. durable \in Nat /\ fl.upto \in Nat /\ fl.newStart \in Nat /\ start \in Nat /\ NextPos \in Nat
    BY SpanTypes, EndTypes
  <2>2. cur' \in Span /\ old' \in Span
    BY DEF TypeOK
  <2>3. NextPos' = cur'.base + cur'.start \/ NextPos' = old'.base + old'.start
    BY DEF NextPos
  <2>4. NextPos' \in Nat
    BY <2>2, <2>3 DEF Span
  <2>. QED
    BY <2>1, <2>4
<1>2. SameFlush
  BY DEF SameFlush
<1>3. Idle => start' <= NextPos' /\ Cut(at, durable, NextPos, NextLsn)'
  <2>1. Idle => start <= NextPos /\ Cut(at, durable, NextPos', NextLsn')
    BY <1>1 DEF FlushInv
  <2>2. Idle => Cut(at, durable, NextPos, NextLsn)'
    BY <2>1 DEF Cut, lo
  <2>. QED
    BY <1>1, <2>1, <2>2
<1>4. ~Idle => start' <= fl'.newStart /\ fl'.newStart <= NextPos' /\ Cut(at, fl.upto, NextPos, NextLsn)'
  <2>1. ~Idle => start <= fl.newStart /\ fl.newStart <= NextPos /\ Cut(at, fl.upto, NextPos', NextLsn')
    BY <1>1 DEF FlushInv
  <2>2. ~Idle => Cut(at, fl.upto, NextPos, NextLsn)'
    BY <2>1 DEF Cut, lo
  <2>. QED
    BY <1>1, <2>1, <2>2
<1>5. dpc \in Flight => InFlight(at)'
  BY <1>2, InFlightGrows DEF FlushInv
<1>6. Idle' <=> Idle
  BY DEF Idle
<1>. QED
  BY <1>3, <1>4, <1>5, <1>6 DEF FlushInv, Flight

\* The line is shorter by one, and the rest of it stays as it is.
LEMMA ShownLine ==
  ASSUME BufferConstants, TypeOK, TypeOK', GroupInv, NEW at, Ghost(at), NEW t \in Thread, Update(t)
  PROVE  /\ Line = {1} \union Line' /\ Line' = 2 .. Len(expose) /\ First' = 2
         /\ expose' = expose /\ \A k \in 1 .. Len(expose) : Grp(k)' = Grp(k)
         /\ \A k \in Line' : Prev(k)' = Prev(k)
<1>1. /\ expose' = expose /\ info' = info /\ pc' = [pc EXCEPT ![t] = "hand over"]
  BY DEF Update, group, Go
<1>2. PICK i : i = Spot(info[my[t].slot])
  OBVIOUS
<1>3. /\ Grp(1) = i /\ 1 \in Line /\ ~Shown /\ First = 1 /\ SpotOK(i) /\ Follows(Ends(cur), i) /\ Enters(i)
      /\ EpochOK(Ends(cur)) /\ Aligned(Ends(cur))
      /\ Ends(cur).lsn = cur.lsn /\ Ends(cur).base = cur.base /\ Ends(cur).end = cur.end
  BY <1>2, UpdateIs DEF Ghost
<1>4. Shown'
  <2>1. pc \in [Thread -> PC]
    BY DEF TypeOK
  <2>. QED
    BY <1>1, <2>1 DEF Shown
<1>5. Len(expose) \in Nat
  BY LineIs
<1>6. First' = 2 /\ Line' = 2 .. Len(expose) /\ Line = 1 .. Len(expose)
  BY <1>1, <1>3, <1>4 DEF First, Line
<1>7. Line = {1} \union Line'
  BY <1>3, <1>5, <1>6
<1>8. \A k \in 1 .. Len(expose) : Grp(k)' = Grp(k)
  BY <1>1 DEF Grp, Spot
<1>9. Ends(cur)' = EpochOf(Grp(1))
  BY <1>3, EnteredEnds
<1>10. ASSUME NEW k \in Line' PROVE Prev(k)' = Prev(k)
  <2>1. k \in Nat /\ k # 1 /\ k - 1 \in 1 .. Len(expose)
    BY <1>5, <1>6, <1>10
  <2>2. Prev(k) = EpochOf(Grp(k - 1))
    BY <1>3, <2>1 DEF Prev
  <2>3. CASE k = 2
    BY <1>6, <1>9, <2>2, <2>3 DEF Prev
  <2>4. CASE k # 2
    <3>1. Grp(k - 1)' = Grp(k - 1)
      BY <1>8, <2>1
    <3>2. EpochOf(Grp(k - 1))' = EpochOf(Grp(k - 1))
      BY <3>1 DEF EpochOf, Bgn
    <3>3. Prev(k)' = EpochOf(Grp(k - 1))'
      BY <1>6, <2>4 DEF Prev
    <3>. QED
      BY <2>2, <3>2, <3>3
  <2>. QED
    BY <2>3, <2>4
<1>. QED
  BY <1>1, <1>6, <1>7, <1>8, <1>10

LEMMA UpdateRecords ==
  ASSUME BufferConstants, TypeOK, TypeOK', GroupInv, NEW at, Ghost(at), NEW t \in Thread, Update(t)
  PROVE  RecordInv'
<1>. USE DEF group, ends, epochs, disk
<1>1. /\ buf' = buf /\ tail' = tail /\ end' = end /\ bytes' = bytes /\ clr' = clr /\ info' = info
      /\ flushing' = flushing /\ durable' = durable /\ start' = start /\ kept' = kept
      /\ expose' = expose /\ my' = my /\ fl' = fl /\ dpc' = dpc /\ pc' = [pc EXCEPT ![t] = "hand over"]
  BY DEF Update, Go
<1>2. PICK i : i = Spot(info[my[t].slot])
  OBVIOUS
<1>3. /\ Grp(1) = i /\ 1 \in Line /\ SpotOK(i) /\ Follows(Ends(cur), i) /\ Enters(i)
      /\ EpochOK(Ends(cur)) /\ Aligned(Ends(cur))
      /\ Ends(cur).lsn = cur.lsn /\ Ends(cur).base = cur.base /\ Ends(cur).end = cur.end
  BY <1>2, UpdateIs DEF Ghost
<1>4. /\ cur'.lsn = EpochOf(i).lsn /\ CurLsn' = i.lsn + i.joined /\ CurLsn <= i.lsn
  BY <1>3, EnteredEnds
<1>5. /\ Line = {1} \union Line' /\ Line' = 2 .. Len(expose) /\ \A k \in 1 .. Len(expose) : Grp(k)' = Grp(k)
      /\ Len(expose) \in Nat
  BY ShownLine, LineIs
<1>6. i.lsn \in Nat /\ i.joined \in Nat /\ CurLsn \in Nat /\ cur.lsn \in Nat /\ cur.end \in Nat /\ Seg \in Nat \ {0}
  BY <1>3, EndTypes, SpanTypes, Sizes DEF SpotOK
<1>7. ASSUME NEW u \in Thread, RecordRight(u), Recorded(u) PROVE InLog(u)' /\ (RecEnd(u) <= i.lsn \/ i.lsn <= my[u].lsn)
  <2>0. my[u].lsn \in Nat /\ my[u].size \in Nat /\ RecEnd(u) \in Nat
    BY <1>7, LocalTypes DEF Recorded, RecEnd
  <2>1. RecEnd(u)' = RecEnd(u) /\ my' = my
    BY <1>1 DEF RecEnd
  <2>2. CASE RecEnd(u) <= CurLsn
    <3>1. RecEnd(u) <= i.lsn
      BY <1>4, <1>6, <2>0, <2>2
    <3>2. RecEnd(u)' <= CurLsn'
      BY <1>4, <1>6, <2>0, <2>1, <3>1
    <3>. QED
      BY <3>1, <3>2 DEF InLog
  <2>3. ASSUME NEW k \in Line, Grp(k).lsn <= my[u].lsn, RecEnd(u) <= Grp(k).lsn + Grp(k).joined
        PROVE  InLog(u)' /\ i.lsn <= my[u].lsn
    <3>1. CASE k = 1
      <4>1. RecEnd(u)' <= CurLsn' /\ i.lsn <= my[u].lsn
        BY <1>3, <1>4, <2>1, <2>3, <3>1
      <4>. QED
        BY <4>1 DEF InLog
    <3>2. CASE k # 1
      <4>1. k \in Line' /\ Grp(k)' = Grp(k) /\ 1 < k
        BY <1>5, <3>2
      <4>2. Ordered(1, k)
        BY <1>3, <4>1 DEF Ghost, LineInv
      <4>3. Grp(k).lsn \in Nat
        <5>1. SpotOK(Grp(k))
          BY LineIs
        <5>. QED
          BY <5>1 DEF SpotOK
      <4>4. i.lsn <= my[u].lsn
        BY <1>3, <1>6, <2>0, <2>3, <4>2, <4>3 DEF Ordered
      <4>5. InLog(u)'
        BY <2>1, <2>3, <4>1 DEF InLog
      <4>. QED
        BY <4>4, <4>5
    <3>. QED
      BY <3>1, <3>2
  <2>. QED
    BY <1>7, <2>2, <2>3 DEF RecordRight, InLog
<1>8. ASSUME NEW u \in Thread, RecordRight(u), Recorded(u), lo(cur'.lsn) = 0 PROVE Whole(u, cur'.lsn)
  <2>1. CASE Goes(Ends(cur), i)
    <3>1. cur'.lsn = cur.lsn
      BY <1>3, <1>4, <2>1, FollowsPlace
    <3>. QED
      BY <1>8, <3>1 DEF RecordRight
  <2>2. CASE Wraps(Ends(cur), i)
    <3>1. cur'.lsn = cur.lsn + Seg
      BY <1>3, <1>4, <2>2, FollowsPlace
    <3>2. lo(cur.lsn + Seg) = lo(cur.lsn) + Seg
      <4>1. PICK o \in 0 .. Seg : o = Seg
        BY <1>6
      <4>2. lo(cur.lsn + o) = lo(cur.lsn) + o
        BY <1>3, <1>6, InEpoch DEF Ghost, EndsInv, Aligned
      <4>. QED
        BY <4>1, <4>2
    <3>3. lo(cur.lsn) \in Nat
      <4>1. PICK m : m = Data + Block
        OBVIOUS
      <4>2. lo(cur.lsn) \in 0 .. m - 1
        BY <1>6, <4>1, LsnParts
      <4>. QED
        BY <4>2
    <3>. QED
      BY <1>6, <1>8, <3>1, <3>2, <3>3
  <2>3. CASE Opens(Ends(cur), i)
    <3>1. cur'.lsn = i.lsn
      BY <1>3, <1>4, <2>3, FollowsPlace
    <3>2. RecEnd(u) <= i.lsn \/ i.lsn <= my[u].lsn
      BY <1>7, <1>8
    <3>. QED
      BY <3>1, <3>2 DEF Whole
  <2>. QED
    BY <1>3, <2>1, <2>2, <2>3 DEF Enters
<1>9. ASSUME NEW u \in Thread, RecordRight(u), Recorded(u) PROVE RecordRight(u)'
  <2>1. InLog(u)'
    BY <1>7, <1>9
  <2>2. lo(cur'.lsn) = 0 => Whole(u, cur'.lsn)
    BY <1>8, <1>9
  <2>. QED
    BY <1>1, <1>9, <2>1, <2>2 DEF RecordRight, RecEnd, Whole, Where, lo
<1>10. pc \in [Thread -> PC] /\ RecordInv
  BY DEF TypeOK, Ghost
<1>. QED
  BY <1>1, <1>9, <1>10 DEF RecordInv, Recorded

LEMMA UpdateLine ==
  ASSUME BufferConstants, TypeOK, TypeOK', GroupInv, NEW at, Ghost(at), NEW t \in Thread, Update(t)
  PROVE  EndsInv(at)' /\ LineInv(at)'
<1>. USE DEF group, ends, epochs, disk
<1>1. /\ buf' = buf /\ tail' = tail /\ end' = end /\ expose' = expose
  BY DEF Update
<1>2. PICK i : i = Spot(info[my[t].slot])
  OBVIOUS
<1>3. /\ Grp(1) = i /\ 1 \in Line /\ First = 1 /\ SpotOK(i) /\ Follows(Ends(cur), i) /\ Enters(i)
      /\ EpochOK(Ends(cur)) /\ Aligned(Ends(cur))
      /\ Ends(cur).lsn = cur.lsn /\ Ends(cur).base = cur.base /\ Ends(cur).end = cur.end
  BY <1>2, UpdateIs DEF Ghost
<1>4. /\ cur'.lsn = EpochOf(i).lsn /\ cur'.base = EpochOf(i).base /\ cur'.end = EpochOf(i).end
      /\ Ends(cur)' = EpochOf(i)
      /\ CurEnd' = Fin(i) /\ CurLsn' = i.lsn + i.joined
  BY <1>3, EnteredEnds
<1>5. /\ Line = {1} \union Line' /\ Line' = 2 .. Len(expose) /\ First' = 2 /\ Len(expose) \in Nat
      /\ \A k \in 1 .. Len(expose) : Grp(k)' = Grp(k)
      /\ \A k \in Line' : Prev(k)' = Prev(k)
  BY ShownLine, LineIs
<1>6. EndsInv(at) /\ LineInv(at)
  BY DEF Ghost
<1>7. LineRight(at, 1)
  BY <1>3, <1>6 DEF LineInv
<1>8. Aligned(cur')
  <2>1. Aligned(EpochOf(i))
    BY <1>3, FollowsAligned
  <2>. QED
    BY <1>4, <2>1 DEF Aligned
<1>9. Holds(at, cur')
  <2>1. Holds(at, Ends(cur)) /\ HoldsGroup(at, i)
    BY <1>3, <1>6, <1>7 DEF EndsInv, Holds, LineRight
  <2>2. Holds(at, EpochOf(i))
    BY <1>3, <2>1, HoldsNext
  <2>. QED
    BY <1>4, <2>2 DEF Holds
<1>10. CurEnd' <= end /\ CurLsn' <= tail
  BY <1>3, <1>4, <1>7 DEF LineRight
<1>11. Ends(buf) = IF First' > Len(expose) THEN Ends(cur)' ELSE EpochOf(Grp(Len(expose)))
  <2>1. Ends(buf) = EpochOf(Grp(Len(expose)))
    <3>1. ~(First > Len(expose))
      BY <1>3, <1>5 DEF Line
    <3>. QED
      BY <1>6, <3>1 DEF EndsInv
  <2>2. CASE Len(expose) = 1
    BY <1>3, <1>4, <1>5, <2>1, <2>2
  <2>3. CASE Len(expose) # 1
    <3>1. ~(First' > Len(expose))
      <4>1. PICK n \in Nat : n = Len(expose)
        BY <1>5
      <4>2. 1 \in First .. n
        BY <1>3, <4>1 DEF Line
      <4>3. ~(2 > n)
        BY <1>3, <2>3, <4>1, <4>2
      <4>. QED
        BY <1>5, <4>1, <4>3
    <3>. QED
      BY <2>1, <3>1
  <2>. QED
    BY <2>2, <2>3
<1>12. EndsInv(at)'
  <2>1. 1 \in 1 .. Len(expose) /\ Len(expose) \in 1 .. Len(expose)
    BY <1>3, <1>5 DEF Line
  <2>2. EpochOf(Grp(Len(expose)))' = EpochOf(Grp(Len(expose)))
    <3>1. Grp(Len(expose))' = Grp(Len(expose))
      <4>1. PICK k \in 1 .. Len(expose) : k = Len(expose)
        BY <2>1
      <4>2. Grp(k)' = Grp(k)
        BY <1>5
      <4>. QED
        BY <1>1, <4>1, <4>2 DEF Grp
    <3>. QED
      BY <3>1 DEF EpochOf, Bgn
  <2>3. Ends(buf)' = IF First' > Len(expose') THEN Ends(cur)' ELSE EpochOf(Grp(Len(expose)))'
    BY <1>1, <1>11, <2>2 DEF Ends
  <2>4. Aligned(cur)' /\ Holds(at, cur)' /\ Aligned(buf)'
    BY <1>1, <1>6, <1>8, <1>9 DEF Aligned, Holds, EndsInv, lo
  <2>. QED
    BY <1>1, <1>6, <1>10, <2>3, <2>4 DEF EndsInv
<1>13. ASSUME NEW k \in Line' PROVE LineRight(at, k)' /\ \A j \in Line' : j < k => Ordered(j, k)'
  <2>1. k \in Line /\ 1 < k /\ k \in 1 .. Len(expose) /\ Grp(k)' = Grp(k)
    BY <1>5
  <2>2. LineRight(at, k) /\ \A j \in Line : j < k => Ordered(j, k)
    BY <1>6, <2>1 DEF LineInv
  <2>3. Ordered(1, k)
    BY <1>3, <2>1, <2>2
  <2>4. CurEnd' <= Grp(k).oldEnd /\ CurLsn' <= Grp(k).lsn
    BY <1>3, <1>4, <2>3 DEF Ordered
  <2>5. Prev(k)' = Prev(k)
    BY <1>5
  <2>6. LineRight(at, k)'
    BY <1>1, <2>1, <2>2, <2>4, <2>5 DEF LineRight, Follows, Placed, HoldsGroup, Bgn, Fin, lo, file
  <2>7. ASSUME NEW j \in Line', j < k PROVE Ordered(j, k)'
    <3>1. j \in Line /\ Grp(j)' = Grp(j)
      BY <1>5
    <3>. QED
      BY <2>1, <2>2, <2>7, <3>1 DEF Ordered, Fin, Bgn
  <2>. QED
    BY <2>6, <2>7
<1>14. LineInv(at)'
  BY <1>13 DEF LineInv
<1>. QED
  BY <1>12, <1>14

LEMMA UpdateGhost ==
  ASSUME BufferConstants, TypeOK, TypeOK', GroupInv, NEW at, Ghost(at), NEW t \in Thread, Update(t)
  PROVE  Ghost(at)'
<1>. USE DEF group, ends, epochs, disk
<1>0. /\ AtInv(at) /\ EndsInv(at) /\ LineInv(at) /\ BytesInv(at) /\ EpochInv(at) /\ FlushInv(at)
      /\ RecordInv /\ ClrInv(at)
  BY DEF Ghost
<1>1. /\ buf' = buf /\ tail' = tail /\ end' = end /\ bytes' = bytes /\ clr' = clr /\ info' = info
      /\ flushing' = flushing /\ durable' = durable /\ start' = start /\ kept' = kept
      /\ expose' = expose /\ my' = my /\ fl' = fl /\ dpc' = dpc /\ pc' = [pc EXCEPT ![t] = "hand over"]
  BY DEF Update, Go
<1>2. PICK i : i = Spot(info[my[t].slot])
  OBVIOUS
<1>3. /\ Grp(1) = i /\ 1 \in Line /\ SpotOK(i) /\ Follows(Ends(cur), i) /\ Enters(i)
      /\ EpochOK(Ends(cur)) /\ Aligned(Ends(cur))
      /\ Ends(cur).lsn = cur.lsn /\ Ends(cur).base = cur.base /\ Ends(cur).end = cur.end
  BY <1>0, <1>2, UpdateIs
<1>4. CurEnd <= CurEnd'
  BY <1>3, EnteredEnds
<1>5. HoldsGroup(at, i) /\ Fin(i) <= end
  BY <1>0, <1>3 DEF LineInv, LineRight
<1>6. AtInv(at)'
  BY <1>0, <1>1, AtFrame
<1>7. EndsInv(at)' /\ LineInv(at)'
  BY UpdateLine
<1>8. EpochInv(at)'
  BY <1>3, <1>5, UpdateEpochs
<1>9. FlushInv(at)'
  <2>1. NextPos <= NextPos' /\ \A d \in Nat : Cut(at, d, NextPos, NextLsn) => Cut(at, d, NextPos', NextLsn')
    BY <1>3, <1>5, UpdateNext
  <2>. QED
    BY <1>0, <1>1, <1>4, <2>1, FlushGrows
<1>10. BytesInv(at)'
  <2>1. ASSUME NEW u \in Thread, Copies(u) PROVE Copies(u)' /\ Target(u)' = Target(u)
    <3>1. pc[t] # "copy"
      BY DEF Update
    <3>2. u # t
      BY <2>1, <3>1 DEF Copies
    <3>3. pc'[u] = pc[u]
      BY <1>1, <3>2 DEF TypeOK
    <3>. QED
      BY <1>1, <2>1, <3>3 DEF Copies, Lined, Target, Part, Bgn, Spot
  <2>2. durable' \in Nat /\ durable <= durable'
    <3>1. durable \in Nat
      BY EndTypes
    <3>2. durable' = durable
      BY <1>1
    <3>3. \A d \in Nat : d <= d
      OBVIOUS
    <3>. QED
      BY <3>1, <3>2, <3>3, Zenon
  <2>. QED
    BY <1>0, <1>1, <2>1, <2>2, BytesFrame
<1>11. RecordInv'
  BY UpdateRecords
<1>12. ClrInv(at)'
  BY <1>0, <1>1 DEF ClrInv
<1>. QED
  BY <1>6, <1>7, <1>8, <1>9, <1>10, <1>11, <1>12 DEF Ghost

-----------------------------------------------------------------------------
(***************************************************************************)
(* The first group leaves the line.                                        *)
(***************************************************************************)
LEMMA HandOverSpots ==
  ASSUME BufferConstants, TypeOK, GroupInv, NEW t \in Thread, HandOver(t), NEW s, s = my[t].slot
  PROVE  /\ s \in Slot /\ expose[1] = s /\ Rest(s) = {}
         /\ \A x \in Slot : x # s => Spot(info[x])' = Spot(info[x]) /\ (Lined(x)' <=> Lined(x))
         /\ my'[t].lsn = my[t].lsn /\ my'[t].size = my[t].size /\ pc'[t] \in {"update", "out"}
         /\ \A u \in Thread : u # t => my'[u] = my[u] /\ pc'[u] = pc[u]
<1>1. s \in Slot /\ info \in [Slot -> Info] /\ my \in [Thread -> Local] /\ pc \in [Thread -> PC] /\ pc[t] = "hand over"
  BY LocalTypes DEF TypeOK, HandOver
<1>2. Owner(t) /\ OwnerRight(t) /\ expose[1] = s /\ Rest(s) = {}
  BY <1>1 DEF Owner, GroupInv, OwnerInv, OwnerRight
<1>3. PICK r \in Local : r = my[t]
  BY <1>1
<1>4. CASE /\ info' = [info EXCEPT ![s] = NewInfo("unused")]
           /\ my' = [my EXCEPT ![t].slot = expose[2]] /\ pc' = [pc EXCEPT ![t] = "update"]
  <2>1. \A x \in Slot : x # s => info'[x] = info[x]
    BY <1>1, <1>4
  <2>2. my'[t] = [r EXCEPT !.slot = expose[2]]
    BY <1>1, <1>3, <1>4
  <2>3. my'[t].lsn = my[t].lsn /\ my'[t].size = my[t].size
    BY <1>3, <2>2 DEF Local
  <2>. QED
    BY <1>1, <1>2, <1>4, <2>1, <2>3 DEF Spot, Lined
<1>5. CASE /\ info' = [i \in Slot |-> IF i = s THEN NewInfo("unused")
                                      ELSE IF i \in Next_in_line THEN [info[i] EXCEPT !.state = "go"] ELSE info[i]]
           /\ my' = [my EXCEPT ![t] = Returned(@, @.lsn, @.size)] /\ pc' = [pc EXCEPT ![t] = "out"]
  <2>1. ASSUME NEW x \in Slot, x # s PROVE Spot(info[x])' = Spot(info[x]) /\ (Lined(x)' <=> Lined(x))
    <3>1. PICK i \in Info : i = info[x]
      BY <1>1
    <3>2. info'[x] = [i EXCEPT !.state = "go"] \/ info'[x] = i
      BY <1>5, <2>1, <3>1
    <3>3. /\ info'[x].count = i.count /\ info'[x].error = i.error /\ info'[x].joined = i.joined
          /\ info'[x].lsn = i.lsn /\ info'[x].oldEnd = i.oldEnd /\ info'[x].startPos = i.startPos
          /\ info'[x].pos = i.pos /\ info'[x].newEnd = i.newEnd /\ info'[x].newBase = i.newBase
      BY <3>2 DEF Info
    <3>. QED
      BY <3>1, <3>3 DEF Spot, Lined
  <2>2. my'[t] = Returned(r, r.lsn, r.size)
    BY <1>1, <1>3, <1>5
  <2>3. Returned(r, r.lsn, r.size).lsn = r.lsn /\ Returned(r, r.lsn, r.size).size = r.size
    <3>1. PICK l \in Nat \union {-1}, z \in Nat : l = r.lsn /\ z = r.size
      BY DEF Local
    <3>2. Returned(r, l, z).lsn = l /\ Returned(r, l, z).size = z
      BY ReturnedType
    <3>. QED
      BY <3>1, <3>2
  <2>4. my'[t].lsn = my[t].lsn /\ my'[t].size = my[t].size
    BY <1>3, <2>2, <2>3
  <2>. QED
    BY <1>1, <1>2, <1>5, <2>1, <2>4
<1>. QED
  BY <1>4, <1>5 DEF HandOver, Go

\* The line without the group that was shown: all the others, one place on.
Shifts ==
  /\ First = 2 /\ First' = 1 /\ Line = 2 .. Len(expose) /\ Len(expose) \in Nat \ {0} /\ Len(expose') = Len(expose) - 1
  /\ \A j \in 1 .. (Len(expose) - 1) : Grp(j)' = Grp(j + 1) /\ Prev(j)' = Prev(j + 1)

LEMMA HandOverLine ==
  ASSUME BufferConstants, TypeOK, GroupInv, NEW t \in Thread, HandOver(t)
  PROVE  Shifts
<1>1. PICK s \in Slot : s = my[t].slot
  BY LocalTypes
<1>2. /\ expose[1] = s
      /\ \A x \in Slot : x # s => Spot(info[x])' = Spot(info[x])
      /\ pc'[t] \in {"update", "out"} /\ \A u \in Thread : u # t => pc'[u] = pc[u]
  BY <1>1, HandOverSpots
<1>3. pc[t] = "hand over" /\ expose' = Tail(expose) /\ cur' = cur
  BY DEF HandOver, epochs
<1>4. Len(expose) \in Nat \ {0} /\ DOMAIN expose = 1 .. Len(expose) /\ expose \in Seq(Slot)
      /\ \A k \in 1 .. Len(expose) : expose[k] \in Slot
  <2>1. Owner(t)
    BY <1>3 DEF Owner
  <2>. QED
    BY <2>1, HasHead DEF TypeOK
<1>5. Len(expose') = Len(expose) - 1 /\ \A j \in 1 .. (Len(expose) - 1) : expose'[j] = expose[j + 1]
  <2>1. PICK q \in Seq(Slot) : q = expose
    BY <1>4
  <2>2. Len(q) \in Nat \ {0}
    BY <1>4, <2>1
  <2>3. Len(Tail(q)) = Len(q) - 1 /\ \A j \in 1 .. (Len(q) - 1) : Tail(q)[j] = q[j + 1]
    BY <2>2
  <2>. QED
    BY <1>3, <2>1, <2>3
<1>6. Shown /\ ~Shown'
  <2>1. SUFFICES ASSUME NEW u \in Thread, u # t, pc[u] = "hand over" PROVE FALSE
    BY <1>2, <1>3 DEF Shown
  <2>2. Owner(u) /\ Owner(t)
    BY <1>3, <2>1 DEF Owner
  <2>3. OwnerRight(u) /\ OwnerRight(t)
    BY <2>2 DEF GroupInv, OwnerInv
  <2>4. expose[1] = my[u].slot
    BY <2>1, <2>3 DEF OwnerRight
  <2>5. my[u].slot = my[t].slot
    BY <1>1, <1>2, <2>4
  <2>6. u = t
    BY <2>2, <2>3, <2>5 DEF OwnerRight
  <2>. QED
    BY <2>1, <2>6
<1>7. First = 2 /\ First' = 1 /\ Line = 2 .. Len(expose)
  BY <1>6 DEF First, Line
<1>8. ASSUME NEW j \in 1 .. (Len(expose) - 1) PROVE Grp(j)' = Grp(j + 1)
  <2>1. j + 1 \in 1 .. Len(expose) /\ 1 \in 1 .. Len(expose) /\ j + 1 # 1
    BY <1>4, <1>8
  <2>2. PICK x \in Slot : x = expose[j + 1]
    BY <1>4, <2>1
  <2>3. x # s
    <3>1. \A a, b \in DOMAIN expose : expose[a] = expose[b] => a = b
      BY DEF GroupInv, QueueInv
    <3>. QED
      BY <1>2, <1>4, <2>1, <2>2, <3>1
  <2>4. expose'[j] = x
    BY <1>5, <1>8, <2>2
  <2>5. Spot(info[x])' = Spot(info[x])
    BY <1>2, <2>3
  <2>. QED
    BY <2>2, <2>4, <2>5 DEF Grp, Spot
<1>9. ASSUME NEW j \in 1 .. (Len(expose) - 1) PROVE Prev(j)' = Prev(j + 1)
  <2>1. CASE j = 1
    <3>1. Prev(j)' = Ends(cur)'
      BY <1>7, <2>1 DEF Prev
    <3>2. Prev(j + 1) = Ends(cur)
      BY <1>7, <2>1 DEF Prev
    <3>. QED
      BY <1>3, <3>1, <3>2 DEF Ends
  <2>2. CASE j # 1
    <3>1. PICK h \in 1 .. (Len(expose) - 1) : h = j - 1
      BY <1>4, <1>9, <2>2
    <3>2. h + 1 = j /\ (j + 1) - 1 = j /\ j + 1 # 2
      BY <1>9, <2>2, <3>1
    <3>3. Grp(h)' = Grp(j)
      BY <1>8, <3>2
    <3>4. Prev(j)' = EpochOf(Grp(h))'
      BY <1>7, <2>2, <3>1 DEF Prev
    <3>5. EpochOf(Grp(h))' = EpochOf(Grp(j))
      BY <3>3 DEF EpochOf, Bgn
    <3>6. Prev(j + 1) = EpochOf(Grp(j))
      BY <1>7, <3>2 DEF Prev
    <3>. QED
      BY <3>4, <3>5, <3>6
  <2>. QED
    BY <2>1, <2>2
<1>. QED
  BY <1>4, <1>5, <1>7, <1>8, <1>9 DEF Shifts

LEMMA ShiftedLine ==
  ASSUME NEW at, EndsInv(at), LineInv(at), Shifts, buf' = buf, cur' = cur, end' = end, tail' = tail
  PROVE  EndsInv(at)' /\ LineInv(at)' /\ \A k \in Line : \E j \in Line' : Grp(j)' = Grp(k)
<1>1. PICK n \in Nat \ {0} : n = Len(expose)
  BY DEF Shifts
<1>2. First = 2 /\ First' = 1 /\ Line = 2 .. n /\ Line' = 1 .. (n - 1) /\ Len(expose') = n - 1
  BY <1>1 DEF Shifts, Line
<1>3. \A j \in 1 .. (n - 1) : Grp(j)' = Grp(j + 1) /\ Prev(j)' = Prev(j + 1)
  BY <1>1 DEF Shifts
<1>4. EndsInv(at)'
  <2>1. CASE n = 1
    <3>1. Ends(buf) = Ends(cur)
      BY <1>1, <1>2, <2>1 DEF EndsInv
    <3>2. First' > Len(expose')
      BY <1>2, <2>1
    <3>. QED
      BY <3>1, <3>2 DEF EndsInv, Ends, Aligned, Holds, CurEnd, CurLsn, lo
  <2>2. CASE n # 1
    <3>1. PICK h \in 1 .. (n - 1) : h = n - 1
      BY <2>2
    <3>2. Grp(h)' = Grp(n)
      <4>1. h + 1 = n
        BY <3>1
      <4>. QED
        BY <1>3, <4>1
    <3>3. Ends(buf) = EpochOf(Grp(n))
      <4>1. ~(First > Len(expose))
        BY <1>1, <1>2, <2>2
      <4>. QED
        BY <1>1, <4>1 DEF EndsInv
    <3>4. EpochOf(Grp(h))' = EpochOf(Grp(n))
      BY <3>2 DEF EpochOf, Bgn
    <3>5. ~(First' > Len(expose')) /\ Len(expose') = h
      BY <1>2, <3>1
    <3>6. EpochOf(Grp(Len(expose)))' = EpochOf(Grp(n))
      BY <3>4, <3>5 DEF Grp
    <3>. QED
      BY <3>3, <3>5, <3>6 DEF EndsInv, Ends, Aligned, Holds, CurEnd, CurLsn, lo
  <2>. QED
    BY <2>1, <2>2
<1>5. ASSUME NEW k \in Line' PROVE LineRight(at, k)' /\ \A j \in Line' : j < k => Ordered(j, k)'
  <2>1. k \in 1 .. (n - 1) /\ k + 1 \in Line /\ Grp(k)' = Grp(k + 1) /\ Prev(k)' = Prev(k + 1)
    BY <1>2, <1>3
  <2>2. LineRight(at, k + 1) /\ \A j \in Line : j < k + 1 => Ordered(j, k + 1)
    BY <2>1 DEF LineInv
  <2>3. LineRight(at, k)'
    BY <2>1, <2>2 DEF LineRight, Follows, Placed, HoldsGroup, Bgn, Fin, CurEnd, CurLsn, lo, file
  <2>4. ASSUME NEW j \in Line', j < k PROVE Ordered(j, k)'
    <3>1. j \in 1 .. (n - 1) /\ j + 1 \in Line /\ Grp(j)' = Grp(j + 1) /\ j + 1 < k + 1
      BY <1>2, <1>3, <2>1, <2>4
    <3>2. Ordered(j + 1, k + 1)
      BY <2>2, <3>1
    <3>. QED
      BY <2>1, <3>1, <3>2 DEF Ordered, Fin, Bgn
  <2>. QED
    BY <2>3, <2>4
<1>6. LineInv(at)'
  BY <1>5 DEF LineInv
<1>7. ASSUME NEW k \in Line PROVE \E j \in Line' : Grp(j)' = Grp(k)
  <2>1. PICK j \in 1 .. (n - 1) : k = j + 1
    <3>1. k - 1 \in 1 .. (n - 1) /\ k = (k - 1) + 1
      BY <1>2
    <3>. QED
      BY <3>1
  <2>. QED
    BY <1>2, <1>3, <2>1
<1>. QED
  BY <1>4, <1>6, <1>7

LEMMA HandOverGhost ==
  ASSUME BufferConstants, TypeOK, TypeOK', GroupInv, NEW at, Ghost(at), NEW t \in Thread, HandOver(t)
  PROVE  Ghost(at)'
<1>. USE DEF group, ends, epochs, disk
<1>0. /\ AtInv(at) /\ EndsInv(at) /\ LineInv(at) /\ BytesInv(at) /\ EpochInv(at) /\ FlushInv(at)
      /\ RecordInv /\ ClrInv(at)
  BY DEF Ghost
<1>1. /\ buf' = buf /\ tail' = tail /\ end' = end /\ bytes' = bytes /\ clr' = clr
      /\ cur' = cur /\ old' = old
      /\ flushing' = flushing /\ durable' = durable /\ start' = start /\ kept' = kept
      /\ fl' = fl /\ dpc' = dpc
  BY DEF HandOver
<1>2. PICK s \in Slot : s = my[t].slot
  BY LocalTypes
<1>3. /\ Rest(s) = {}
      /\ \A x \in Slot : x # s => Spot(info[x])' = Spot(info[x]) /\ (Lined(x)' <=> Lined(x))
      /\ my'[t].lsn = my[t].lsn /\ my'[t].size = my[t].size /\ pc'[t] \in {"update", "out"}
      /\ \A u \in Thread : u # t => my'[u] = my[u] /\ pc'[u] = pc[u]
  BY <1>2, HandOverSpots
<1>4. EndsInv(at)' /\ LineInv(at)' /\ \A k \in Line : \E j \in Line' : Grp(j)' = Grp(k)
  <2>1. Shifts
    BY HandOverLine
  <2>. QED
    BY <1>0, <1>1, <2>1, ShiftedLine
<1>5. CurEnd' = CurEnd /\ CurLsn' = CurLsn
  BY <1>1 DEF CurEnd, CurLsn
<1>6. AtInv(at)'
  BY <1>0, <1>1, AtFrame
<1>7. EpochInv(at)' /\ NextPos' = NextPos /\ NextLsn' = NextLsn
  BY <1>0, <1>1, EpochFrame
<1>8. FlushInv(at)'
  <2>1. SameFlush
    BY <1>1 DEF SameFlush
  <2>. QED
    BY <1>0, <1>1, <1>5, <1>7, <2>1, FlushFrame
<1>9. BytesInv(at)'
  <2>1. ASSUME NEW u \in Thread, Copies(u) PROVE Copies(u)' /\ Target(u)' = Target(u)
    <3>1. Member(u) /\ pc[u] = "copy" /\ Lined(my[u].slot)
      BY <2>1 DEF Copies, Member
    <3>2. PICK x \in Slot : x = my[u].slot
      BY LocalTypes
    <3>3. x # s
      BY <1>3, <3>1, <3>2, NoMember
    <3>4. u # t
      <4>1. pc[t] = "hand over"
        BY DEF HandOver
      <4>. QED
        BY <3>1, <4>1
    <3>5. my'[u] = my[u] /\ pc'[u] = pc[u] /\ Spot(info[x])' = Spot(info[x]) /\ Lined(x)' 
      BY <1>3, <3>1, <3>2, <3>3, <3>4
    <3>6. Copies(u)'
      BY <3>1, <3>2, <3>5 DEF Copies, Lined
    <3>7. Spot(info[my[u].slot])' = Spot(info[my[u].slot])
      BY <3>2, <3>5 DEF Spot
    <3>8. Target(u)' = Target(u)
      BY <3>5, <3>7 DEF Target, Part, Bgn
    <3>. QED
      BY <3>6, <3>8
  <2>2. durable \in Nat
    BY EndTypes
  <2>3. durable' = durable /\ \A d \in Nat : d <= d
    BY <1>1
  <2>4. durable' \in Nat /\ durable <= durable'
    BY <2>2, <2>3, Zenon
  <2>. QED
    BY <1>0, <1>1, <2>1, <2>4, BytesFrame
<1>10. RecordInv'
  <2>1. ASSUME NEW u \in Thread PROVE my'[u].lsn = my[u].lsn /\ my'[u].size = my[u].size
    BY <1>3
  <2>2. ASSUME NEW u \in Thread, Recorded(u)' PROVE RecordRight(u)'
    <3>1. RecordRight(u)
      BY <1>0, <2>1, <2>2 DEF RecordInv, Recorded
    <3>2. InLog(u)'
      BY <1>4, <1>5, <2>1, <3>1, InLogFrame DEF RecordRight
    <3>. QED
      BY <1>1, <2>1, <3>1, <3>2, RecordFrame
  <2>3. ASSUME NEW u \in Thread, pc'[u] \in {"flush wait", "flush asleep"} PROVE Recorded(u)'
    <3>1. u # t
      BY <1>3, <2>3
    <3>. QED
      BY <1>0, <1>3, <2>3, <3>1 DEF RecordInv, Recorded
  <2>. QED
    BY <2>2, <2>3 DEF RecordInv
<1>11. ClrInv(at)'
  BY <1>0, <1>1 DEF ClrInv
<1>. QED
  BY <1>4, <1>6, <1>7, <1>8, <1>9, <1>10, <1>11 DEF Ghost

-----------------------------------------------------------------------------
(***************************************************************************)
(* The flush daemon.                                                       *)
(***************************************************************************)
LEMMA CutAt ==
  ASSUME TypeOK, NEW at, AtInv(at), NEW b \in 0 .. (end - 1), NEW l \in Nat, at[b] = l
  PROVE  Cut(at, l, b, l) /\ Cut(at, l + 1, b + 1, l + 1)
<1>1. ASSUME NEW a \in 0 .. (end - 1), a < b PROVE at[a] < l
  <2>1. a \in 0 .. (b - 1)
    BY <1>1
  <2>2. at[b] # -1
    OBVIOUS
  <2>. QED
    BY <2>1, <2>2, AtHas
<1>2. ASSUME NEW a \in 0 .. (end - 1), a > b PROVE at[a] = -1 \/ (at[a] \in Nat /\ l < at[a])
  <2>1. b \in 0 .. (a - 1)
    BY <1>2
  <2>. QED
    BY <2>1, AtHas
<1>3. ASSUME NEW a \in 0 .. (end - 1) PROVE IF a < b THEN at[a] < l ELSE at[a] = -1 \/ l <= at[a]
  BY <1>1, <1>2
<1>4. ASSUME NEW a \in 0 .. (end - 1) PROVE IF a < b + 1 THEN at[a] < l + 1 ELSE at[a] = -1 \/ l + 1 <= at[a]
  <2>1. CASE a < b
    <3>1. at[a] < l /\ (at[a] = -1 \/ at[a] \in Nat)
      BY <1>1, <2>1, AtHas
    <3>. QED
      BY <2>1, <3>1
  <2>2. CASE a = b
    BY <2>2
  <2>3. CASE a > b
    BY <1>2, <2>3
  <2>. QED
    BY <2>1, <2>2, <2>3
<1>. QED
  BY <1>3, <1>4 DEF Cut

\* An epoch that ends where its last byte is: the log up to there.
LEMMA CutEnd ==
  ASSUME TypeOK, NEW at, AtInv(at), EndsInv(at), cur.end > 0
  PROVE  Cut(at, CurLsn, CurEnd, CurLsn) /\ Cut(at, cur.lsn, cur.base, cur.lsn)
<1>1. /\ cur.end \in Nat \ {0} /\ cur.base \in Nat /\ cur.lsn \in Nat /\ end \in Nat /\ cur.base + cur.end <= end
      /\ Holds(at, cur)
  <2>1. cur.end \in Nat /\ cur.base \in Nat /\ cur.lsn \in Nat
    BY SpanTypes
  <2>2. end \in Nat
    BY EndTypes
  <2>3. Holds(at, cur) /\ cur.base + cur.end <= end
    BY DEF EndsInv, CurEnd
  <2>. QED
    BY <2>1, <2>2, <2>3
<1>2. PICK o \in 0 .. (cur.end - 1) : o = cur.end - 1
  BY <1>1
<1>3. PICK z \in 0 .. (cur.end - 1) : z = 0
  BY <1>1
<1>4. PICK b \in 0 .. (end - 1), l \in Nat : b = cur.base + o /\ l = cur.lsn + o
  BY <1>1
<1>5. at[b] = l
  BY <1>1, <1>4 DEF Holds
<1>6. Cut(at, l + 1, b + 1, l + 1)
  BY <1>5, CutAt
<1>7. l + 1 = CurLsn /\ b + 1 = CurEnd
  BY <1>1, <1>2, <1>4 DEF CurLsn, CurEnd
<1>8. PICK c \in 0 .. (end - 1), m \in Nat : c = cur.base + z /\ m = cur.lsn + z
  BY <1>1
<1>9. at[c] = m
  BY <1>1, <1>8 DEF Holds
<1>10. Cut(at, m, c, m)
  BY <1>9, CutAt
<1>11. m = cur.lsn /\ c = cur.base
  BY <1>1, <1>3, <1>8
<1>. QED
  BY <1>6, <1>7, <1>10, <1>11

\* What a flush is to read of an epoch, from the start of a block that holds a byte of it.
LEMMA ReadsEpoch ==
  ASSUME BufferConstants, TypeOK, NEW at, NEW e, e.lsn \in Nat, e.base \in Nat, e.end \in Nat, Aligned(e), Holds(at, e),
         NEW s \in Nat, s <= e.end, start <= e.base + s, NEW d, d = lo(e.lsn + s) % Block,
         NEW p \in (s - d) .. (e.end - 1)
  PROVE  p \in 0 .. (Seg - 1) /\ Kept <= e.base + p /\ at[e.base + p] = e.lsn + p /\ e.base + p < e.base + e.end
<1>1. /\ Seg \in Nat \ {0} /\ Block \in Nat \ {0} /\ start \in Nat /\ s <= Seg /\ e.end <= Seg
      /\ lo(e.lsn) % Seg = 0 /\ lo(e.lsn) + Seg <= Data /\ e.base % Seg = 0
  BY Sizes, EndTypes DEF Aligned
<1>2. d = s % Block
  <2>1. PICK o \in 0 .. Seg : o = s
    BY <1>1
  <2>2. lo(e.lsn + o) % Block = o % Block
    BY <1>1, InEpoch
  <2>. QED
    BY <2>1, <2>2
<1>3. (e.base + s) % Block = d
  BY <1>1, <1>2, PlaceIs
<1>4. d \in 0 .. Block - 1 /\ d <= s
  <2>1. s \div Block \in Nat /\ s % Block \in 0 .. Block - 1 /\ s = Block * (s \div Block) + (s % Block)
    BY <1>1, DivMod
  <2>2. Block * (s \div Block) \in Nat
    BY <1>1, <2>1
  <2>. QED
    BY <1>2, <2>1, <2>2
<1>5. Kept <= e.base + s - d
  <2>1. PICK b \in Nat : b = e.base + s
    OBVIOUS
  <2>2. start - (start % Block) <= b - (b % Block)
    BY <1>1, <2>1, RoundDown
  <2>. QED
    BY <1>3, <2>1, <2>2 DEF Kept
<1>6. Kept \in Nat
  BY KeptIs
<1>7. p \in 0 .. (e.end - 1) /\ p >= s - d
  BY <1>4
<1>8. at[e.base + p] = e.lsn + p
  BY <1>7 DEF Holds
<1>9. Kept <= e.base + p
  BY <1>4, <1>5, <1>6, <1>7
<1>. QED
  BY <1>1, <1>7, <1>8, <1>9

LEMMA InFlightIs ==
  ASSUME NEW at, NEW b1 \in Nat, NEW b2 \in Nat, NEW l \in Nat, NEW s1 \in Nat, NEW e1 \in Nat,
         NEW s2 \in Nat, NEW e2 \in Nat, NEW u \in Nat, NEW ns \in Nat,
         fl'.lsn = l, fl'.start1 = s1, fl'.end1 = e1, fl'.start2 = s2, fl'.end2 = e2, fl'.upto = u, fl'.newStart = ns,
         start' = start, end' = end, durable' = durable, CurEnd' = CurEnd,
         b2 = ns - e2, b1 = (IF s1 = e1 THEN b2 ELSE b2 - Seg), b1 % Seg = 0, b2 % Seg = 0,
         start <= b1 + s1, b1 + s1 <= ns, Cut(at, durable, b1 + s1, l), l <= u, s1 <= e1,
         \A p \in (s1 - (lo(l) % Block)) .. (e1 - 1) :
           /\ p \in 0 .. (Seg - 1) /\ Kept <= b1 + p /\ b1 + p < CurEnd /\ at[b1 + p] = l + p - s1,
         \A p \in s2 .. (e2 - 1) :
           /\ p \in 0 .. (Seg - 1) /\ Kept <= b2 + p /\ b2 + p < CurEnd /\ at[b2 + p] = l + e1 - s1 + p - s2
  PROVE  InFlight(at)'
<1>1. FlBase2' = b2
  BY DEF FlBase2
<1>2. FlBase1' = b1
  BY <1>1 DEF FlBase1
<1>3. FlPos' = b1 + s1
  BY <1>2 DEF FlPos
<1>4. One' = (s1 - (lo(l) % Block)) .. (e1 - 1) /\ Two' = s2 .. (e2 - 1)
  BY DEF One, Two, lo
<1>5. Kept' = Kept
  BY DEF Kept
<1>6. Cut(at, durable, FlPos, fl.lsn)'
  BY <1>3 DEF Cut, lo
<1>. QED
  BY <1>1, <1>2, <1>3, <1>4, <1>5, <1>6, Zenon DEF InFlight

\* The two epochs are one after the other, and so are the lsns of what they have left.
LEMMA OldBefore ==
  ASSUME BufferConstants, TypeOK, NEW at, AtInv(at), EndsInv(at), EpochInv(at), ~Empty(old)
  PROVE  /\ old.lsn + old.start < cur.lsn /\ old.base + old.start < cur.base
         /\ \A o \in 0 .. (old.end - 1) : old.base + o < CurEnd
<1>1. /\ cur.end \in Nat /\ cur.base \in Nat /\ cur.lsn \in Nat /\ cur.start \in Nat
      /\ old.end \in Nat /\ old.base \in Nat /\ old.lsn \in Nat /\ old.start \in Nat
  BY SpanTypes
<1>2. /\ old.start <= old.end /\ old.start # old.end /\ Aligned(old) /\ Holds(at, old) /\ old.base + Seg = cur.base
      /\ cur.end > 0
  BY DEF EpochInv, Empty
<1>3. old.end <= Seg /\ Holds(at, cur) /\ CurEnd <= end /\ CurEnd = cur.base + cur.end
  BY <1>2 DEF Aligned, EndsInv, CurEnd
<1>4. end \in Nat
  BY EndTypes
<1>5. old.base + old.start < cur.base /\ \A o \in 0 .. (old.end - 1) : old.base + o < CurEnd
  <2>1. PICK s \in Nat : s = Seg
    BY Sizes
  <2>2. old.base + s = cur.base /\ old.end <= s
    BY <1>2, <1>3, <2>1
  <2>3. old.base + old.start < cur.base
    BY <1>1, <1>2, <2>1, <2>2
  <2>4. ASSUME NEW o \in 0 .. (old.end - 1)
        PROVE  old.base + o < CurEnd
    BY <1>1, <1>2, <1>3, <2>1, <2>2
  <2>. QED
    BY <2>3, <2>4
<1>6. PICK o \in 0 .. (old.end - 1), z \in 0 .. (cur.end - 1) : o = old.start /\ z = 0
  BY <1>1, <1>2
<1>7. PICK a \in 0 .. (end - 1), b \in 0 .. (end - 1) : a = cur.base + z /\ b = old.base + o /\ b < a
  BY <1>1, <1>2, <1>3, <1>4, <1>5, <1>6
<1>8. at[a] = cur.lsn + z /\ at[b] = old.lsn + o
  BY <1>2, <1>3, <1>7 DEF Holds
<1>9. at[b] < at[a]
  <2>1. b \in 0 .. (a - 1) /\ at[a] # -1
    BY <1>1, <1>6, <1>7, <1>8
  <2>. QED
    BY <1>7, <2>1 DEF AtInv
<1>. QED
  BY <1>1, <1>5, <1>6, <1>8, <1>9

\* The three ways to choose what is flushed.
OfOne == /\ Empty(old) /\ ~Empty(cur)
         /\ ToFlush(cur.lsn + cur.start, cur.start, cur.start, cur.start, cur.end, cur.lsn + cur.end)
         /\ cur' = [cur EXCEPT !.start = cur.end] /\ old' = old
OfBoth == /\ ~Empty(old) /\ file(old.lsn) = file(cur.lsn)
          /\ ToFlush(old.lsn + old.start, old.start, old.end, cur.start, cur.end, cur.lsn + cur.end)
          /\ cur' = [cur EXCEPT !.start = cur.end] /\ old' = [old EXCEPT !.start = old.end]
OfOld == /\ ~Empty(old) /\ file(old.lsn) # file(cur.lsn)
         /\ ToFlush(old.lsn + old.start, old.start, old.end, 0, 0, cur.lsn)
         /\ old' = [old EXCEPT !.start = old.end] /\ cur' = cur

\* What goes for all three.
Chosen(at) ==
  /\ Ends(cur)' = Ends(cur) /\ cur'.lsn = cur.lsn /\ CurEnd' = CurEnd /\ CurLsn' = CurLsn
  /\ EpochInv(at)' /\ InFlight(at)'
  /\ start <= fl'.newStart /\ fl'.newStart <= NextPos' /\ Cut(at, fl'.upto, NextPos', NextLsn')
  /\ fl'.upto = CurLsn \/ (fl'.upto = cur.lsn /\ lo(cur.lsn) = 0)

LEMMA FlushValues ==
  ASSUME TypeOK, NEW l, NEW s1, NEW e1, NEW s2, NEW e2, NEW u, ToFlush(l, s1, e1, s2, e2, u)
  PROVE  /\ fl'.lsn = l /\ fl'.start1 = s1 /\ fl'.end1 = e1 /\ fl'.start2 = s2 /\ fl'.end2 = e2 /\ fl'.upto = u
         /\ fl'.newStart = cur.base + e2
<1>1. PICK f \in Job : f = fl
  BY DEF TypeOK
<1>2. fl' = [f EXCEPT !.lsn = l, !.start1 = s1, !.end1 = e1, !.start2 = s2, !.end2 = e2,
                      !.upto = u, !.newStart = cur.base + e2]
  BY <1>1 DEF ToFlush
<1>. QED
  BY <1>2 DEF Job

LEMMA ChosenOne ==
  ASSUME BufferConstants, TypeOK, NEW at, Ghost(at), Idle, OfOne, start' = start, end' = end, durable' = durable
  PROVE  Chosen(at)
<1>1. AtInv(at) /\ EndsInv(at) /\ EpochInv(at) /\ start <= NextPos /\ Cut(at, durable, NextPos, NextLsn)
  BY DEF Ghost, FlushInv
<1>2. /\ cur.end \in Nat /\ cur.base \in Nat /\ cur.lsn \in Nat /\ cur.start \in Nat /\ cur \in Span
      /\ Seg \in Nat \ {0} /\ Block \in Nat \ {0} /\ start \in Nat
  BY SpanTypes, Sizes, EndTypes DEF TypeOK
<1>3. cur.start <= cur.end /\ cur.start # cur.end /\ Aligned(cur) /\ Holds(at, cur)
  BY <1>1 DEF OfOne, Empty, EpochInv, EndsInv
<1>4. NextPos = cur.base + cur.start /\ NextLsn = cur.lsn + cur.start
  BY DEF OfOne, NextPos, NextLsn
<1>5. cur'.lsn = cur.lsn /\ cur'.base = cur.base /\ cur'.end = cur.end /\ cur'.start = cur.end /\ old' = old
  BY <1>2 DEF OfOne, Span
<1>6. Ends(cur)' = Ends(cur) /\ CurEnd' = CurEnd /\ CurLsn' = CurLsn
  BY <1>5 DEF Ends, CurEnd, CurLsn
<1>7. CurEnd = cur.base + cur.end /\ CurLsn = cur.lsn + cur.end
  BY DEF CurEnd, CurLsn
<1>8. NextPos' = CurEnd /\ NextLsn' = CurLsn
  BY <1>5, <1>7 DEF OfOne, NextPos, NextLsn, Empty
<1>9. EpochInv(at)'
  <2>1. Empty(old') /\ cur'.start <= cur'.end /\ old'.start <= old'.end
    BY <1>1, <1>2, <1>5 DEF OfOne, EpochInv, Empty
  <2>. QED
    BY <2>1 DEF EpochInv, Empty
<1>10. /\ fl'.lsn = cur.lsn + cur.start /\ fl'.start1 = cur.start /\ fl'.end1 = cur.start /\ fl'.start2 = cur.start
       /\ fl'.end2 = cur.end /\ fl'.upto = CurLsn /\ fl'.newStart = CurEnd
  BY <1>7, FlushValues DEF OfOne
<1>11. PICK b \in Nat, l \in Nat, s \in Nat, e \in Nat, u \in Nat, ns \in Nat :
          b = cur.base /\ l = cur.lsn + cur.start /\ s = cur.start /\ e = cur.end /\ u = CurLsn /\ ns = CurEnd
  <2>1. PICK a \in Nat, c \in Nat, d \in Nat, f \in Nat : a = cur.base /\ c = cur.lsn /\ d = cur.start /\ f = cur.end
    BY <1>2
  <2>2. c + d \in Nat /\ c + f \in Nat /\ a + f \in Nat
    OBVIOUS
  <2>. QED
    BY <1>7, <2>1, <2>2, Zenon
<1>12. start <= cur.base + s
  BY <1>1, <1>4, <1>11
<1>13. ASSUME NEW p \in (s - (lo(l) % Block)) .. (e - 1)
       PROVE  p \in 0 .. (Seg - 1) /\ Kept <= b + p /\ b + p < CurEnd /\ at[b + p] = cur.lsn + p
  <2>1. PICK d : d = lo(cur.lsn + s) % Block
    OBVIOUS
  <2>2. p \in (s - d) .. (cur.end - 1)
    BY <1>11, <2>1
  <2>3. p \in 0 .. (Seg - 1) /\ Kept <= cur.base + p /\ at[cur.base + p] = cur.lsn + p /\ cur.base + p < cur.base + cur.end
    BY <1>2, <1>3, <1>11, <1>12, <2>1, <2>2, ReadsEpoch
  <2>. QED
    BY <1>7, <1>11, <2>3
<1>14. lo(l) % Block \in Nat
  <2>1. PICK m : m = Data + Block
    OBVIOUS
  <2>2. lo(l) \in 0 .. m - 1
    BY <2>1, LsnParts
  <2>3. lo(l) \in Nat
    BY <2>2
  <2>. QED
    BY <1>2, <2>3, DivMod
<1>15. \A p \in (s - (lo(l) % Block)) .. (s - 1) :
         /\ p \in 0 .. (Seg - 1) /\ Kept <= b + p /\ b + p < CurEnd /\ at[b + p] = l + p - s
  <2>1. ASSUME NEW p \in (s - (lo(l) % Block)) .. (s - 1)
        PROVE  p \in 0 .. (Seg - 1) /\ Kept <= b + p /\ b + p < CurEnd /\ at[b + p] = l + p - s
    <3>1. p \in (s - (lo(l) % Block)) .. (e - 1)
      BY <1>3, <1>11, <1>14
    <3>2. cur.lsn + p = l + p - s
      BY <1>2, <1>11, <1>14
    <3>. QED
      BY <1>13, <3>1, <3>2
  <2>. QED
    BY <2>1
<1>16. \A p \in s .. (e - 1) :
         /\ p \in 0 .. (Seg - 1) /\ Kept <= b + p /\ b + p < CurEnd /\ at[b + p] = l + s - s + p - s
  <2>1. ASSUME NEW p \in s .. (e - 1)
        PROVE  p \in 0 .. (Seg - 1) /\ Kept <= b + p /\ b + p < CurEnd /\ at[b + p] = l + s - s + p - s
    <3>1. p \in (s - (lo(l) % Block)) .. (e - 1)
      BY <1>14
    <3>2. cur.lsn + p = l + s - s + p - s
      BY <1>2, <1>11
    <3>. QED
      BY <1>13, <3>1, <3>2
  <2>. QED
    BY <2>1
<1>17. InFlight(at)'
  <2>1. b = ns - e /\ b = (IF s = s THEN b ELSE b - Seg) /\ b % Seg = 0 /\ start <= b + s /\ b + s <= ns /\ l <= u /\ s <= s
    BY <1>2, <1>3, <1>7, <1>11, <1>12 DEF Aligned
  <2>2. Cut(at, durable, b + s, l)
    BY <1>1, <1>4, <1>11
  <2>3. /\ fl'.lsn = l /\ fl'.start1 = s /\ fl'.end1 = s /\ fl'.start2 = s /\ fl'.end2 = e /\ fl'.upto = u
        /\ fl'.newStart = ns
    BY <1>10, <1>11
  <2>. QED
    BY <1>6, <1>15, <1>16, <2>1, <2>2, <2>3, InFlightIs
<1>18. start <= CurEnd
  BY <1>1, <1>2, <1>3, <1>4, <1>7
<1>19. Cut(at, CurLsn, CurEnd, CurLsn)
  BY <1>1, <1>2, <1>3, CutEnd
<1>20. start <= fl'.newStart /\ fl'.newStart <= NextPos' /\ Cut(at, fl'.upto, NextPos', NextLsn')
  <2>1. CurEnd <= CurEnd
    BY <1>2, <1>7
  <2>. QED
    BY <1>8, <1>10, <1>18, <1>19, <2>1, Zenon
<1>. QED
  BY <1>5, <1>6, <1>9, <1>10, <1>17, <1>20 DEF Chosen

\* What is taken when the epoch before has something left, whatever of cur.
LEMMA OldPart ==
  ASSUME BufferConstants, TypeOK, NEW at, Ghost(at), Idle, ~Empty(old)
  PROVE  /\ old.lsn \in Nat /\ old.base \in Nat /\ old.start \in Nat /\ old.end \in Nat /\ old.start < old.end
         /\ cur.lsn \in Nat /\ cur.base \in Nat /\ cur.start = 0 /\ cur.end \in Nat \ {0}
         /\ old.base + Seg = cur.base /\ old.base % Seg = 0 /\ cur.base % Seg = 0
         /\ start <= old.base + old.start /\ Cut(at, durable, old.base + old.start, old.lsn + old.start)
         /\ old.lsn + old.start < cur.lsn /\ old.base + old.start < cur.base
         /\ \A p \in (old.start - (lo(old.lsn + old.start) % Block)) .. (old.end - 1) :
              /\ p \in 0 .. (Seg - 1) /\ Kept <= old.base + p /\ old.base + p < CurEnd
              /\ at[old.base + p] = old.lsn + p
<1>1. /\ cur.end \in Nat /\ cur.base \in Nat /\ cur.lsn \in Nat
      /\ old.end \in Nat /\ old.base \in Nat /\ old.lsn \in Nat /\ old.start \in Nat
  BY SpanTypes
<1>2. AtInv(at) /\ EndsInv(at) /\ EpochInv(at) /\ start <= NextPos /\ Cut(at, durable, NextPos, NextLsn)
  BY DEF Ghost, FlushInv
<1>3. /\ old.start <= old.end /\ old.start # old.end /\ Aligned(old) /\ Holds(at, old) /\ old.base + Seg = cur.base
      /\ cur.end > 0 /\ cur.start = 0
  BY <1>2 DEF EpochInv, Empty
<1>4. NextPos = old.base + old.start /\ NextLsn = old.lsn + old.start
  BY DEF NextPos, NextLsn
<1>5. old.base % Seg = 0 /\ cur.base % Seg = 0
  BY <1>2, <1>3 DEF Aligned, EndsInv
<1>6. /\ old.lsn + old.start < cur.lsn /\ old.base + old.start < cur.base
      /\ \A o \in 0 .. (old.end - 1) : old.base + o < CurEnd
  BY <1>2, OldBefore
<1>7. Block \in Nat \ {0}
  BY Sizes
<1>8. ASSUME NEW p \in (old.start - (lo(old.lsn + old.start) % Block)) .. (old.end - 1)
      PROVE  /\ p \in 0 .. (Seg - 1) /\ Kept <= old.base + p /\ old.base + p < CurEnd
             /\ at[old.base + p] = old.lsn + p
  <2>1. start <= old.base + old.start
    BY <1>2, <1>4
  <2>2. PICK d : d = lo(old.lsn + old.start) % Block
    OBVIOUS
  <2>3. PICK s \in Nat : s = old.start
    BY <1>1
  <2>4. p \in (s - d) .. (old.end - 1)
    BY <2>2, <2>3
  <2>5. p \in 0 .. (Seg - 1) /\ Kept <= old.base + p /\ at[old.base + p] = old.lsn + p /\ old.base + p < old.base + old.end
    BY <1>1, <1>3, <2>1, <2>2, <2>3, <2>4, ReadsEpoch
  <2>6. PICK z \in Int : z = Seg - 1
    BY Sizes
  <2>7. p \in 0 .. (old.end - 1)
    BY <1>1, <2>5, <2>6
  <2>. QED
    BY <1>6, <2>5, <2>7
<1>. QED
  BY <1>1, <1>2, <1>3, <1>4, <1>5, <1>6, <1>8

\* Both halves have been flushed up to where they end.
LEMMA ChosenBoth ==
  ASSUME BufferConstants, TypeOK, NEW at, Ghost(at), Idle, OfBoth, start' = start, end' = end, durable' = durable
  PROVE  Chosen(at)
<1>0. ~Empty(old)
  BY DEF OfBoth
<1>1. AtInv(at) /\ EndsInv(at) /\ EpochInv(at)
  BY DEF Ghost
<1>2. /\ old.lsn \in Nat /\ old.base \in Nat /\ old.start \in Nat /\ old.end \in Nat /\ old.start < old.end
      /\ cur.lsn \in Nat /\ cur.base \in Nat /\ cur.start = 0 /\ cur.end \in Nat \ {0}
      /\ old.base + Seg = cur.base /\ old.base % Seg = 0 /\ cur.base % Seg = 0
      /\ start <= old.base + old.start /\ Cut(at, durable, old.base + old.start, old.lsn + old.start)
      /\ old.lsn + old.start < cur.lsn /\ old.base + old.start < cur.base
  BY <1>0, OldPart
<1>3. /\ Seg \in Nat \ {0} /\ Block \in Nat \ {0} /\ start \in Nat
  BY Sizes, EndTypes
<1>4. old.end = Seg /\ cur.lsn = old.lsn + Seg
  BY <1>0, <1>1 DEF OfBoth, EpochInv
<1>5. cur'.lsn = cur.lsn /\ cur'.base = cur.base /\ cur'.end = cur.end /\ cur'.start = cur.end
  <2>1. cur \in Span
    BY DEF TypeOK
  <2>. QED
    BY <2>1 DEF OfBoth, Span
<1>6. old'.start = old.end /\ old'.end = old.end
  <2>1. old \in Span
    BY DEF TypeOK
  <2>. QED
    BY <2>1 DEF OfBoth, Span
<1>7. Empty(old')
  BY <1>6 DEF Empty
<1>8. Ends(cur)' = Ends(cur) /\ CurEnd' = CurEnd /\ CurLsn' = CurLsn
  BY <1>5 DEF Ends, CurEnd, CurLsn
<1>9. CurEnd = cur.base + cur.end /\ CurLsn = cur.lsn + cur.end
  BY DEF CurEnd, CurLsn
<1>10. NextPos' = CurEnd /\ NextLsn' = CurLsn
  BY <1>5, <1>7, <1>9 DEF NextPos, NextLsn, Empty
<1>11. EpochInv(at)'
  <2>1. cur'.start <= cur'.end /\ old'.start <= old'.end
    BY <1>2, <1>5, <1>6
  <2>. QED
    BY <1>7, <2>1 DEF EpochInv, Empty
<1>12. /\ fl'.lsn = old.lsn + old.start /\ fl'.start1 = old.start /\ fl'.end1 = old.end /\ fl'.start2 = cur.start
       /\ fl'.end2 = cur.end /\ fl'.upto = CurLsn /\ fl'.newStart = CurEnd
  BY <1>9, FlushValues DEF OfBoth
<1>13. PICK b \in Nat, c \in Nat, l \in Nat, m \in Nat, s \in Nat, f \in Nat, e \in Nat, u \in Nat, ns \in Nat :
          /\ b = old.base /\ c = cur.base /\ m = old.lsn /\ s = old.start /\ f = old.end /\ e = cur.end
          /\ l = m + s /\ u = m + f + e /\ ns = c + e
  <2>1. PICK b \in Nat, c \in Nat, m \in Nat, s \in Nat, f \in Nat, e \in Nat :
          b = old.base /\ c = cur.base /\ m = old.lsn /\ s = old.start /\ f = old.end /\ e = cur.end
    BY <1>2
  <2>2. m + s \in Nat /\ m + f + e \in Nat /\ c + e \in Nat
    OBVIOUS
  <2>. QED
    BY <2>1, <2>2, Zenon
<1>14. u = CurLsn /\ ns = CurEnd
  BY <1>4, <1>9, <1>13
<1>15. ASSUME NEW p \in (s - (lo(l) % Block)) .. (f - 1)
       PROVE  p \in 0 .. (Seg - 1) /\ Kept <= b + p /\ b + p < CurEnd /\ at[b + p] = l + p - s
  <2>1. p \in (old.start - (lo(old.lsn + old.start) % Block)) .. (old.end - 1)
    BY <1>13
  <2>2. p \in 0 .. (Seg - 1) /\ Kept <= old.base + p /\ old.base + p < CurEnd /\ at[old.base + p] = old.lsn + p
    BY <1>0, <2>1, OldPart
  <2>3. p \in Nat
    BY <1>3, <2>2
  <2>4. m + p = l + p - s
    BY <1>13, <2>3
  <2>. QED
    BY <1>13, <2>2, <2>4
<1>16. ASSUME NEW p \in 0 .. (e - 1)
       PROVE  p \in 0 .. (Seg - 1) /\ Kept <= c + p /\ c + p < CurEnd /\ at[c + p] = l + f - s + p - 0
  <2>1. PICK d : d = lo(cur.lsn + 0) % Block
    OBVIOUS
  <2>2. d \in Nat
    <3>1. PICK g : g = Data + Block
      OBVIOUS
    <3>2. lo(cur.lsn) \in 0 .. g - 1
      BY <1>2, <3>1, LsnParts
    <3>3. lo(cur.lsn) \in Nat
      BY <3>2
    <3>4. lo(cur.lsn + 0) = lo(cur.lsn)
      <4>1. PICK x \in Nat : x = cur.lsn
        BY <1>2
      <4>2. x + 0 = x
        OBVIOUS
      <4>. QED
        BY <4>1, <4>2
    <3>. QED
      BY <1>3, <2>1, <3>3, <3>4, DivMod
  <2>3. Aligned(cur) /\ Holds(at, cur)
    BY <1>1 DEF EndsInv
  <2>4. start <= cur.base + 0
    <3>1. start <= b + s /\ b + s < c
      BY <1>2, <1>13
    <3>2. start <= c + 0
      BY <1>3, <3>1
    <3>. QED
      BY <1>13, <3>2
  <2>5. p \in (0 - d) .. (cur.end - 1) /\ p \in Nat
    BY <1>13, <2>2
  <2>6. p \in 0 .. (Seg - 1) /\ Kept <= cur.base + p /\ at[cur.base + p] = cur.lsn + p /\ cur.base + p < cur.base + cur.end
    <3>1. 0 \in Nat /\ 0 <= cur.end
      BY <1>2
    <3>. QED
      BY <1>2, <2>1, <2>3, <2>4, <2>5, <3>1, ReadsEpoch
  <2>7. cur.lsn + p = l + f - s + p - 0
    BY <1>4, <1>13, <2>5
  <2>. QED
    BY <1>9, <1>13, <2>6, <2>7
<1>17. InFlight(at)'
  <2>1. /\ c = ns - e /\ b = (IF s = f THEN c ELSE c - Seg) /\ b % Seg = 0 /\ c % Seg = 0 /\ start <= b + s
        /\ b + s <= ns /\ l <= u /\ s <= f
    BY <1>2, <1>3, <1>13
  <2>2. Cut(at, durable, b + s, l)
    BY <1>2, <1>13
  <2>3. /\ fl'.lsn = l /\ fl'.start1 = s /\ fl'.end1 = f /\ fl'.start2 = 0 /\ fl'.end2 = e /\ fl'.upto = u
        /\ fl'.newStart = ns
    BY <1>2, <1>12, <1>13, <1>14
  <2>4. 0 \in Nat
    OBVIOUS
  <2>. QED
    BY <1>8, <1>15, <1>16, <2>1, <2>2, <2>3, <2>4, InFlightIs, SMTT(30)
<1>18. start <= CurEnd
  BY <1>2, <1>3, <1>9
<1>19. Cut(at, CurLsn, CurEnd, CurLsn)
  BY <1>1, <1>2, <1>3, CutEnd
<1>20. start <= fl'.newStart /\ fl'.newStart <= NextPos' /\ Cut(at, fl'.upto, NextPos', NextLsn')
  <2>1. CurEnd <= CurEnd
    BY <1>2, <1>9
  <2>. QED
    BY <1>10, <1>12, <1>18, <1>19, <2>1, Zenon
<1>. QED
  BY <1>5, <1>8, <1>11, <1>12, <1>17, <1>20 DEF Chosen

\* The end of a partition is flushed on its own.
LEMMA ChosenOld ==
  ASSUME BufferConstants, TypeOK, NEW at, Ghost(at), Idle, OfOld, start' = start, end' = end, durable' = durable
  PROVE  Chosen(at)
<1>0. ~Empty(old)
  BY DEF OfOld
<1>1. AtInv(at) /\ EndsInv(at) /\ EpochInv(at)
  BY DEF Ghost
<1>2. /\ old.lsn \in Nat /\ old.base \in Nat /\ old.start \in Nat /\ old.end \in Nat /\ old.start < old.end
      /\ cur.lsn \in Nat /\ cur.base \in Nat /\ cur.start = 0 /\ cur.end \in Nat \ {0}
      /\ old.base + Seg = cur.base /\ old.base % Seg = 0 /\ cur.base % Seg = 0
      /\ start <= old.base + old.start /\ Cut(at, durable, old.base + old.start, old.lsn + old.start)
      /\ old.lsn + old.start < cur.lsn /\ old.base + old.start < cur.base
  BY <1>0, OldPart
<1>3. /\ Seg \in Nat \ {0} /\ Block \in Nat \ {0} /\ start \in Nat
  BY Sizes, EndTypes
<1>4. lo(cur.lsn) = 0
  BY <1>0, <1>1 DEF OfOld, EpochInv
<1>5. cur' = cur
  BY DEF OfOld
<1>6. old'.start = old.end /\ old'.end = old.end
  <2>1. old \in Span
    BY DEF TypeOK
  <2>. QED
    BY <2>1 DEF OfOld, Span
<1>7. Empty(old')
  BY <1>6 DEF Empty
<1>8. Ends(cur)' = Ends(cur) /\ CurEnd' = CurEnd /\ CurLsn' = CurLsn
  BY <1>5 DEF Ends, CurEnd, CurLsn
<1>9. CurEnd = cur.base + cur.end
  BY DEF CurEnd
<1>10. NextPos' = cur.base /\ NextLsn' = cur.lsn
  <2>1. cur.base + 0 = cur.base /\ cur.lsn + 0 = cur.lsn
    BY <1>2
  <2>. QED
    BY <1>2, <1>5, <1>7, <2>1 DEF NextPos, NextLsn, Empty
<1>11. EpochInv(at)'
  <2>1. cur'.start <= cur'.end /\ old'.start <= old'.end
    BY <1>2, <1>5, <1>6
  <2>. QED
    BY <1>7, <2>1 DEF EpochInv, Empty
<1>12. /\ fl'.lsn = old.lsn + old.start /\ fl'.start1 = old.start /\ fl'.end1 = old.end /\ fl'.start2 = 0
       /\ fl'.end2 = 0 /\ fl'.upto = cur.lsn /\ fl'.newStart = cur.base + 0
  BY FlushValues DEF OfOld
<1>13. PICK b \in Nat, c \in Nat, l \in Nat, m \in Nat, s \in Nat, f \in Nat, u \in Nat :
          /\ b = old.base /\ c = cur.base /\ m = old.lsn /\ s = old.start /\ f = old.end /\ l = m + s /\ u = cur.lsn
  <2>1. PICK b \in Nat, c \in Nat, m \in Nat, s \in Nat, f \in Nat, u \in Nat :
          b = old.base /\ c = cur.base /\ m = old.lsn /\ s = old.start /\ f = old.end /\ u = cur.lsn
    BY <1>2
  <2>2. m + s \in Nat
    OBVIOUS
  <2>. QED
    BY <2>1, <2>2, Zenon
<1>14. c + 0 = c
  OBVIOUS
<1>15. ASSUME NEW p \in (s - (lo(l) % Block)) .. (f - 1)
       PROVE  p \in 0 .. (Seg - 1) /\ Kept <= b + p /\ b + p < CurEnd /\ at[b + p] = l + p - s
  <2>1. p \in (old.start - (lo(old.lsn + old.start) % Block)) .. (old.end - 1)
    BY <1>13
  <2>2. p \in 0 .. (Seg - 1) /\ Kept <= old.base + p /\ old.base + p < CurEnd /\ at[old.base + p] = old.lsn + p
    BY <1>0, <2>1, OldPart
  <2>3. p \in Nat
    BY <1>3, <2>2
  <2>4. m + p = l + p - s
    BY <1>13, <2>3
  <2>. QED
    BY <1>13, <2>2, <2>4
<1>16. ASSUME NEW p \in 0 .. (0 - 1)
       PROVE  p \in 0 .. (Seg - 1) /\ Kept <= c + p /\ c + p < CurEnd /\ at[c + p] = l + f - s + p - 0
  OBVIOUS
<1>17. InFlight(at)'
  <2>1. /\ c = c - 0 /\ b = (IF s = f THEN c ELSE c - Seg) /\ b % Seg = 0 /\ c % Seg = 0 /\ start <= b + s
        /\ b + s <= c /\ l <= u /\ s <= f
    <3>1. b + s < c /\ m + s < u /\ s < f /\ b + Seg = c /\ b % Seg = 0 /\ c % Seg = 0 /\ start <= b + s
      BY <1>2, <1>13
    <3>2. b + s <= c /\ l <= u /\ s <= f
      BY <1>13, <3>1
    <3>3. b = (IF s = f THEN c ELSE c - Seg)
      BY <1>3, <3>1
    <3>. QED
      BY <3>1, <3>2, <3>3
  <2>2. Cut(at, durable, b + s, l)
    BY <1>2, <1>13
  <2>3. /\ fl'.lsn = l /\ fl'.start1 = s /\ fl'.end1 = f /\ fl'.start2 = 0 /\ fl'.end2 = 0 /\ fl'.upto = u
        /\ fl'.newStart = c
    BY <1>2, <1>12, <1>13, <1>14
  <2>4. 0 \in Nat
    OBVIOUS
  <2>. QED
    BY <1>8, <1>15, <1>16, <2>1, <2>2, <2>3, <2>4, InFlightIs
<1>18. start <= cur.base
  BY <1>2, <1>3
<1>19. Cut(at, cur.lsn, cur.base, cur.lsn)
  BY <1>1, <1>2, <1>3, CutEnd
<1>20. start <= fl'.newStart /\ fl'.newStart <= NextPos' /\ Cut(at, fl'.upto, NextPos', NextLsn')
  <2>1. cur.base <= cur.base
    BY <1>2
  <2>. QED
    BY <1>10, <1>12, <1>13, <1>14, <1>18, <1>19, <2>1, Zenon
<1>. QED
  BY <1>4, <1>5, <1>8, <1>11, <1>12, <1>17, <1>20 DEF Chosen

\* What the daemon leaves alone in a flush.
SameLog == /\ expose' = expose /\ info' = info /\ pc' = pc /\ my' = my /\ buf' = buf /\ tail' = tail /\ end' = end
           /\ bytes' = bytes /\ clr' = clr /\ Ends(cur)' = Ends(cur)

LEMMA DaemonFrame ==
  ASSUME TypeOK, NEW at, Ghost(at), SameLog
  PROVE  /\ AtInv(at)' /\ EndsInv(at)' /\ LineInv(at)' /\ CurEnd' = CurEnd /\ CurLsn' = CurLsn /\ cur'.lsn = cur.lsn
         /\ \A t \in Thread : (Copies(t) <=> Copies(t)') /\ Target(t)' = Target(t)
         /\ \A t \in Thread : (Recorded(t) <=> Recorded(t)') /\ (InLog(t) => InLog(t)')
<1>1. AtInv(at)'
  BY AtFrame DEF Ghost, SameLog
<1>2. Len(expose) \in Nat
  BY DEF TypeOK
<1>3. Shown' <=> Shown
  BY DEF Shown, SameLog
<1>4. \A k \in 1 .. Len(expose) : Grp(k)' = Grp(k)
  BY DEF Grp, SameLog
<1>5. EndsInv(at)' /\ LineInv(at)'
  BY <1>2, <1>3, <1>4, LineFrame DEF Ghost, SameLog
<1>6. cur'.lsn = cur.lsn /\ cur'.base = cur.base /\ cur'.end = cur.end
  BY DEF SameLog, Ends
<1>7. CurEnd' = CurEnd /\ CurLsn' = CurLsn
  BY <1>6 DEF CurEnd, CurLsn
<1>8. ASSUME NEW t \in Thread PROVE (Copies(t) <=> Copies(t)') /\ Target(t)' = Target(t)
  BY DEF Copies, Lined, Target, Part, Bgn, Spot, SameLog
<1>9. First' = First /\ Line' = Line
  BY <1>3 DEF First, Line, SameLog
<1>10. ASSUME NEW t \in Thread, InLog(t) PROVE InLog(t)'
  <2>1. ASSUME NEW k \in Line PROVE Grp(k)' = Grp(k)
    BY DEF Grp, SameLog
  <2>2. \A k \in Line : \E j \in Line' : Grp(j)' = Grp(k)
    BY <1>9, <2>1
  <2>. QED
    BY <1>7, <1>10, <2>2, InLogFrame DEF SameLog
<1>. QED
  BY <1>1, <1>5, <1>6, <1>7, <1>8, <1>10 DEF Recorded, SameLog

\* A record is not split by the end of what is exposed.
LEMMA WholeAtEnd ==
  ASSUME TypeOK, NEW at, Ghost(at), NEW t \in Thread, InLog(t), Recorded(t)
  PROVE  Whole(t, CurLsn)
<1>1. CASE RecEnd(t) <= CurLsn
  BY <1>1 DEF Whole
<1>2. ASSUME NEW k \in Line, Grp(k).lsn <= my[t].lsn PROVE CurLsn <= my[t].lsn
  <2>1. CurLsn <= Grp(k).lsn
    BY DEF Ghost, LineInv, LineRight
  <2>2. CurLsn \in Nat
    <3>1. cur.lsn \in Nat /\ cur.end \in Nat
      BY SpanTypes
    <3>. QED
      BY <3>1 DEF CurLsn
  <2>3. Grp(k).lsn \in Nat
    <3>1. First \in {1, 2} /\ expose \in Seq(Slot)
      BY DEF First, TypeOK
    <3>2. expose[k] \in Slot
      BY <3>1 DEF Line
    <3>. QED
      BY <3>2, InfoTypes DEF Grp, Spot
  <2>4. my[t].lsn \in Int
    BY LocalTypes
  <2>. QED
    BY <1>2, <2>1, <2>2, <2>3, <2>4
<1>. QED
  BY <1>1, <1>2 DEF InLog, Whole

LEMMA ChooseGhost ==
  ASSUME BufferConstants, TypeOK, NEW at, Ghost(at), ChooseFlush
  PROVE  Ghost(at)'
<1>. USE DEF group, ends, epochs, disk
<1>1. /\ dpc = "work" /\ dpc' = "comp" /\ start' = start /\ end' = end /\ durable' = durable /\ flushing' = flushing
      /\ kept' = kept
  BY DEF ChooseFlush
<1>2. Idle
  BY <1>1 DEF Idle
<1>3. Chosen(at)
  <2>1. CASE OfOne
    BY <1>1, <1>2, <2>1, ChosenOne
  <2>2. CASE OfBoth
    BY <1>1, <1>2, <2>2, ChosenBoth
  <2>3. CASE OfOld
    BY <1>1, <1>2, <2>3, ChosenOld
  <2>. QED
    BY <2>1, <2>2, <2>3 DEF ChooseFlush, OfOne, OfBoth, OfOld
<1>4. SameLog
  BY <1>3 DEF ChooseFlush, SameLog, Chosen
<1>5. /\ AtInv(at)' /\ EndsInv(at)' /\ LineInv(at)' /\ CurEnd' = CurEnd /\ CurLsn' = CurLsn /\ cur'.lsn = cur.lsn
      /\ \A t \in Thread : (Copies(t) <=> Copies(t)') /\ Target(t)' = Target(t)
      /\ \A t \in Thread : (Recorded(t) <=> Recorded(t)') /\ (InLog(t) => InLog(t)')
  BY <1>4, DaemonFrame
<1>6. BytesInv(at)'
  <2>1. durable' \in Nat /\ durable <= durable'
    <3>1. durable \in Nat
      BY DEF TypeOK
    <3>. QED
      BY <1>1, <3>1
  <2>2. bytes' = bytes /\ BytesInv(at)
    BY <1>4 DEF SameLog, Ghost
  <2>. QED
    BY <1>1, <1>5, <2>1, <2>2, BytesFrame
<1>7. FlushInv(at)'
  <2>1. ~(Idle') /\ dpc' # "durable" /\ dpc' # "write"
    BY <1>1 DEF Idle
  <2>2. Cut(at, fl.upto, NextPos, NextLsn)'
    BY <1>1, <1>3 DEF Chosen, Cut, lo
  <2>3. start' <= fl'.newStart /\ fl'.newStart <= NextPos' /\ InFlight(at)'
    BY <1>1, <1>3 DEF Chosen
  <2>4. flushing' = durable'
    BY <1>1 DEF Ghost, FlushInv
  <2>. QED
    BY <2>1, <2>2, <2>3, <2>4 DEF FlushInv
<1>8. RecordInv'
  <2>1. ASSUME NEW t \in Thread, Recorded(t)' PROVE RecordRight(t)'
    <3>1. RecordRight(t) /\ Recorded(t)
      BY <1>5, <2>1 DEF Ghost, RecordInv
    <3>2. InLog(t)'
      BY <1>5, <3>1 DEF RecordRight
    <3>3. Whole(t, fl'.upto)
      <4>1. CASE fl'.upto = CurLsn
        BY <3>1, <4>1, WholeAtEnd DEF RecordRight
      <4>2. CASE fl'.upto = cur.lsn /\ lo(cur.lsn) = 0
        BY <3>1, <4>2 DEF RecordRight
      <4>. QED
        BY <1>3, <4>1, <4>2 DEF Chosen
    <3>4. my' = my /\ bytes' = bytes
      BY <1>4 DEF SameLog
    <3>. QED
      BY <1>1, <1>5, <3>1, <3>2, <3>3, <3>4 DEF RecordRight, RecEnd, Whole, Where, lo
  <2>2. ASSUME NEW t \in Thread, pc'[t] \in {"flush wait", "flush asleep"} PROVE Recorded(t)'
    BY <1>4, <1>5, <2>2 DEF Ghost, RecordInv, SameLog
  <2>. QED
    BY <2>1, <2>2 DEF RecordInv
<1>9. ClrInv(at)'
  BY <1>1, <1>4 DEF Ghost, ClrInv, SameLog
<1>10. EpochInv(at)'
  BY <1>3 DEF Chosen
<1>. QED
  BY <1>5, <1>6, <1>7, <1>8, <1>9, <1>10 DEF Ghost

\* The rest of a flush leaves the epochs alone too.
LEMMA FlushGoesOn ==
  ASSUME BufferConstants, TypeOK, TypeOK', NEW at, Ghost(at), NoMoreCompensation \/ Write
  PROVE  Ghost(at)'
<1>. USE DEF group, ends, epochs, disk
<1>1. /\ start' = start /\ end' = end /\ fl' = fl /\ cur' = cur /\ old' = old /\ SameLog
      /\ dpc \in Flight /\ ~Idle /\ ~(Idle') /\ (dpc' \in Flight => dpc \in Flight)
  BY DEF NoMoreCompensation, Write, SameLog, Flight, Idle, Ends
<1>2. /\ AtInv(at)' /\ EndsInv(at)' /\ LineInv(at)' /\ CurEnd' = CurEnd /\ CurLsn' = CurLsn /\ cur'.lsn = cur.lsn
      /\ \A t \in Thread : (Copies(t) <=> Copies(t)') /\ Target(t)' = Target(t)
      /\ \A t \in Thread : (Recorded(t) <=> Recorded(t)') /\ (InLog(t) => InLog(t)')
  BY <1>1, DaemonFrame
<1>3. EpochInv(at)' /\ NextPos' = NextPos /\ NextLsn' = NextLsn
  BY <1>1, EpochFrame DEF Ghost
<1>4. InFlight(at) /\ fl.newStart <= NextPos /\ start <= fl.newStart /\ Cut(at, fl.upto, NextPos, NextLsn)
  BY <1>1 DEF Ghost, FlushInv
<1>5. Cut(at, fl.upto, NextPos, NextLsn)'
  BY <1>1, <1>3, <1>4 DEF Cut, lo
<1>6. durable \in Nat /\ fl.lsn \in Nat /\ fl.upto \in Nat /\ durable <= fl.upto
  <2>1. durable \in Nat
    BY DEF TypeOK
  <2>2. fl.lsn \in Nat /\ fl.upto \in Nat
    BY SpanTypes
  <2>3. fl.lsn <= fl.upto /\ durable <= fl.lsn
    BY <1>4, <2>1, <2>2 DEF InFlight, Cut
  <2>. QED
    BY <2>1, <2>2, <2>3
<1>7. durable' = durable \/ durable' = fl.upto
  BY DEF NoMoreCompensation, Write
<1>8. durable' \in Nat /\ durable <= durable'
  BY <1>6, <1>7
<1>9. BytesInv(at)'
  <2>1. bytes' = bytes /\ BytesInv(at)
    BY <1>1 DEF SameLog, Ghost
  <2>. QED
    BY <1>1, <1>2, <1>8, <2>1, BytesFrame
<1>10. FlushInv(at)'
  <2>1. start' <= fl'.newStart /\ fl'.newStart <= NextPos'
    BY <1>1, <1>3, <1>4
  <2>2. ASSUME NoMoreCompensation
        PROVE  /\ dpc' = "write" /\ flushing' = fl'.upto /\ InFlight(at)'
    <3>1. dpc' = "write" /\ flushing' = fl'.upto /\ durable' = durable
      BY <1>1, <2>2 DEF NoMoreCompensation
    <3>2. SameFlush
      BY <1>1 DEF SameFlush
    <3>. QED
      BY <1>1, <1>2, <1>4, <3>1, <3>2, InFlightFrame
  <2>3. ASSUME Write
        PROVE  dpc' = "durable" /\ flushing' = durable' /\ durable' = fl'.upto
    BY <1>1, <2>3 DEF Write, Ghost, FlushInv
  <2>. QED
    BY <1>1, <1>5, <2>1, <2>2, <2>3 DEF FlushInv, Flight
<1>11. RecordInv'
  <2>1. ASSUME NEW t \in Thread, Recorded(t)' PROVE RecordRight(t)'
    <3>1. RecordRight(t) /\ Recorded(t)
      BY <1>2, <2>1 DEF Ghost, RecordInv
    <3>2. InLog(t)'
      BY <1>2, <3>1 DEF RecordRight
    <3>3. Whole(t, durable) /\ Whole(t, fl.upto)
      BY <1>1, <3>1 DEF RecordRight
    <3>4. my' = my /\ bytes' = bytes
      BY <1>1 DEF SameLog
    <3>5. ASSUME NEW l \in my[t].lsn .. (RecEnd(t) - 1), durable' <= l PROVE bytes[Where(l)] = l
      <4>1. my[t].lsn \in Int /\ RecEnd(t) \in Int
        <5>1. my[t].lsn \in Int /\ my[t].size \in Nat
          BY LocalTypes
        <5>. QED
          BY <5>1 DEF RecEnd
      <4>2. durable <= l
        BY <1>6, <1>8, <3>5, <4>1
      <4>. QED
        BY <3>1, <4>2 DEF RecordRight
    <3>6. Whole(t, durable')
      BY <1>7, <3>3
    <3>7. \A l \in my'[t].lsn .. (RecEnd(t)' - 1) : durable' <= l => bytes'[Where(l)'] = l
      BY <3>4, <3>5 DEF RecEnd, Where, lo
    <3>8. Whole(t, durable)' /\ Whole(t, fl.upto)'
      BY <1>1, <3>3, <3>4, <3>6 DEF Whole, RecEnd
    <3>9. (lo(cur.lsn) = 0 => Whole(t, cur.lsn))'
      BY <1>1, <3>1, <3>4 DEF RecordRight, Whole, RecEnd, lo
    <3>10. my'[t].size > 0
      BY <3>1, <3>4 DEF RecordRight
    <3>. QED
      BY <3>2, <3>7, <3>8, <3>9, <3>10 DEF RecordRight
  <2>2. ASSUME NEW t \in Thread, pc'[t] \in {"flush wait", "flush asleep"} PROVE Recorded(t)'
    BY <1>1, <1>2, <2>2 DEF Ghost, RecordInv, SameLog
  <2>. QED
    BY <2>1, <2>2 DEF RecordInv
<1>12. ClrInv(at)'
  <2>1. ASSUME NEW l \in clr PROVE (l < durable' => l \in kept') /\ \E a \in 0 .. (end' - 1) : at[a] = l
    <3>1. l \in Nat
      BY DEF TypeOK
    <3>2. (l < durable => l \in kept) /\ \E a \in 0 .. (end - 1) : at[a] = l
      BY DEF Ghost, ClrInv
    <3>3. CASE NoMoreCompensation
      BY <1>1, <3>2, <3>3 DEF NoMoreCompensation
    <3>4. CASE Write
      <4>1. durable' = fl.upto /\ kept' = kept \union {x \in clr : fl.lsn <= x /\ x < fl.upto}
        BY <3>4 DEF Write
      <4>2. ASSUME l < fl.upto, ~(l < durable) PROVE fl.lsn <= l
        <5>1. PICK a \in 0 .. (end - 1) : at[a] = l
          BY <3>2
        <5>2. Cut(at, durable, FlPos, fl.lsn) /\ FlBase1 \in Nat
          BY <1>4 DEF InFlight
        <5>3. FlPos \in Nat
          BY <5>2, SpanTypes DEF FlPos
        <5>4. AtInv(at)
          BY DEF Ghost
        <5>5. PICK p \in Nat, m \in Nat, d \in Nat : p = FlPos /\ m = fl.lsn /\ d = durable
          BY <1>6, <5>3
        <5>6. (a < p => at[a] < d) /\ (~(a < p) => at[a] = -1 \/ (m <= at[a] /\ d <= at[a]))
          BY <5>2, <5>4, <5>5, CutTells
        <5>. QED
          BY <3>1, <4>2, <5>1, <5>5, <5>6
      <4>. QED
        BY <1>1, <3>2, <4>1, <4>2
    <3>. QED
      BY <3>3, <3>4
  <2>. QED
    BY <1>1, <2>1 DEF ClrInv, SameLog
<1>. QED
  BY <1>2, <1>3, <1>9, <1>10, <1>11, <1>12 DEF Ghost

\* What is on disk is free, but for the block that it ends in.
LEMMA FreeGhost ==
  ASSUME BufferConstants, TypeOK, TypeOK', NEW at, Ghost(at), NowFree
  PROVE  Ghost(at)'
<1>. USE DEF group, ends, epochs, disk
<1>1. /\ dpc = "durable" /\ dpc' = "top" /\ start' = fl.newStart /\ end' = end /\ cur' = cur /\ old' = old /\ SameLog
      /\ durable' = durable /\ flushing' = flushing /\ kept' = kept
  BY DEF NowFree, SameLog, Ends
<1>2. /\ AtInv(at)' /\ EndsInv(at)' /\ LineInv(at)' /\ CurEnd' = CurEnd /\ CurLsn' = CurLsn /\ cur'.lsn = cur.lsn
      /\ \A t \in Thread : (Copies(t) <=> Copies(t)') /\ Target(t)' = Target(t)
      /\ \A t \in Thread : (Recorded(t) <=> Recorded(t)') /\ (InLog(t) => InLog(t)')
  BY <1>1, DaemonFrame
<1>3. EpochInv(at)' /\ NextPos' = NextPos /\ NextLsn' = NextLsn
  BY <1>1, EpochFrame DEF Ghost
<1>4. /\ start <= fl.newStart /\ fl.newStart <= NextPos /\ Cut(at, fl.upto, NextPos, NextLsn)
      /\ durable = fl.upto /\ flushing = durable
  BY <1>1 DEF Ghost, FlushInv, Idle
<1>5. /\ start \in Nat /\ end \in Nat /\ Seg \in Nat \ {0} /\ Block \in Nat \ {0} /\ fl.newStart \in Nat
      /\ NextPos \in Nat /\ CurEnd \in Nat /\ NextPos <= CurEnd /\ CurEnd <= end
  <2>1. AtInv(at) /\ EndsInv(at) /\ EpochInv(at) /\ CurEnd <= end
    BY DEF Ghost, EndsInv
  <2>. QED
    BY <2>1, NextIn, EndTypes, Sizes, SpanTypes
<1>6. Kept' \in Nat /\ Kept \in Nat /\ Kept <= Kept'
  <2>1. PICK b \in Nat, c \in Nat : b = start /\ c = fl.newStart /\ b <= c
    BY <1>4, <1>5
  <2>2. b - (b % Block) <= c - (c % Block)
    BY <1>5, <2>1, RoundDown
  <2>3. c - (c % Block) \in Nat /\ b - (b % Block) \in Nat
    BY <1>5, RoundDown
  <2>. QED
    BY <1>1, <2>1, <2>2, <2>3 DEF Kept
<1>7. BytesInv(at)'
  <2>1. BytesInv(at) /\ bytes' = bytes
    BY <1>1 DEF Ghost, SameLog
  <2>2. start' <= end'
    BY <1>1, <1>4, <1>5
  <2>3. end' - Kept' <= Seg
    <3>1. PICK k \in Nat : k = Kept'
      BY <1>6
    <3>2. PICK j \in Nat : j = Kept /\ j <= k
      BY <1>6, <3>1
    <3>3. end - j <= Seg
      BY <2>1, <3>2 DEF BytesInv
    <3>4. end - k <= Seg
      BY <1>5, <3>2, <3>3
    <3>. QED
      BY <1>1, <3>1, <3>4
  <2>4. \A a \in Kept' .. (end' - 1) : There(at, a)'
    <3>1. PICK k \in Nat : k = Kept'
      BY <1>6
    <3>2. ASSUME NEW a \in k .. (end - 1) PROVE There(at, a)'
      <4>1. a \in Kept .. (end - 1)
        BY <1>5, <1>6, <3>1
      <4>2. There(at, a)
        BY <2>1, <4>1 DEF BytesInv
      <4>. QED
        BY <1>2, <2>1, <4>2 DEF There
    <3>. QED
      BY <1>1, <3>1, <3>2
  <2>5. \A p \in 0 .. (Seg - 1) : bytes'[p] >= durable' => \E a \in 0 .. (end' - 1) : a % Seg = p /\ at[a] = bytes'[p]
    BY <1>1, <2>1 DEF BytesInv
  <2>. QED
    BY <2>2, <2>3, <2>4, <2>5 DEF BytesInv
<1>8. FlushInv(at)'
  <2>1. dpc' # "durable" /\ dpc' # "write" /\ ~(dpc' \in Flight)
    BY <1>1 DEF Flight
  <2>2. Cut(at, durable, NextPos, NextLsn)'
    BY <1>1, <1>3, <1>4 DEF Cut, lo
  <2>3. start' <= NextPos' /\ flushing' = durable' /\ Idle'
    BY <1>1, <1>3, <1>4 DEF Idle
  <2>. QED
    BY <2>1, <2>2, <2>3 DEF FlushInv
<1>9. RecordInv'
  <2>1. ASSUME NEW t \in Thread, Recorded(t)' PROVE RecordRight(t)'
    <3>1. RecordRight(t) /\ Recorded(t)
      BY <1>2, <2>1 DEF Ghost, RecordInv
    <3>2. InLog(t)'
      BY <1>2, <3>1 DEF RecordRight
    <3>3. my' = my /\ bytes' = bytes /\ ~(dpc' \in Flight)
      BY <1>1 DEF SameLog, Flight
    <3>. QED
      BY <1>1, <3>1, <3>2, <3>3 DEF RecordRight, RecEnd, Whole, Where, lo
  <2>2. ASSUME NEW t \in Thread, pc'[t] \in {"flush wait", "flush asleep"} PROVE Recorded(t)'
    BY <1>1, <1>2, <2>2 DEF Ghost, RecordInv, SameLog
  <2>. QED
    BY <2>1, <2>2 DEF RecordInv
<1>10. ClrInv(at)'
  BY <1>1 DEF Ghost, ClrInv, SameLog
<1>. QED
  BY <1>2, <1>3, <1>7, <1>8, <1>9, <1>10 DEF Ghost

-----------------------------------------------------------------------------
(***************************************************************************)
(* Startup.                                                                *)
(***************************************************************************)
\* The log ends at A, in the buffer that starts at B.
StartsAt(A, B, load) ==
  /\ load \in Loads /\ load.at = A /\ B = A - (A % Seg)
  /\ tail = A /\ flushing = A /\ durable = A /\ start = A /\ end = A
  /\ cur = Epoch(B, B, A % Seg, A % Seg)
  /\ bytes = [p \in 0..(Seg - 1) |-> IF p < A % Seg /\ (A % Seg) - (A % Block) <= p THEN B + p ELSE -1]
  /\ my = [t \in Thread |-> [NoLocals EXCEPT !.todo = load.todo[t]]]
  /\ world = load.world
  /\ A \in 0 .. (Data - 1) /\ A \in Nat /\ B \in Nat /\ B % Seg = 0 /\ A = B + (A % Seg) /\ A % Seg \in 0 .. (Seg - 1)
  /\ lo(B) = B /\ lo(A) = A /\ B + Seg <= Data

LEMMA Starts ==
  ASSUME BufferConstants, Init
  PROVE  \E A \in Nat, B \in Nat : \E load \in Loads : StartsAt(A, B, load)
<1>1. PICK load \in Loads :
        LET next   == load.at
            offset == next % Seg
            base   == next - offset
        IN  /\ tail = next /\ flushing = next /\ durable = next
            /\ start = next /\ end = next
            /\ cur = Epoch(base, base, offset, offset)
            /\ bytes = [p \in 0..(Seg - 1) |->
                          IF p < offset /\ offset - (next % Block) <= p THEN base + p ELSE -1]
            /\ my = [t \in Thread |-> [NoLocals EXCEPT !.todo = load.todo[t]]]
            /\ world = load.world
  BY DEF Init
<1>2. load.at \in 0 .. (Data - 1) /\ Data \in Nat \ {0} /\ Seg \in Nat \ {0} /\ Block \in Nat \ {0} /\ Data % Seg = 0
  BY DEF BufferConstants
<1>3. PICK A \in Nat : A = load.at /\ A < Data
  BY <1>2
<1>4. A % Seg \in 0 .. (Seg - 1) /\ A \div Seg \in Nat /\ A = Seg * (A \div Seg) + (A % Seg)
  BY <1>2, DivMod
<1>5. PICK o \in 0 .. (Seg - 1) : o = A % Seg
  BY <1>4
<1>6. PICK q \in Nat : q = A \div Seg
  BY <1>4
<1>7. PICK B \in Nat : B = A - o /\ B = Seg * q
  <2>1. Seg * q \in Nat /\ A = Seg * q + o
    BY <1>2, <1>4, <1>5, <1>6
  <2>. QED
    BY <1>5, <2>1
<1>8. B % Seg = 0
  <2>1. 0 \in 0 .. Seg - 1 /\ B = Seg * q + 0
    BY <1>2, <1>7
  <2>. QED
    BY <1>2, <2>1, DivModIs
<1>9. B < Data /\ A = B + o
  BY <1>2, <1>3, <1>5, <1>7
<1>10. B + Seg <= Data
  BY <1>2, <1>8, <1>9, Multiples
<1>11. \A x \in Nat : x < Data => lo(x) = x
  <2>1. ASSUME NEW x \in Nat, x < Data PROVE lo(x) = x
    <3>1. PICK m \in Nat \ {0} : m = Data + Block
      BY <1>2
    <3>2. x \in 0 .. m - 1
      BY <1>2, <2>1, <3>1
    <3>. QED
      BY <3>1, <3>2, ModSmall DEF lo
  <2>. QED
    BY <2>1
<1>12. lo(B) = B /\ lo(A) = A
  BY <1>3, <1>9, <1>11
<1>13. A \in 0 .. (Data - 1)
  BY <1>2, <1>3
<1>14. /\ tail = A /\ flushing = A /\ durable = A /\ start = A /\ end = A
       /\ cur = Epoch(B, B, A % Seg, A % Seg)
       /\ bytes = [p \in 0..(Seg - 1) |-> IF p < A % Seg /\ (A % Seg) - (A % Block) <= p THEN B + p ELSE -1]
       /\ my = [t \in Thread |-> [NoLocals EXCEPT !.todo = load.todo[t]]]
       /\ world = load.world
  BY <1>1, <1>3, <1>5, <1>7, Zenon
<1>15. StartsAt(A, B, load)
  BY <1>3, <1>4, <1>5, <1>7, <1>8, <1>9, <1>10, <1>12, <1>13, <1>14 DEF StartsAt
<1>. QED
  BY <1>15

LEMMA StartTypes ==
  ASSUME BufferConstants, Init
  PROVE  TypeOK
<1>1. PICK A \in Nat, B \in Nat : \E load \in Loads : StartsAt(A, B, load)
  BY Starts
<1>2. PICK load \in Loads : StartsAt(A, B, load)
  BY <1>1
<1>3. Slots \in Nat /\ Active \in 1..Slots /\ Seg \in Nat \ {0}
  BY Sizes
<1>4. load.todo \in [Thread -> Nat] /\ load.world.size \subseteq Nat \ {0}
  BY DEF BufferConstants
<1>5. \A i \in 0..(Active - 1) : i \in Slot
  BY <1>3 DEF Slot
<1>6. slots \in [0..(Active - 1) -> Slot]
  BY <1>5 DEF Init
<1>7. info \in [Slot -> Info]
  <2>1. NewInfo("available") \in Info /\ NewInfo("unused") \in Info
    BY NewInfoType
  <2>. QED
    BY <2>1 DEF Init
<1>8. expose \in Seq(Slot)
  BY DEF Init
<1>9. PICK o \in Nat : o = A % Seg
  BY <1>2 DEF StartsAt
<1>10. buf \in Span /\ cur \in Span /\ old \in Span
  BY <1>2, <1>9 DEF Init, StartsAt, Epoch, Span
<1>11. bytes \in [0..(Seg - 1) -> Nat \union {-1}]
  <2>1. ASSUME NEW p \in 0..(Seg - 1) PROVE B + p \in Nat
    BY <1>3
  <2>. QED
    BY <1>2, <2>1 DEF StartsAt
<1>12. my \in [Thread -> Local]
  <2>1. NoLocals \in Local
    <3>1. 0 \in Slot /\ 0 \in 0..(Active - 1)
      BY <1>3 DEF Slot
    <3>. QED
      BY <3>1 DEF NoLocals, Local
  <2>2. ASSUME NEW t \in Thread PROVE [NoLocals EXCEPT !.todo = load.todo[t]] \in Local
    <3>1. load.todo[t] \in Nat
      BY <1>4
    <3>. QED
      BY <2>1, <3>1 DEF Local
  <2>. QED
    BY <1>2, <2>2 DEF StartsAt
<1>13. pc \in [Thread -> PC] /\ dpc = "top" /\ clr = {} /\ kept = {} /\ flag \in [space : BOOLEAN, flush : BOOLEAN]
  BY DEF Init, PC
<1>14. fl \in Job
  BY DEF Init, NoFlush, Job
<1>15. tail \in Nat /\ start \in Nat /\ end \in Nat /\ flushing \in Nat /\ durable \in Nat /\ world = load.world
  BY <1>2 DEF StartsAt
<1>. QED
  BY <1>4, <1>6, <1>7, <1>8, <1>10, <1>11, <1>12, <1>13, <1>14, <1>15 DEF TypeOK

LEMMA StartGroups ==
  ASSUME BufferConstants, Init
  PROVE  GroupInv
<1>1. TypeOK
  BY StartTypes
<1>2. \A t \in Thread : pc[t] = "out"
  BY DEF Init
<1>3. \A t \in Thread : ~Member(t) /\ ~Leader(t) /\ ~Owner(t) /\ pc[t] # "join"
  BY <1>2 DEF Member, Leader, Owner
<1>4. ASSUME NEW s \in Slot
      PROVE  info[s].count \in {"available", "unused"} /\ info[s].joined = 0 /\ info[s].error = FALSE
  <2>1. info[s] = NewInfo("available") \/ info[s] = NewInfo("unused")
    BY DEF Init
  <2>. QED
    BY <2>1, NewInfoType
<1>5. MemberInv
  BY <1>3 DEF MemberInv, MemberRight, Apart, Leader
<1>6. RestInv
  <2>1. ASSUME NEW s \in Slot PROVE Rest(s) = {}
    BY <1>3 DEF Rest
  <2>2. 0 .. (0 - 1) = {}
    OBVIOUS
  <2>. QED
    BY <1>4, <2>1, <2>2 DEF RestInv
<1>7. QueueInv
  <2>1. \A s \in Slot : ~Lined(s)
    BY <1>4 DEF Lined
  <2>2. expose = <<>> /\ DOMAIN expose = {}
    BY DEF Init
  <2>. QED
    BY <2>1, <2>2, Zenon DEF QueueInv
<1>8. OwnerInv
  BY <1>3 DEF OwnerInv
<1>. QED
  BY <1>5, <1>6, <1>7, <1>8 DEF GroupInv

LEMMA StartGhost ==
  ASSUME BufferConstants, Init
  PROVE  \E at \in [Nat -> Int] : Ghost(at)
<1>1. PICK A \in Nat, B \in Nat : \E load \in Loads : StartsAt(A, B, load)
  BY Starts
<1>2. PICK load \in Loads : StartsAt(A, B, load)
  BY <1>1
<1>3. PICK o \in Nat : o = A % Seg
  BY <1>2 DEF StartsAt
<1>4. /\ Seg \in Nat \ {0} /\ Block \in Nat \ {0} /\ Seg % Block = 0
      /\ A \in 0 .. (Data - 1) /\ B % Seg = 0 /\ A = B + o /\ o \in 0 .. (Seg - 1)
      /\ lo(B) = B /\ lo(A) = A /\ B + Seg <= Data
  BY <1>2, <1>3, Sizes DEF StartsAt
<1>5. /\ tail = A /\ flushing = A /\ durable = A /\ start = A /\ end = A
      /\ cur.lsn = B /\ cur.base = B /\ cur.start = o /\ cur.end = o
      /\ buf = cur /\ old.start = 0 /\ old.end = 0 /\ expose = <<>> /\ dpc = "top" /\ clr = {}
  BY <1>2, <1>3 DEF StartsAt, Epoch, Init
<1>6. PICK at \in [Nat -> Int] : \A a \in Nat : at[a] = a
  <2>1. [a \in Nat |-> a] \in [Nat -> Int]
    OBVIOUS
  <2>. QED
    BY <2>1
<1>7. \A a \in 0 .. (A - 1) : a \in Nat /\ at[a] = a
  BY <1>6
<1>8. AtInv(at)
  <2>1. ASSUME NEW a \in 0 .. (A - 1) PROVE lo(a) = a
    <3>1. PICK m \in Nat \ {0} : m = Data + Block
      BY Sizes
    <3>2. a \in 0 .. m - 1
      BY <1>4, <3>1, Sizes
    <3>. QED
      BY <3>1, <3>2, ModSmall DEF lo
  <2>2. ASSUME NEW a \in 0 .. (A - 1) PROVE at[a] \in Nat /\ at[a] < A /\ Where(at[a]) = a % Seg
    BY <1>7, <2>1 DEF Where
  <2>3. ASSUME NEW a \in 0 .. (A - 1), NEW b \in 0 .. (a - 1) PROVE at[b] < at[a]
    <3>1. at[a] = a /\ at[b] = b /\ b < a
      BY <1>6
    <3>. QED
      BY <3>1
  <2>. QED
    BY <1>5, <2>2, <2>3 DEF AtInv
<1>9. CurEnd = A /\ CurLsn = A
  BY <1>4, <1>5 DEF CurEnd, CurLsn
<1>10. ~Shown /\ First = 1 /\ Len(expose) = 0 /\ Line = {}
  <2>1. ~Shown
    BY DEF Shown, Init
  <2>2. Len(expose) = 0
    BY <1>5
  <2>3. 1 .. 0 = {}
    OBVIOUS
  <2>. QED
    BY <2>1, <2>2, <2>3 DEF First, Line
<1>11. EndsInv(at)
  <2>1. Aligned(cur)
    BY <1>4, <1>5 DEF Aligned
  <2>2. Holds(at, cur)
    <3>1. ASSUME NEW x \in 0 .. (o - 1) PROVE at[B + x] = B + x
      BY <1>6
    <3>. QED
      BY <1>5, <3>1 DEF Holds
  <2>3. Aligned(buf)
    BY <1>5, <2>1
  <2>4. end = buf.base + buf.end /\ tail = buf.lsn + buf.end
    BY <1>4, <1>5
  <2>5. CurEnd <= end /\ CurLsn <= tail
    BY <1>5, <1>9
  <2>6. First > Len(expose) /\ Ends(buf) = Ends(cur)
    BY <1>5, <1>10 DEF Ends
  <2>. QED
    BY <2>1, <2>2, <2>3, <2>4, <2>5, <2>6 DEF EndsInv
<1>12. LineInv(at)
  BY <1>10 DEF LineInv
<1>13. BytesInv(at)
  <2>1. PICK k \in Nat : k = Kept /\ k <= A /\ A < k + Block /\ B <= k
    <3>1. A - (A % Block) \in Nat /\ A - (A % Block) <= A /\ A < A - (A % Block) + Block
      BY <1>4, RoundDown
    <3>2. B % Block = 0
      BY <1>4, ModFactor
    <3>3. B - (B % Block) <= A - (A % Block)
      <4>1. B <= A
        BY <1>4
      <4>. QED
        BY <1>4, <4>1, RoundDown
    <3>. QED
      BY <1>5, <3>1, <3>2, <3>3 DEF Kept
  <2>2. Block <= Seg
    <3>1. 0 % Block = 0
      <4>1. 0 \in 0 .. Block - 1
        BY <1>4
      <4>. QED
        BY <1>4, <4>1, ModSmall
    <3>2. 0 + Block <= Seg
      BY <1>4, <3>1, Multiples
    <3>. QED
      BY <1>4, <3>2
  <2>3. start <= end /\ end - Kept <= Seg
    BY <1>4, <1>5, <2>1, <2>2
  <2>4. bytes = [p \in 0..(Seg - 1) |-> IF p < o /\ o - (A % Block) <= p THEN B + p ELSE -1]
    BY <1>2, <1>3 DEF StartsAt
  <2>5. ASSUME NEW a \in k .. (A - 1) PROVE There(at, a)
    <3>1. PICK p \in Nat : a = B + p /\ p < o
      <4>1. a - B \in Nat
        BY <2>1
      <4>. QED
        BY <1>4, <4>1
    <3>2. a % Seg = p
      <4>1. p < Seg
        BY <1>4, <3>1
      <4>. QED
        BY <1>4, <3>1, <4>1, PlaceIs
    <3>3. k = A - (A % Block)
      BY <1>5, <2>1 DEF Kept
    <3>4. o - (A % Block) <= p
      <4>1. PICK r \in Nat : r = A % Block
        <5>1. A % Block \in 0 .. Block - 1 /\ Block \in Nat \ {0}
          BY <1>4, DivMod
        <5>. QED
          BY <5>1
      <4>. QED
        BY <1>4, <3>1, <3>3, <4>1
    <3>5. p \in 0 .. (Seg - 1)
      BY <1>4, <3>1
    <3>6. bytes[p] = B + p
      BY <2>4, <3>1, <3>4, <3>5
    <3>7. at[a] = a
      BY <1>6, <3>1
    <3>. QED
      BY <3>1, <3>2, <3>6, <3>7 DEF There
  <2>6. ASSUME NEW p \in 0 .. (Seg - 1) PROVE ~(bytes[p] >= A)
    <3>1. CASE p < o /\ o - (A % Block) <= p
      <4>1. bytes[p] = B + p
        BY <2>4, <3>1
      <4>. QED
        BY <1>4, <3>1, <4>1
    <3>2. CASE ~(p < o /\ o - (A % Block) <= p)
      <4>1. bytes[p] = -1
        BY <2>4, <3>2
      <4>. QED
        BY <4>1
    <3>. QED
      BY <3>1, <3>2
  <2>. QED
    BY <1>5, <2>1, <2>3, <2>5, <2>6 DEF BytesInv
<1>14. Empty(old) /\ EpochInv(at)
  BY <1>4, <1>5 DEF Empty, EpochInv
<1>15. FlushInv(at)
  <2>1. NextPos = A /\ NextLsn = A
    BY <1>4, <1>5, <1>14 DEF NextPos, NextLsn
  <2>2. Cut(at, A, A, A)
    BY <1>5, <1>7 DEF Cut
  <2>. QED
    BY <1>5, <2>1, <2>2 DEF FlushInv, Idle, Flight
<1>16. RecordInv
  <2>1. ASSUME NEW t \in Thread PROVE ~Recorded(t) /\ pc[t] = "out"
    <3>1. my[t] = [NoLocals EXCEPT !.todo = load.todo[t]] /\ pc[t] = "out"
      BY <1>2 DEF StartsAt, Init
    <3>2. my[t].lsn = -1
      BY <3>1 DEF NoLocals
    <3>. QED
      BY <3>1, <3>2 DEF Recorded
  <2>. QED
    BY <2>1 DEF RecordInv
<1>17. ClrInv(at)
  BY <1>5 DEF ClrInv
<1>18. Ghost(at)
  BY <1>8, <1>11, <1>12, <1>13, <1>14, <1>15, <1>16, <1>17 DEF Ghost
<1>. QED
  BY <1>18

-----------------------------------------------------------------------------
(***************************************************************************)
(* The invariant, and what follows from it.                                *)
(***************************************************************************)
IInv == TypeOK /\ GroupInv /\ \E at \in [Nat -> Int] : Ghost(at)

LEMMA InitInv ==
  ASSUME BufferConstants, Init
  PROVE  IInv
  BY StartTypes, StartGroups, StartGhost DEF IInv

LEMMA StepInv ==
  ASSUME BufferConstants, IInv, [Next /\ KeepsOff]_vars
  PROVE  IInv'
<1>1. TypeOK /\ GroupInv
  BY DEF IInv
<1>2. PICK at \in [Nat -> Int] : Ghost(at)
  BY DEF IInv
<1>3. TypeOK'
  BY <1>1, TypeStep
<1>4. GroupInv'
  BY <1>1, <1>3, GroupStep
<1>5. \E g \in [Nat -> Int] : Ghost(g)'
  <2>1. ASSUME NEW t \in Thread, Allocate(t), KeepsOff PROVE \E g \in [Nat -> Int] : Ghost(g)'
    BY <1>1, <1>2, <1>3, <1>4, <2>1, AllocateGhost
  <2>2. ASSUME NEW t \in Thread, Copy(t) PROVE Ghost(at)'
    BY <1>1, <1>2, <1>3, <1>4, <2>2, CopyGhost
  <2>3. ASSUME NEW t \in Thread, Update(t) PROVE Ghost(at)'
    BY <1>1, <1>2, <1>3, <2>3, UpdateGhost
  <2>4. ASSUME NEW t \in Thread, HandOver(t) PROVE Ghost(at)'
    BY <1>1, <1>2, <1>3, <2>4, HandOverGhost
  <2>5. ASSUME NEW t \in Thread, Calm(t) \/ compensate(t) PROVE Ghost(at)'
    BY <1>1, <1>2, <1>3, <2>5, GhostCalm
  <2>6. ASSUME DaemonTop \/ NothingToFlush \/ WaitForLogSpace \/ ReleaseSpace \/ UNCHANGED vars PROVE Ghost(at)'
    BY <1>1, <1>2, <1>3, <2>6, GhostCalm
  <2>7. ASSUME ChooseFlush PROVE Ghost(at)'
    BY <1>1, <1>2, <2>7, ChooseGhost
  <2>8. ASSUME NoMoreCompensation \/ Write PROVE Ghost(at)'
    BY <1>1, <1>2, <1>3, <2>8, FlushGoesOn
  <2>9. ASSUME NowFree PROVE Ghost(at)'
    BY <1>1, <1>2, <1>3, <2>9, FreeGhost
  <2>10. CASE UNCHANGED vars
    BY <1>2, <2>6, <2>10
  <2>11. CASE Next /\ KeepsOff
    <3>1. ASSUME NEW t \in Thread, Insert(t) \/ FlushNow(t) \/ compensate(t) \/ Progress(t)
          PROVE  \E g \in [Nat -> Int] : Ghost(g)'
      <4>1. Allocate(t) \/ Copy(t) \/ Update(t) \/ HandOver(t) \/ Calm(t) \/ compensate(t)
        BY <3>1 DEF Progress, Inserting, Flushing, Calm
      <4>. QED
        BY <1>2, <2>1, <2>2, <2>3, <2>4, <2>5, <2>11, <4>1
    <3>2. CASE Daemon
      BY <1>2, <2>6, <2>7, <2>8, <2>9, <3>2 DEF Daemon
    <3>3. CASE WaitForLogSpace \/ ReleaseSpace \/ Done
      BY <1>2, <2>6, <3>3 DEF Done
    <3>. QED
      BY <2>11, <3>1, <3>2, <3>3 DEF Next
  <2>. QED
    BY <2>10, <2>11
<1>. QED
  BY <1>3, <1>4, <1>5 DEF IInv

\* What a flush reads of an epoch is in the buffer: nobody has yet to copy it.
LEMMA InBuffer ==
  ASSUME BufferConstants, TypeOK, GroupInv, NEW at, Ghost(at), NEW b \in Nat, b % Seg = 0,
         NEW p \in 0 .. (Seg - 1), Kept <= b + p, b + p < CurEnd, at[b + p] # -1
  PROVE  bytes[p] = at[b + p]
<1>1. PICK a \in Nat : a = b + p
  OBVIOUS
<1>2. Kept \in Nat /\ end \in Nat /\ CurEnd \in Nat /\ CurEnd <= end /\ Seg \in Nat \ {0}
  BY KeptIs, EndTypes, Sizes DEF Ghost, EndsInv
<1>3. a \in Kept .. (end - 1) /\ a < CurEnd
  BY <1>1, <1>2
<1>4. a % Seg = p
  <2>1. p \in Nat /\ p < Seg
    BY <1>2
  <2>2. (b + p) % Seg = p
    BY <2>1, PlaceIs
  <2>. QED
    BY <1>1, <2>2
<1>5. ASSUME NEW t \in Thread, Copies(t), a \in Target(t) PROVE FALSE
  <2>1. PICK k \in Line, P \in Nat, n \in Nat \ {0}, B \in Nat, L \in Nat : Copying(at, t, k, P, n, B, L)
    BY <1>5, TargetIs
  <2>2. Target(t) = {B + y : y \in P .. (P + n - 1)}
    BY <2>1 DEF Copying
  <2>3. PICK y \in P .. (P + n - 1) : a = B + y
    BY <1>5, <2>2
  <2>4. CurEnd <= B + y
    BY <2>1, TargetIn
  <2>. QED
    BY <1>2, <1>3, <2>3, <2>4
<1>6. There(at, a)
  BY <1>3 DEF Ghost, BytesInv
<1>. QED
  BY <1>1, <1>4, <1>5, <1>6 DEF There

LEMMA BlockOffset ==
  ASSUME BufferConstants, NEW x \in Nat
  PROVE  lo(x) % Block \in Nat /\ lo(x) % Block <= x
<1>1. PICK m \in Nat \ {0} : m = Data + Block
  BY Sizes
<1>2. lo(x) \in 0 .. m - 1 /\ file(x) \in Nat /\ x = m * file(x) + lo(x)
  BY <1>1, LsnParts
<1>3. m * file(x) \in Nat
  BY <1>2
<1>4. lo(x) \in Nat /\ lo(x) <= x
  BY <1>2, <1>3
<1>5. Block \in Nat \ {0}
  BY Sizes
<1>6. PICK y \in Nat : y = lo(x)
  BY <1>4
<1>7. y % Block \in Nat /\ y % Block <= y
  <2>1. y \div Block \in Nat /\ y % Block \in 0 .. Block - 1 /\ y = Block * (y \div Block) + (y % Block)
    BY <1>5, DivMod
  <2>2. Block * (y \div Block) \in Nat
    BY <1>5, <2>1
  <2>. QED
    BY <1>5, <2>1, <2>2
<1>. QED
  BY <1>4, <1>6, <1>7

LEMMA StableFlush ==
  ASSUME BufferConstants, IInv
  PROVE  FlushStable
<1>1. TypeOK /\ GroupInv
  BY DEF IInv
<1>2. PICK at \in [Nat -> Int] : Ghost(at)
  BY DEF IInv
<1>3. SUFFICES ASSUME dpc = "write", NEW p \in One \union Two
               PROVE  bytes[p] = IF p \in One THEN fl.lsn + p - fl.start1
                                              ELSE fl.lsn + fl.end1 - fl.start1 + p - fl.start2
  BY DEF FlushStable, Flushes, One, Two
<1>4. InFlight(at)
  BY <1>2, <1>3 DEF Ghost, FlushInv, Flight
<1>5. PICK l \in Nat, s1 \in Nat, e1 \in Nat, s2 \in Nat, e2 \in Nat, d \in Nat :
        /\ l = fl.lsn /\ s1 = fl.start1 /\ e1 = fl.end1 /\ s2 = fl.start2 /\ e2 = fl.end2
        /\ d = lo(fl.lsn) % Block /\ d <= l
  <2>1. fl.lsn \in Nat /\ fl.start1 \in Nat /\ fl.end1 \in Nat /\ fl.start2 \in Nat /\ fl.end2 \in Nat
    BY <1>1, SpanTypes
  <2>2. lo(fl.lsn) % Block \in Nat /\ lo(fl.lsn) % Block <= fl.lsn
    BY <2>1, BlockOffset
  <2>. QED
    BY <2>1, <2>2
<1>6. PICK b1 \in Nat, b2 \in Nat : b1 = FlBase1 /\ b2 = FlBase2 /\ b1 % Seg = 0 /\ b2 % Seg = 0
  BY <1>4 DEF InFlight
<1>7. s1 <= e1
  BY <1>4, <1>5 DEF InFlight
<1>8. CASE p \in One
  <2>1. /\ p \in 0 .. (Seg - 1) /\ Kept <= b1 + p /\ b1 + p < CurEnd /\ at[b1 + p] = l + p - s1
    BY <1>4, <1>5, <1>6, <1>8 DEF InFlight
  <2>2. p \in (s1 - d) .. (e1 - 1)
    BY <1>5, <1>8 DEF One
  <2>3. l + p - s1 # -1
    BY <1>5, <2>2
  <2>4. bytes[p] = at[b1 + p]
    BY <1>1, <1>2, <1>6, <2>1, <2>3, InBuffer
  <2>. QED
    BY <1>5, <1>8, <2>1, <2>4
<1>9. CASE p \notin One
  <2>0. p \in Two
    BY <1>9
  <2>1. /\ p \in 0 .. (Seg - 1) /\ Kept <= b2 + p /\ b2 + p < CurEnd /\ at[b2 + p] = l + e1 - s1 + p - s2
    BY <1>4, <1>5, <1>6, <2>0 DEF InFlight
  <2>2. p \in s2 .. (e2 - 1)
    BY <1>5, <2>0 DEF Two
  <2>3. l + e1 - s1 + p - s2 # -1
    BY <1>7, <2>2
  <2>4. bytes[p] = at[b2 + p]
    BY <1>1, <1>2, <1>6, <2>1, <2>3, InBuffer
  <2>. QED
    BY <1>5, <1>9, <2>1, <2>4
<1>. QED
  BY <1>8, <1>9

LEMMA FlushFollows ==
  ASSUME BufferConstants, IInv
  PROVE  Unbroken
<1>1. TypeOK /\ GroupInv
  BY DEF IInv
<1>2. PICK at \in [Nat -> Int] : Ghost(at)
  BY DEF IInv
<1>3. SUFFICES ASSUME dpc = "write", fl.lsn # durable
               PROVE  lo(fl.lsn) = 0 /\ \A p \in DOMAIN bytes : ~(durable <= bytes[p] /\ bytes[p] < fl.lsn)
  BY DEF Unbroken
<1>4. InFlight(at)
  BY <1>2, <1>3 DEF Ghost, FlushInv, Flight
<1>5. Cut(at, durable, FlPos, fl.lsn) /\ FlBase1 \in Nat
  BY <1>4 DEF InFlight
<1>6. lo(fl.lsn) = 0
  BY <1>3, <1>5 DEF Cut
<1>7. PICK p0 \in Nat, l \in Nat, d \in Nat : p0 = FlPos /\ l = fl.lsn /\ d = durable
  <2>1. fl.start1 \in Nat /\ fl.lsn \in Nat
    BY <1>1, SpanTypes
  <2>2. FlPos \in Nat
    BY <1>5, <2>1 DEF FlPos
  <2>3. durable \in Nat
    BY <1>1 DEF TypeOK
  <2>. QED
    BY <2>1, <2>2, <2>3
<1>8. ASSUME NEW p \in DOMAIN bytes, d <= bytes[p], bytes[p] < l PROVE FALSE
  <2>1. p \in 0 .. (Seg - 1) /\ bytes[p] \in Int /\ bytes[p] >= durable
    <3>1. bytes \in [0..(Seg - 1) -> Nat \union {-1}]
      BY <1>1 DEF TypeOK
    <3>2. PICK q \in 0 .. (Seg - 1), v \in Nat \union {-1} : q = p /\ v = bytes[p]
      BY <3>1
    <3>3. v >= d
      BY <1>7, <1>8, <3>2
    <3>. QED
      BY <1>7, <3>2, <3>3
  <2>2. PICK a \in 0 .. (end - 1) : at[a] = bytes[p]
    BY <1>2, <2>1 DEF Ghost, BytesInv
  <2>3. AtInv(at)
    BY <1>2 DEF Ghost
  <2>4. (a < p0 => at[a] < d) /\ (~(a < p0) => at[a] = -1 \/ (l <= at[a] /\ d <= at[a]))
    BY <1>1, <1>5, <1>7, <2>3, CutTells
  <2>5. end \in Nat
    BY <1>1, EndTypes
  <2>. QED
    BY <1>8, <2>1, <2>2, <2>4, <2>5
<1>. QED
  BY <1>6, <1>7, <1>8

LEMMA EpochsMove ==
  ASSUME BufferConstants, IInv
  PROVE  EpochsInOrder
<1>1. TypeOK /\ GroupInv
  BY DEF IInv
<1>2. PICK at \in [Nat -> Int] : Ghost(at)
  BY DEF IInv
<1>3. ASSUME NEW t \in Thread, pc[t] = "update" \/ (pc[t] = "expose" /\ info[my[t].slot].state = "go"),
             NEW s, s = my[t].slot
      PROVE  /\ cur.base + cur.end = info[s].oldEnd
             /\ info[s].newBase > 0 \/ info[s].pos > Seg => Empty(old)
             /\ Head(expose) = s
  <2>1. /\ s \in Slot /\ expose[1] = s /\ First = 1 /\ 1 \in Line /\ Grp(1) = Spot(info[s]) /\ Len(expose) \in Nat
        /\ 1 \in 1 .. Len(expose)
    BY <1>1, <1>3, UpdateFirst
  <2>2. PICK i : i = Spot(info[s])
    OBVIOUS
  <2>3. LineRight(at, 1) /\ SpotOK(i)
    BY <1>2, <2>1, <2>2, <1>1, SpotTypes DEF Ghost, LineInv
  <2>4. Follows(Ends(cur), i) /\ Fin(i) <= end
    BY <2>1, <2>2, <2>3 DEF LineRight, Prev
  <2>5. /\ EpochOK(Ends(cur)) /\ Aligned(Ends(cur))
        /\ Ends(cur).lsn = cur.lsn /\ Ends(cur).base = cur.base /\ Ends(cur).end = cur.end
    <3>1. EndsInv(at)
      BY <1>2 DEF Ghost
    <3>. QED
      BY <1>1, <3>1, SpanTypes DEF EndsInv, EpochOK, Ends, Aligned
  <2>6. i.newBase = info[s].newBase /\ i.pos = info[s].pos /\ i.oldEnd = info[s].oldEnd
    BY <2>2 DEF Spot
  <2>7. cur.base + cur.end = info[s].oldEnd
    BY <2>4, <2>5, <2>6, FollowsHow
  <2>8. ASSUME info[s].newBase > 0 \/ info[s].pos > Seg PROVE Empty(old)
    <3>1. ~Goes(Ends(cur), i)
      <4>1. i.pos \in Nat /\ Seg \in Nat
        BY <2>3, Sizes DEF SpotOK
      <4>. QED
        BY <2>6, <2>8, <4>1 DEF Goes
    <3>. QED
      BY <1>1, <1>2, <2>3, <2>4, <2>5, <3>1, OldFlushed
  <2>9. Head(expose) = s
    <3>1. expose \in Seq(Slot) /\ expose # <<>>
      BY <1>1, <2>1 DEF TypeOK
    <3>. QED
      BY <2>1, <3>1
  <2>. QED
    BY <2>7, <2>8, <2>9
<1>. QED
  BY <1>3, Zenon DEF EpochsInOrder

LEMMA FlushingIs ==
  ASSUME TypeOK, NEW at, Ghost(at)
  PROVE  durable \in Nat /\ flushing \in Nat /\ durable <= flushing
<1>1. durable \in Nat /\ flushing \in Nat /\ fl.upto \in Nat /\ fl.lsn \in Nat
  BY SpanTypes DEF TypeOK
<1>2. dpc = "write" => durable <= fl.lsn /\ fl.lsn <= fl.upto
  BY <1>1 DEF Ghost, FlushInv, Flight, InFlight, Cut
<1>3. flushing = IF dpc = "write" THEN fl.upto ELSE durable
  BY DEF Ghost, FlushInv
<1>. QED
  BY <1>1, <1>2, <1>3

LEMMA KeptCompensation ==
  ASSUME BufferConstants, IInv
  PROVE  CompensationKept
<1>1. TypeOK /\ GroupInv
  BY DEF IInv
<1>2. PICK at \in [Nat -> Int] : Ghost(at)
  BY DEF IInv
<1>3. ASSUME NEW t \in Thread, Compensable(t) PROVE bytes[Where(my[t].lsn)] = my[t].lsn
  <2>1. PICK l \in Nat, n \in Nat : l = my[t].lsn /\ n = my[t].size
    BY <1>1, <1>3, LocalTypes DEF Compensable, HasLogged
  <2>2. durable <= l
    <3>1. l >= flushing
      BY <1>3, <2>1 DEF Compensable
    <3>. QED
      BY <1>1, <1>2, <2>1, <3>1, FlushingIs
  <2>3. RecordRight(t)
    <3>1. Recorded(t)
      BY <2>1 DEF Recorded
    <3>. QED
      BY <1>2, <3>1 DEF Ghost, RecordInv
  <2>4. l \in l .. (l + n - 1)
    BY <2>1, <2>3 DEF RecordRight
  <2>. QED
    BY <2>1, <2>2, <2>3, <2>4 DEF RecordRight, RecEnd
<1>4. \A l \in clr : l < durable => l \in kept
  BY <1>2 DEF Ghost, ClrInv
<1>. QED
  BY <1>3, <1>4 DEF CompensationKept

\* Only a copy writes into the buffer.
LEMMA KeptBytes ==
  ASSUME BufferConstants, IInv, [Next /\ KeepsOff]_vars, bytes' # bytes, NEW p \in DOMAIN bytes, bytes'[p] # bytes[p]
  PROVE  bytes[p] < durable
<1>. USE DEF group, ends, epochs, disk
<1>1. TypeOK /\ GroupInv
  BY DEF IInv
<1>2. PICK at \in [Nat -> Int] : Ghost(at)
  BY DEF IInv
<1>3. PICK t \in Thread : Copy(t)
  <2>1. Next
    BY DEF vars
  <2>2. ~Daemon /\ ~WaitForLogSpace /\ ~ReleaseSpace /\ ~Done
    BY DEF Daemon, DaemonTop, NothingToFlush, ChooseFlush, NoMoreCompensation, Write, NowFree, WaitForLogSpace,
           ReleaseSpace, Done, vars
  <2>3. PICK t \in Thread : Insert(t) \/ FlushNow(t) \/ compensate(t) \/ Progress(t)
    BY <2>1, <2>2 DEF Next
  <2>4. ~Insert(t) /\ ~FlushNow(t) /\ ~compensate(t) /\ ~Flushing(t)
    BY DEF Insert, FlushNow, compensate, Flushing, AwaitFlush, Flushed
  <2>5. Copy(t)
    BY <2>3, <2>4 DEF Progress, Inserting, NextSlot, Join, Close, NoSpace, AwaitSpace, SpaceCame, Allocate, OutOfLogSpace,
                      Fail, Abandon, Update, HandOver
  <2>. QED
    BY <2>5
<1>4. p \in 0 .. (Seg - 1) /\ bytes[p] \in Int /\ durable \in Int
  <2>1. bytes \in [0..(Seg - 1) -> Nat \union {-1}] /\ durable \in Nat
    BY <1>1 DEF TypeOK
  <2>2. p \in 0 .. (Seg - 1)
    BY <2>1
  <2>3. bytes[p] \in Nat \union {-1}
    BY <2>1, <2>2
  <2>. QED
    BY <2>1, <2>2, <2>3
<1>5. ~(bytes[p] >= durable)
  BY <1>1, <1>2, <1>3, <1>4, CopyOver
<1>. QED
  BY <1>4, <1>5

LEMMA BelowDurable ==
  ASSUME TypeOK, NEW at, Ghost(at), NEW t \in Thread, Recorded(t), my[t].lsn < durable
  PROVE  my[t].lsn + my[t].size <= durable
<1>1. Whole(t, durable)
  BY DEF Ghost, RecordInv, RecordRight
<1>2. PICK l \in Nat \union {-1} : l = my[t].lsn
  BY LocalTypes
<1>3. PICK d \in Nat : d = durable
  BY DEF TypeOK
<1>4. l < d
  BY <1>2, <1>3
<1>5. ~(d <= l)
  <2>1. l \in Int
    OBVIOUS
  <2>. QED
    BY <1>4, <2>1
<1>. QED
  BY <1>1, <1>2, <1>3, <1>5, Zenon DEF Whole, RecEnd

\* Who waits for a flush goes on only when its record is below durable.
LEMMA KeptFlush ==
  ASSUME BufferConstants, IInv, [Next /\ KeepsOff]_vars, pc' # pc, NEW t \in Thread, pc[t] = "flush wait", pc'[t] = "out"
  PROVE  my[t].lsn + my[t].size <= durable
<1>. USE DEF group, ends, epochs, disk
<1>1. TypeOK /\ GroupInv
  BY DEF IInv
<1>2. PICK at \in [Nat -> Int] : Ghost(at)
  BY DEF IInv
<1>3. pc \in [Thread -> PC]
  BY <1>1 DEF TypeOK
<1>4. Durable(my[t].lsn)
  <2>1. Next
    BY DEF vars
  <2>2. ~Daemon /\ ~WaitForLogSpace /\ ~ReleaseSpace /\ ~Done
    BY <1>3 DEF Daemon, DaemonTop, NothingToFlush, ChooseFlush, NoMoreCompensation, Write, NowFree, WaitForLogSpace,
                ReleaseSpace, Done, vars, Broadcast
  <2>3. PICK u \in Thread : Insert(u) \/ FlushNow(u) \/ compensate(u) \/ Progress(u)
    BY <2>1, <2>2 DEF Next
  <2>4. u = t /\ Flushed(t)
    <3>1. ~Insert(u) /\ ~FlushNow(u) /\ ~compensate(u) /\ ~AwaitFlush(u)
      BY <1>3 DEF Insert, FlushNow, compensate, AwaitFlush, Go
    <3>2. ~NextSlot(u) /\ ~Join(u) /\ ~Close(u) /\ ~NoSpace(u) /\ ~AwaitSpace(u) /\ ~SpaceCame(u)
      BY <1>3 DEF NextSlot, Join, Close, NoSpace, AwaitSpace, SpaceCame, Go
    <3>3. ~Allocate(u) /\ ~OutOfLogSpace(u) /\ ~Abandon(u) /\ ~Update(u)
      BY <1>3 DEF Allocate, OutOfLogSpace, Abandon, Update, Go
    <3>4. ~Copy(u) /\ ~Fail(u)
      BY <1>3 DEF Copy, Fail, Leaves, Go
    <3>5. ~HandOver(u)
      BY <1>3 DEF HandOver, Go
    <3>6. Flushed(u)
      BY <2>3, <3>1, <3>2, <3>3, <3>4, <3>5 DEF Progress, Inserting, Flushing
    <3>. QED
      BY <1>3, <3>6 DEF Flushed, Go
  <2>. QED
    BY <2>4 DEF Flushed
<1>5. Recorded(t)
  BY <1>2 DEF Ghost, RecordInv
<1>. QED
  BY <1>1, <1>2, <1>4, <1>5, BelowDurable DEF Durable

-----------------------------------------------------------------------------
(***************************************************************************)
(* The theorems, for inserts that keep off what is not on disk yet.        *)
(***************************************************************************)
\* What a flush writes is what was inserted there, to the last byte, while others insert and copy.
THEOREM BufferFlushStable ==
  ASSUME BufferConstants
  PROVE  SparedSpec => []FlushStable
<1>1. Init => IInv
  BY InitInv
<1>2. IInv /\ [Next /\ KeepsOff]_vars => IInv'
  BY StepInv
<1>3. IInv => FlushStable
  BY StableFlush
<1>. QED
  BY <1>1, <1>2, <1>3, PTL DEF SparedSpec

\* Flushes leave nothing of the log out, and groups enter the epochs in the order of the log, when the
\* epoch that they replace is on disk.
THEOREM BufferInOrder ==
  ASSUME BufferConstants
  PROVE  SparedSpec => [](Unbroken /\ EpochsInOrder)
<1>1. Init => IInv
  BY InitInv
<1>2. IInv /\ [Next /\ KeepsOff]_vars => IInv'
  BY StepInv
<1>3. IInv => Unbroken /\ EpochsInOrder
  BY FlushFollows, EpochsMove
<1>. QED
  BY <1>1, <1>2, <1>3, PTL DEF SparedSpec

\* A record that may be compensated is found where compensate looks for it, and is on disk as it was
\* left.
THEOREM BufferCompensationKept ==
  ASSUME BufferConstants
  PROVE  SparedSpec => []CompensationKept
<1>1. Init => IInv
  BY InitInv
<1>2. IInv /\ [Next /\ KeepsOff]_vars => IInv'
  BY StepInv
<1>3. IInv => CompensationKept
  BY KeptCompensation
<1>. QED
  BY <1>1, <1>2, <1>3, PTL DEF SparedSpec

\* A copy changes no byte that is not on disk yet.
THEOREM BufferNoOverwrite ==
  ASSUME BufferConstants
  PROVE  SparedSpec => NoOverwrite
<1>1. Init => IInv
  BY InitInv
<1>2. IInv /\ [Next /\ KeepsOff]_vars => IInv'
  BY StepInv
<1>3. IInv /\ [Next /\ KeepsOff]_vars =>
        [bytes' # bytes => \A p \in DOMAIN bytes : bytes'[p] # bytes[p] => bytes[p] < durable]_vars
  BY KeptBytes
<1>. QED
  BY <1>1, <1>2, <1>3, PTL DEF SparedSpec, NoOverwrite

\* flush returns when the record is on disk, all of it.
THEOREM BufferFlushKept ==
  ASSUME BufferConstants
  PROVE  SparedSpec => FlushKept
<1>1. Init => IInv
  BY InitInv
<1>2. IInv /\ [Next /\ KeepsOff]_vars => IInv'
  BY StepInv
<1>3. IInv /\ [Next /\ KeepsOff]_vars =>
        [pc' # pc => \A t \in Thread :
           pc[t] = "flush wait" /\ pc'[t] = "out" => my[t].lsn + my[t].size <= durable]_vars
  BY KeptFlush
<1>. QED
  BY <1>1, <1>2, <1>3, PTL DEF SparedSpec, FlushKept
=============================================================================
