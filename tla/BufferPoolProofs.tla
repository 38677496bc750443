-------------------------- MODULE BufferPoolProofs --------------------------
(***************************************************************************)
(* A page is in the buffer pool once, who fixes it gets its last version,  *)
(* and no update is lost, for any number of threads, frames, pages and     *)
(* slots: unless one of three races that the code leaves open is run,      *)
(* which ~Overtaken, FewMoves and OwnTransit exclude.                      *)
(***************************************************************************)
EXTENDS BufferPool, FiniteSetTheorems, TLAPS

VARIABLE moved   \* thread -> the moves of the page it looks for, in the round before and in this one

hvars == <<poolVars, moved>>

\* A round of grab looks at both buckets of a page.  A move that it counts is one that takes the
\* page from one of its buckets to the other.
Has(b, p) == Get(b, p) # {}
HasMoved(p) == \E b, c \in Bucket : b # c /\ Has(b, p) /\ Has(c, p)'
NextRound(t) == my[t].i = 2 /\ place'[t] = "look" /\ my'[t].i = 1

Count ==
  moved' = [t \in Thread |->
    IF place[t] # "look" THEN [before |-> 0, now |-> 0]
    ELSE IF NextRound(t) THEN [before |-> moved[t].now, now |-> 0]
    ELSE IF HasMoved(my[t].p) THEN [moved[t] EXCEPT !.now = @ + 1]
    ELSE moved[t]]

\* What grab relies on when it takes the page for missing, two rounds having found the same
\* counts: a page that was in the table all the time would have had to be moved three times.
FewMoves ==
  \A t \in Thread : place[t] = "look" /\ place'[t] = "insert" => moved[t].before + moved[t].now <= 2

\* A dirty page that leaves, and one that publish_partial has to take out of transit if it is there.
Leaves(t) == place[t] \in {"evicted", "write"} /\ cb[my[t].f].dirty
Publishes(t) == place[t] = "partial" /\ place'[t] = "grab"

\* What publish_partial relies on: the page is in transit only if it was dirty when this
\* thread took it out, not because another has brought it back, changed it and taken it out.
OwnTransit ==
  \A t, u \in Thread :
    t # u /\ Publishes(t) /\ Leaves(u) => cb[my[u].f].old # cb[my[t].f].old

SparedInit == PoolInit /\ moved = [t \in Thread |-> [before |-> 0, now |-> 0]]
SparedNext == PoolNext /\ Count /\ FewMoves /\ OwnTransit
SparedSpec == SparedInit /\ [][SparedNext]_hvars
-----------------------------------------------------------------------------
(***************************************************************************)
(* The inductive invariant.                                                *)
(***************************************************************************)
\* By what a thread has: a frame of its own, that is not in the table; a latched frame of the
\* table; a pinned one; one that it has found and that stays in the table.
Looking  == {"look", "insert", "move"}
Emptying == {"evicted", "write", "partial"}
Owning   == Emptying \union {"grab", "transit"} \union Looking
Reading  == {"fixed", "unfix", "clean", "lock", "copy"}
Pinning  == {"transit", "read", "latch"} \union Looking \union Reading
Using    == {"latch", "read", "unlatch", "flush"} \union Reading
Steps    == {"out", "search", "probe", "take", "clock", "evict"} \union Owning \union Using

Modes == {"NL", "SH", "EX"}
Maybe(S) == S \union {NoOne}
Block ==
  [pid : Maybe(Page), old : Maybe(Page), pin : Int, held : [Thread -> Modes],
   dirty : BOOLEAN, writing : BOOLEAN, page : Maybe(Page), ver : Nat]
Locals ==
  [p : Maybe(Page), mode : Modes \union {"clean"}, i : {1, 2}, s : Nat \ {0}, f : Maybe(Frame),
   b : Maybe(Bucket), to : Maybe(Bucket), victim : Maybe(Page), first : BOOLEAN,
   residents : [{1, 2} -> Nat], same : Nat, copy : Nat, todo : Nat]
Chain == [slot : [1..SlotCount -> Maybe(Frame)], count : 0..SlotCount]
TransitBucket == {Transit[p] : p \in Page}
Mutex == {WriteMutex[p] : p \in Page}
Calls == Page \X {"SH", "EX", "clean"}

TypeOK ==
  /\ cb \in [Frame -> Block]
  /\ table \in [Bucket -> Chain]
  /\ unused \in SUBSET Frame
  /\ transit \in [TransitBucket -> SUBSET Page]
  /\ tb \in [TransitBucket -> Maybe(Thread)]
  /\ writer \in [Mutex -> Maybe(Thread)]
  /\ disk \in [Page -> Nat] /\ latest \in [Page -> Nat]
  /\ may \in [Thread -> SUBSET Calls]
  /\ place \in [Thread -> Steps]
  /\ my \in [Thread -> Locals]
  /\ moved \in [Thread -> [before : Nat, now : Nat]]

\* What a thread's locals are good for, by where it is.
LocalsOK(t) ==
  /\ place[t] # "out" => my[t].p \in Page /\ my[t].mode # "NL"
  /\ place[t] \in Owning \union Using \union {"probe", "evict"} => my[t].f \in Frame
  /\ place[t] = "evict" => my[t].b \in Bucket /\ my[t].victim \in Page
  /\ my[t].first => my[t].same = 0
  /\ place[t] # "look" => my[t].first
  /\ place[t] = "transit" => my[t].i = 1
  /\ Cleans(t) => place[t] \in {"search", "probe", "latch", "clean", "lock", "copy", "unfix", "unlatch", "flush"}
  /\ place[t] \in {"clean", "lock", "copy", "flush"} => Cleans(t)
  /\ place[t] = "fixed" => ~Cleans(t)
  /\ my[t].copy > 0 => place[t] \in {"unfix", "unlatch", "flush"} /\ Cleans(t)
  /\ place[t] = "flush" => my[t].copy > 0

\* Latches and pins are those that the threads should have.
LatchOf(t) ==
  IF place[t] \in Owning \union {"read"} THEN "EX"
  ELSE IF place[t] \in Reading \union {"unlatch"} THEN Mode(t)
  ELSE "NL"
Latched ==
  \A f \in Frame : \A t \in Thread : cb[f].held[t] = IF my[t].f = f THEN LatchOf(t) ELSE "NL"
Excluded ==
  \A f \in Frame : \A t, u \in Thread : t # u /\ cb[f].held[t] = "EX" => cb[f].held[u] = "NL"

Pinners(f) == {t \in Thread : my[t].f = f /\ place[t] \in Pinning}
PinsCounted == \A f \in Frame : cb[f].pin = Cardinality(Pinners(f))

\* The slots in use have frames, with pages that belong there, and none twice.
Slots(b) == 1..table[b].count
SlotsFilled ==
  \A b \in Bucket : \A i \in Slots(b) :
    LET f == table[b].slot[i]
    IN  f \in Frame /\ cb[f].pid \in Page /\ \E h \in 1..2 : b = Hash[h][cb[f].pid]
SlotsDiffer ==
  \A b, c \in Bucket : \A i \in Slots(b), j \in Slots(c) :
    cb[table[b].slot[i]].pid = cb[table[c].slot[j]].pid => b = c /\ i = j

\* A frame is in the table, free, or has an owner; or it is none of these and never was.
Owned(t) == place[t] \in Owning => ~InTable(my[t].f) /\ my[t].f \notin unused /\ ~cb[my[t].f].writing
Used(t) == place[t] \in Using => InTable(my[t].f) /\ cb[my[t].f].pid = my[t].p
Unused == \A f \in unused : ~InTable(f) /\ ~cb[f].dirty /\ ~cb[f].writing

\* What has been read of a slot still holds.
Probed(t) ==
  place[t] = "probe" =>
    LET g == table[Here(t)].slot[my[t].s]
    IN  InTable(my[t].f) /\ my[t].s \in 1..SlotCount /\ g \in Frame /\ InTable(g)
Moves(t) ==
  place[t] = "move" =>
    LET f == table[my[t].b].slot[my[t].s]
    IN  /\ my[t].b \in Bucket /\ my[t].s \in Slots(my[t].b)
        /\ my[t].to \in Bucket \ {my[t].b}
        /\ \E h \in 1..2 : my[t].to = Hash[h][cb[f].pid]
OneMover == \A t, u \in Thread : place[t] = "move" /\ place[u] = "move" => t = u

\* Mutexes.
BucketsOwned ==
  \A b \in TransitBucket : \A t \in Thread :
    tb[b] = t <=> place[t] \in Looking /\ Transit[my[t].p] = b
Writing(t) == place[t] = "copy" \/ my[t].copy > 0
PagesOwned ==
  \A m \in Mutex : \A t \in Thread :
    writer[m] = t <=> \/ place[t] = "write" /\ m = WriteMutex[cb[my[t].f].old]
                      \/ Writing(t) /\ m = WriteMutex[my[t].p]

\* A page that is looked for is not in transit; a page that is put in is not there.
Absent(p) == \A f \in Frame : InTable(f) => cb[f].pid # p
Sought(t) == place[t] \in Looking => my[t].p \notin transit[Transit[my[t].p]]
Missing(t) == place[t] \in {"insert", "move"} => cb[my[t].f].pid = my[t].p /\ Absent(my[t].p)

\* A page that is there and has not been found has been moved that often.
Evades(t) ==
  LET p     == my[t].p
      times == moved[t].before + moved[t].now
  IN  place[t] = "look" =>
        \A b \in Bucket : Has(b, p) =>
          /\ my[t].i = 1 /\ ~my[t].first => times >= IF b = Hash[1][p] THEN 1 ELSE 2
          /\ my[t].i = 2 /\ ~my[t].first => times >= IF b = Hash[2][p] THEN 2 ELSE 3
          /\ my[t].i = 2 /\ b # Hash[2][p] => moved[t].now >= 1

\* A page that leaves is the last version, is in transit and not in the table.
Leaving(t) ==
  LET c == cb[my[t].f]
  IN  /\ place[t] \in Emptying => c.old \in Page /\ c.pid = c.old
      /\ place[t] = "write" => c.dirty
      /\ Leaves(t) =>
           /\ c.page = c.old /\ c.ver = latest[c.old]
           /\ c.old \in transit[Transit[c.old]] /\ Absent(c.old)
LeavesOnce ==
  \A t, u \in Thread :
    Leaves(t) /\ Leaves(u) /\ cb[my[t].f].old = cb[my[u].f].old => t = u

\* A frame in the table has the last version of its page, and will be written if the disk
\* does not; or it is still to be read from there.
IsRead(f) == \E t \in Thread : place[t] = "read" /\ my[t].f = f
Current ==
  \A f \in Frame : InTable(f) /\ ~IsRead(f) =>
    LET c == cb[f]
    IN  c.page = c.pid /\ c.ver = latest[c.pid] /\ (c.dirty \/ c.writing \/ disk[c.pid] = latest[c.pid])
Fetched(t) == place[t] = "read" => disk[my[t].p] = latest[my[t].p] /\ ~cb[my[t].f].writing
Cleared(t) == place[t] \in (Owning \ {"evicted", "write"}) \union {"read"} => ~cb[my[t].f].dirty
OnDisk ==
  \A p \in Page : Absent(p) /\ (\A t \in Thread : Leaves(t) => cb[my[t].f].old # p) => disk[p] = latest[p]

\* A frame that is being written has a cleaner with a copy, of the last version if it is not dirty again.
Positive == \A f \in Frame : cb[f].dirty => cb[f].ver > 0
Copied(t) ==
  my[t].copy > 0 =>
    LET c == cb[my[t].f] IN c.writing /\ (~c.dirty => my[t].copy = c.ver)
Cleaned == \A f \in Frame : cb[f].writing => \E t \in Thread : my[t].copy > 0 /\ my[t].f = f

EachOK(t) ==
  /\ LocalsOK(t) /\ Owned(t) /\ Used(t) /\ Probed(t) /\ Moves(t) /\ Sought(t) /\ Missing(t)
  /\ Evades(t) /\ Leaving(t) /\ Fetched(t) /\ Cleared(t) /\ Copied(t)

IInv ==
  /\ TypeOK /\ \A t \in Thread : EachOK(t)
  /\ Latched /\ Excluded /\ PinsCounted
  /\ SlotsFilled /\ SlotsDiffer /\ Unused /\ OneMover
  /\ BucketsOwned /\ PagesOwned /\ LeavesOnce
  /\ Current /\ OnDisk /\ Positive /\ Cleaned
-----------------------------------------------------------------------------
(***************************************************************************)
(* What no action but a few changes.                                       *)
(***************************************************************************)
\* A step of one thread leaves the others where they are.
LEMMA OthersStay ==
  ASSUME TypeOK, NEW t \in Thread, Step(t), NEW u \in Thread, u # t
  PROVE  place'[u] = place[u] /\ my'[u] = my[u]
  BY ZenonT(40) DEF TypeOK, Step, Fix, Update, NextBucket, ReadSlot, Probe, Latch, LatchFails, TakeFree, Choose,
     NoFrame, Evict, VictimClean, VictimDirty, ReplaceOut, PublishPartial, Grab, AwaitTransit, NotHere,
     FoundAfterAll, PutIn, EnsureSpace, Cuckold, Read, Unpin, Unlatch, TestDirty, LockPage, Copy, WriteOut,
     StepTo, ReturnFrom, Pin, Found, NextSlot

\* The table changes when a page comes, goes or moves.
LEMMA TableStays ==
  ASSUME NEW t \in Thread, Step(t)
  PROVE  UNCHANGED table \/ Evict(t) \/ PutIn(t) \/ Cuckold(t)
  BY Zenon DEF Step, Fix, Update, NextBucket, ReadSlot, Probe, Latch, LatchFails, TakeFree, Choose,
     NoFrame, VictimClean, VictimDirty, ReplaceOut, PublishPartial, Grab, AwaitTransit, NotHere,
     FoundAfterAll, EnsureSpace, Read, Unpin, Unlatch, TestDirty, LockPage, Copy, WriteOut

\* The free list changes when a frame is taken from it, or given back by who found his page in the
\* table after all.
LEMMA FreeStays ==
  ASSUME NEW t \in Thread, Step(t)
  PROVE  UNCHANGED unused \/ TakeFree(t) \/ FoundAfterAll(t)
  BY ZenonT(40) DEF Step, Fix, Update, NextBucket, ReadSlot, Probe, Latch, LatchFails, Choose,
     NoFrame, Evict, VictimClean, VictimDirty, ReplaceOut, PublishPartial, Grab, AwaitTransit, NotHere,
     PutIn, EnsureSpace, Cuckold, Read, Unpin, Unlatch, TestDirty, LockPage, Copy, WriteOut

\* What is in transit changes with an eviction and with publish_partial; the mutexes of the transit
\* buckets with grab; those of the pages with a write.
LEMMA LocksStay ==
  ASSUME NEW t \in Thread, Step(t)
  PROVE  /\ UNCHANGED transit \/ Evict(t) \/ PublishPartial(t)
         /\ UNCHANGED tb \/ AwaitTransit(t) \/ FoundAfterAll(t) \/ PutIn(t)
         /\ UNCHANGED writer \/ VictimDirty(t) \/ ReplaceOut(t) \/ LockPage(t) \/ Copy(t) \/ WriteOut(t)
  BY ZenonT(40) DEF Step, Fix, Update, NextBucket, ReadSlot, Probe, Latch, LatchFails, TakeFree, Choose,
     NoFrame, Evict, VictimClean, VictimDirty, ReplaceOut, PublishPartial, Grab, AwaitTransit, NotHere,
     FoundAfterAll, PutIn, EnsureSpace, Cuckold, Read, Unpin, Unlatch, TestDirty, LockPage, Copy, WriteOut,
     locks

\* The disk changes when a page is written, the last version of a page when it is updated.
LEMMA StoreStays ==
  ASSUME NEW t \in Thread, Step(t)
  PROVE  /\ UNCHANGED disk \/ ReplaceOut(t) \/ WriteOut(t)
         /\ UNCHANGED latest \/ Update(t)
         /\ UNCHANGED may
  BY ZenonT(40) DEF Step, Fix, Update, NextBucket, ReadSlot, Probe, Latch, LatchFails, TakeFree, Choose,
     NoFrame, Evict, VictimClean, VictimDirty, ReplaceOut, PublishPartial, Grab, AwaitTransit, NotHere,
     FoundAfterAll, PutIn, EnsureSpace, Cuckold, Read, Unpin, Unlatch, TestDirty, LockPage, Copy, WriteOut,
     store
-----------------------------------------------------------------------------
(***************************************************************************)
(* The fields of a control block, and the steps that change them.          *)
(***************************************************************************)
\* The steps that change control blocks.
LEMMA BlocksStay ==
  ASSUME NEW t \in Thread, Step(t)
  PROVE  UNCHANGED cb \/ Update(t) \/ Probe(t) \/ Latch(t) \/ LatchFails(t) \/ TakeFree(t) \/ Evict(t) \/ ReplaceOut(t) \/ PublishPartial(t)
         \/ Grab(t) \/ NotHere(t) \/ FoundAfterAll(t) \/ Read(t) \/ Unpin(t) \/ Unlatch(t) \/ Copy(t) \/ WriteOut(t)
  BY Zenon DEF Step, Fix, NextBucket, ReadSlot, Choose, NoFrame, VictimClean, VictimDirty, AwaitTransit,
     PutIn, EnsureSpace, Cuckold, TestDirty, LockPage

Fields(t, f) ==
  /\ cb'[f].pid = cb[f].pid \/ (f = my[t].f /\ (Latch(t) \/ NotHere(t)))
  /\ cb'[f].old = cb[f].old \/ (f \in unused /\ TakeFree(t)) \/ (f = my[t].f /\ (Evict(t) \/ PublishPartial(t)))
  /\ \/ cb'[f].dirty = cb[f].dirty
     \/ f \in unused /\ TakeFree(t)
     \/ f = my[t].f /\ (ReplaceOut(t) \/ Update(t) \/ Copy(t))
  /\ cb'[f].writing = cb[f].writing \/ (f = my[t].f /\ (Copy(t) \/ WriteOut(t)))
  /\ \/ cb'[f].page = cb[f].page /\ cb'[f].ver = cb[f].ver
     \/ f = my[t].f /\ (Read(t) \/ Update(t))
  /\ \/ cb'[f].pin = cb[f].pin
     \/ Probe(t) \/ LatchFails(t) \/ TakeFree(t) \/ Grab(t) \/ FoundAfterAll(t) \/ Unpin(t)
  /\ /\ \A u \in Thread \ {t} : cb'[f].held[u] = cb[f].held[u]
     /\ \/ cb'[f].held[t] = cb[f].held[t]
        \/ Latch(t) \/ TakeFree(t) \/ Evict(t) \/ FoundAfterAll(t) \/ Read(t) \/ Unlatch(t)

\* What a step may change in a control block, field by field.
LEMMA FieldsStay ==
  ASSUME TypeOK, NEW t \in Thread, Step(t), NEW f \in Frame
  PROVE  Fields(t, f)
<1>. /\ cb \in [Frame -> Block] /\ cb[f] \in Block /\ cb[f].held \in [Thread -> Modes]
  BY DEF TypeOK, Block
<1>1. CASE UNCHANGED cb
  BY <1>1 DEF Fields
<1>2. CASE Update(t)
  BY <1>2 DEF Fields, Update, Block
<1>3. CASE Probe(t)
  <2>1. cb' = cb \/ \E g : cb' = [cb EXCEPT ![g].pin = @ + 1]
    BY <1>3, Zenon DEF Probe, Pin, Pinned, Found, NextSlot
  <2>. QED
    BY <1>3, <2>1 DEF Fields, Block
<1>4. CASE Latch(t)
  BY <1>4 DEF Fields, Latch, Block
<1>5. CASE LatchFails(t)
  BY <1>5 DEF Fields, LatchFails, Block
<1>6. CASE TakeFree(t)
  <2>1. PICK g \in unused :
          cb' = [cb EXCEPT ![g].pin = 0, ![g].old = NoOne, ![g].dirty = FALSE, ![g].held[t] = "EX"]
    BY <1>6, Zenon DEF TakeFree
  <2>. QED
    BY <1>6, <2>1 DEF Fields, Block
<1>7. CASE Evict(t)
  BY <1>7 DEF Fields, Evict, Block
<1>8. CASE ReplaceOut(t)
  BY <1>8 DEF Fields, ReplaceOut, Block
<1>9. CASE PublishPartial(t)
  BY <1>9 DEF Fields, PublishPartial, Block
<1>10. CASE Grab(t)
  BY <1>10 DEF Fields, Grab, Block, Pinned
<1>11. CASE NotHere(t)
  <2>1. cb' = cb \/ cb' = [cb EXCEPT ![my[t].f].pid = my[t].p]
    BY <1>11 DEF NotHere
  <2>. QED
    BY <1>11, <2>1 DEF Fields, Block
<1>12. CASE FoundAfterAll(t)
  <2>1. PICK g : cb' = [cb EXCEPT ![my[t].f].held[t] = "NL", ![my[t].f].pin = @ - 1, ![g].pin = @ + 1]
    BY <1>12, ZenonT(40) DEF FoundAfterAll
  <2>. QED
    BY <1>12, <2>1, ZenonT(40) DEF Fields, Block
<1>13. CASE Read(t)
  BY <1>13, Zenon DEF Fields, Read, Block
<1>14. CASE Unpin(t)
  BY <1>14 DEF Fields, Unpin, Block
<1>15. CASE Unlatch(t)
  BY <1>15 DEF Fields, Unlatch, Block
<1>16. CASE Copy(t)
  BY <1>16 DEF Fields, Copy, Block
<1>17. CASE WriteOut(t)
  BY <1>17 DEF Fields, WriteOut, Block
<1>. QED
  BY <1>1, <1>2, <1>3, <1>4, <1>5, <1>6, <1>7, <1>8, <1>9, <1>10, <1>11, <1>12, <1>13, <1>14, <1>15,
     <1>16, <1>17, BlocksStay

-----------------------------------------------------------------------------
(***************************************************************************)
(* Each field by itself; and types.                                        *)
(***************************************************************************)
\* A frame gets the name of a page from who fixes it or has taken the page for missing.
LEMMA PidStays ==
  ASSUME TypeOK, NEW t \in Thread, Step(t), NEW f \in Frame
  PROVE  cb'[f].pid = cb[f].pid \/ (f = my[t].f /\ (Latch(t) \/ NotHere(t)))
  BY FieldsStay DEF Fields

\* The old page of a frame is set by an eviction and forgotten by publish_partial.
LEMMA OldStays ==
  ASSUME TypeOK, NEW t \in Thread, Step(t), NEW f \in Frame
  PROVE  cb'[f].old = cb[f].old \/ (f \in unused /\ TakeFree(t)) \/ (f = my[t].f /\ (Evict(t) \/ PublishPartial(t)))
  BY FieldsStay DEF Fields

\* A frame becomes dirty by an update and clean by a write, a copy, or by being taken from the free
\* list.
LEMMA DirtyStays ==
  ASSUME TypeOK, NEW t \in Thread, Step(t), NEW f \in Frame
  PROVE  \/ cb'[f].dirty = cb[f].dirty
         \/ f \in unused /\ TakeFree(t)
         \/ f = my[t].f /\ (ReplaceOut(t) \/ Update(t) \/ Copy(t))
  BY FieldsStay DEF Fields

\* A frame is marked as being written by the cleaner, and by nobody else.
LEMMA WritingStays ==
  ASSUME TypeOK, NEW t \in Thread, Step(t), NEW f \in Frame
  PROVE  cb'[f].writing = cb[f].writing \/ (f = my[t].f /\ (Copy(t) \/ WriteOut(t)))
  BY FieldsStay DEF Fields

\* What is in a frame changes when it is read from disk or updated.
LEMMA PageStays ==
  ASSUME TypeOK, NEW t \in Thread, Step(t), NEW f \in Frame
  PROVE  \/ cb'[f].page = cb[f].page /\ cb'[f].ver = cb[f].ver
         \/ f = my[t].f /\ (Read(t) \/ Update(t))
  BY FieldsStay DEF Fields

\* The steps that pin and unpin.
LEMMA PinStays ==
  ASSUME TypeOK, NEW t \in Thread, Step(t), NEW f \in Frame
  PROVE  \/ cb'[f].pin = cb[f].pin
         \/ Probe(t) \/ LatchFails(t) \/ TakeFree(t) \/ Grab(t) \/ FoundAfterAll(t) \/ Unpin(t)
  BY FieldsStay DEF Fields

\* A step latches and unlatches for its own thread only.
LEMMA HeldStays ==
  ASSUME TypeOK, NEW t \in Thread, Step(t), NEW f \in Frame
  PROVE  /\ \A u \in Thread \ {t} : cb'[f].held[u] = cb[f].held[u]
         /\ \/ cb'[f].held[t] = cb[f].held[t]
            \/ Latch(t) \/ TakeFree(t) \/ Evict(t) \/ FoundAfterAll(t) \/ Read(t) \/ Unlatch(t)
  BY FieldsStay DEF Fields

\* A thread goes from one of the places of the code to another.
LEMMA PlacesTyped ==
  ASSUME TypeOK, NEW t \in Thread, Step(t)
  PROVE  place' \in [Thread -> Steps]
<1>. place \in [Thread -> Steps]
  BY DEF TypeOK
<1>. SUFFICES \E s \in Steps : place' = [place EXCEPT ![t] = s] \/ place' = place
  OBVIOUS
<1>. QED
  BY Zenon DEF Steps, Owning, Emptying, Looking, Using, Reading, Step, Fix, Update, NextBucket, ReadSlot,
     Probe, Latch, LatchFails, TakeFree, Choose, NoFrame, Evict, VictimClean, VictimDirty,
     ReplaceOut, PublishPartial, Grab, AwaitTransit, NotHere, FoundAfterAll, PutIn, EnsureSpace,
     Cuckold, Read, Unpin, Unlatch, TestDirty, LockPage, Copy, WriteOut, StepTo, ReturnFrom, Found,
     NextSlot, Pin

\* The locals and the place of a thread have their types.
LEMMA Places ==
  ASSUME TypeOK, NEW t \in Thread
  PROVE  my[t] \in Locals /\ place[t] \in Steps
  BY DEF TypeOK

\* Both hashes of a page are buckets.
LEMMA HashInBucket ==
  ASSUME NEW h \in {1, 2}, NEW p \in Page
  PROVE  Hash[h][p] \in Bucket
  BY DEF Bucket

\* The slots in use of a bucket.
LEMMA SlotTyped ==
  ASSUME TypeOK, PoolConstants, NEW b \in Bucket
  PROVE  /\ table[b] \in Chain /\ table[b].count \in 0..SlotCount
         /\ table[b].slot \in [1..SlotCount -> Maybe(Frame)]
         /\ \A i \in 1..SlotCount : table[b].slot[i] \in Maybe(Frame)
         /\ Slots(b) \in SUBSET (1..SlotCount) /\ SlotCount \in Nat \ {0}
  BY DEF TypeOK, Chain, Slots, PoolConstants

\* The steps that change locals.
LEMMA MyStays ==
  ASSUME NEW t \in Thread, Step(t)
  PROVE  \/ UNCHANGED my \/ Fix(t) \/ NextBucket(t) \/ ReadSlot(t) \/ Probe(t) \/ LatchFails(t) \/ TakeFree(t)
         \/ Choose(t) \/ NoFrame(t) \/ Evict(t) \/ Grab(t) \/ NotHere(t) \/ FoundAfterAll(t)
         \/ EnsureSpace(t) \/ Cuckold(t) \/ Unlatch(t) \/ Copy(t) \/ WriteOut(t)
  BY Zenon DEF Step, Update, Latch, VictimClean, VictimDirty, ReplaceOut, PublishPartial, AwaitTransit, PutIn,
     Read, Unpin, TestDirty, LockPage

\* ensure_space makes room in a bucket.
LEMMA EmptiedInBucket ==
  ASSUME TypeOK, SlotsFilled, NEW p \in Page, NEW b \in Emptied(p)
  PROVE  b \in Bucket
<1>. \A h \in {1, 2}, q \in Page : Hash[h][q] \in Bucket
  BY HashInBucket
<1>1. \A c \in Bucket : Others(c) \subseteq Bucket
  <2>. TAKE c \in Bucket
  <2>. \A g \in Residents(c) : cb[g].pid \in Page
    BY DEF Residents, SlotsFilled, Slots
  <2>. QED
    BY DEF Others
<1>2. Hash[1][p] \in Bucket /\ Hash[2][p] \in Bucket
  OBVIOUS
<1>. QED
  BY <1>1, <1>2 DEF Emptied

\* What cuckold does to the locals of its thread, at once.
LEMMA MovedLocals ==
  ASSUME NEW t \in Thread, my \in [Thread -> Locals]
  PROVE  [my EXCEPT ![t].b = NoOne, ![t].s = 1, ![t].to = NoOne]
           = [my EXCEPT ![t] = [[my[t] EXCEPT !.s = 1] EXCEPT !.b = NoOne, !.to = NoOne]]
  BY DEF Locals

\* Locals keep their types.
LEMMA LocalsTyped ==
  ASSUME PoolConstants, TypeOK, SlotsFilled, NEW t \in Thread, EachOK(t), Step(t)
  PROVE  my' \in [Thread -> Locals]
<1>. LocalsOK(t)
  BY DEF EachOK
<1>. my \in [Thread -> Locals] /\ my[t] \in Locals /\ cb \in [Frame -> Block]
  BY DEF TypeOK
<1>. NoLocals \in Locals /\ [NoLocals EXCEPT !.todo = my[t].todo] \in Locals
  <2>1. <<0, 0>> \in [{1, 2} -> Nat]
    OBVIOUS
  <2>2. my[t].todo \in Nat
    BY DEF Locals
  <2>3. NoLocals \in Locals
    BY <2>1 DEF NoLocals, Locals, Modes, Maybe
  <2>. QED
    BY <2>2, <2>3 DEF Locals
<1>1. CASE UNCHANGED my
  BY <1>1
<1>2. CASE Fix(t)
  <2>1. PICK call \in Calls :
          my' = [my EXCEPT ![t].p = call[1], ![t].mode = call[2], ![t].todo = @ - 1]
    BY <1>2, Zenon DEF Fix, TypeOK
  <2>. call[1] \in Page /\ call[2] \in {"SH", "EX", "clean"} /\ my[t].todo - 1 \in Nat
    BY <1>2 DEF Calls, Fix, Locals
  <2>. QED
    BY <2>1 DEF Locals, Maybe, Modes
<1>3. CASE NextBucket(t) \/ NextSlot(t) \/ Grab(t)
  BY <1>3 DEF NextBucket, NextSlot, Grab, Locals, ReturnFrom
<1>4. CASE ReadSlot(t)
  <2>. my[t].p \in Page /\ my[t].i \in {1, 2} /\ my[t].s \in Slots(Here(t))
    BY <1>4, SlotTyped, HashInBucket DEF ReadSlot, LocalsOK, Locals, Here, Slots
  <2>. Here(t) \in Bucket
    BY HashInBucket DEF Here
  <2>. table[Here(t)].slot[my[t].s] \in Maybe(Frame)
    BY SlotTyped
  <2>. QED
    BY <1>4 DEF ReadSlot, Locals
<1>5. CASE Probe(t)
  <2>1. /\ my[t].f \in Frame
        /\ table[Here(t)].slot[my[t].s] \in Frame
    BY <1>5 DEF Probe, LocalsOK, EachOK, Probed
  <2>2. PICK g \in Frame : my' = [my EXCEPT ![t].f = g] \/ my' = [my EXCEPT ![t].s = @ + 1]
    BY <1>5, <2>1 DEF Probe, Pin, NextSlot, Found
  <2>3. [my[t] EXCEPT !.f = g] \in Locals
    BY DEF Locals, Maybe
  <2>4. [my[t] EXCEPT !.s = @ + 1] \in Locals
    BY DEF Locals
  <2>. QED
    BY <2>2, <2>3, <2>4
<1>6. CASE LatchFails(t) \/ NoFrame(t) \/ WriteOut(t) \/ Unlatch(t)
  BY <1>6 DEF LatchFails, NoFrame, WriteOut, Unlatch, ReturnFrom
<1>7. CASE TakeFree(t)
  <2>1. PICK f \in Frame : my' = [my EXCEPT ![t].f = f]
    BY <1>7 DEF TakeFree, TypeOK
  <2>. QED
    BY <2>1 DEF Locals, Maybe
<1>8. CASE Choose(t)
  <2>1. PICK f \in Frame, b \in Bucket :
          f \in Residents(b) /\ my' = [my EXCEPT ![t].f = f, ![t].b = b, ![t].victim = cb[f].pid]
    BY <1>8, Zenon DEF Choose
  <2>2. cb[f].pid \in Page
    BY <2>1 DEF Residents, SlotsFilled, Slots
  <2>. QED
    BY <2>1, <2>2, ZenonT(40) DEF Locals, Maybe
<1>9. CASE Evict(t) \/ Cuckold(t)
  <2>1. [my[t] EXCEPT !.b = NoOne, !.victim = NoOne] \in Locals
    BY DEF Locals, Maybe
  <2>2. [my[t] EXCEPT !.s = 1] \in Locals
    BY DEF Locals
  <2>3. [[my[t] EXCEPT !.s = 1] EXCEPT !.b = NoOne, !.to = NoOne] \in Locals
    BY <2>2 DEF Locals, Maybe
  <2>4. Cuckold(t) => my' = [my EXCEPT ![t] = [[my[t] EXCEPT !.s = 1] EXCEPT !.b = NoOne, !.to = NoOne]]
    <3>1. Cuckold(t) => my' = [my EXCEPT ![t].b = NoOne, ![t].s = 1, ![t].to = NoOne]
      BY Zenon DEF Cuckold
    <3>2. my \in [Thread -> Locals]
      OBVIOUS
    <3>. QED
      BY ONLY <3>1, <3>2, MovedLocals, Zenon
  <2>5. Evict(t) => my' = [my EXCEPT ![t] = [my[t] EXCEPT !.b = NoOne, !.victim = NoOne]]
    BY DEF Evict
  <2>. QED
    BY <1>9, <2>1, <2>3, <2>4, <2>5
<1>10. CASE NotHere(t)
  <2>. my[t].p \in Page /\ my[t].i \in {1, 2}
    BY <1>10 DEF NotHere, LocalsOK, Locals
  <2>. Here(t) \in Bucket
    BY HashInBucket DEF Here
  <2>1. table[Here(t)].count \in Nat
    BY SlotTyped
  <2>2. 3 - my[t].i \in {1, 2} /\ my[t].same \in Nat /\ my[t].same + 1 \in Nat
    BY DEF Locals
  <2>. DEFINE i     == my[t].i
              count == table[Here(t)].count
              same  == IF my[t].first \/ my[t].residents[i] # count THEN my[t].same ELSE my[t].same + 1
              seen  == [my[t] EXCEPT !.residents[i] = count, !.same = same, !.i = 3 - i]
  <2>3. same \in Nat
    BY <2>2
  <2>4. seen \in Locals
    BY <2>1, <2>2, <2>3 DEF Locals
  <2>5. [seen EXCEPT !.first = FALSE, !.same = 0] \in Locals
    BY <2>4 DEF Locals
  <2>6. \/ my' = [my EXCEPT ![t] = seen]
        \/ my' = [my EXCEPT ![t].i = 1, ![t].first = TRUE, ![t].residents = <<0, 0>>, ![t].same = 0]
        \/ my' = [my EXCEPT ![t] = [seen EXCEPT !.first = FALSE, !.same = 0]]
    BY <1>10 DEF NotHere
  <2>7. <<0, 0>> \in [{1, 2} -> Nat]
    OBVIOUS
  <2>8. [my[t] EXCEPT !.i = 1, !.first = TRUE, !.residents = <<0, 0>>, !.same = 0] \in Locals
    BY <2>7 DEF Locals
  <2>. HIDE DEF seen
  <2>. QED
    BY <2>4, <2>5, <2>6, <2>8
<1>11. CASE FoundAfterAll(t)
  <2>. my[t].p \in Page /\ Here(t) \in Bucket
    BY <1>11, HashInBucket DEF FoundAfterAll, LocalsOK, Locals, Here
  <2>1. PICK g \in Get(Here(t), my[t].p) :
          my' = [my EXCEPT ![t] = [NoLocals EXCEPT !.p = my[t].p, !.mode = my[t].mode, !.todo = my[t].todo, !.f = g]]
    BY <1>11, ZenonT(40) DEF FoundAfterAll
  <2>2. g \in Frame
    BY <2>1 DEF Get, Residents, SlotsFilled, Slots
  <2>3. [NoLocals EXCEPT !.p = my[t].p, !.mode = my[t].mode, !.todo = my[t].todo, !.f = g] \in Locals
    BY <2>2, ZenonT(40) DEF NoLocals, Locals, Maybe
  <2>. QED
    BY <2>1, <2>3
<1>12. CASE EnsureSpace(t)
  <2>1. my[t].p \in Page
    BY <1>12, Zenon DEF EnsureSpace, LocalsOK
  <2>2. PICK b \in Emptied(my[t].p) : \E k \in 1..table[b].count, j \in 1..2 :
         LET to == Hash[j][cb[table[b].slot[k]].pid]
         IN  to # b /\ HasRoom(to) /\ my' = [my EXCEPT ![t].b = b, ![t].s = k, ![t].to = to]
    BY <1>12, Zenon DEF EnsureSpace
  <2>3. b \in Bucket
    BY <2>1, <2>2, EmptiedInBucket, ZenonT(40)
  <2>4. PICK k \in Slots(b), j \in 1..2 :
          my' = [my EXCEPT ![t].b = b, ![t].s = k, ![t].to = Hash[j][cb[table[b].slot[k]].pid]]
    BY <2>2, Zenon DEF Slots
  <2>5. k \in 1..SlotCount /\ SlotCount \in Nat
    BY <2>3, <2>4, SlotTyped
  <2>6. k \in Nat \ {0} /\ j \in {1, 2}
    BY <2>4, <2>5
  <2>7. cb[table[b].slot[k]].pid \in Page
    BY <2>3, <2>4 DEF SlotsFilled
  <2>8. Hash[j][cb[table[b].slot[k]].pid] \in Bucket
    BY <2>6, <2>7, HashInBucket
  <2>. QED
    BY <2>4, <2>3, <2>6, <2>8, ZenonT(40) DEF Locals, Maybe
<1>13. CASE Copy(t)
  <2>. my[t].f \in Frame /\ cb[my[t].f].ver \in Nat
    BY <1>13 DEF Copy, LocalsOK, Using, Reading, Block
  <2>1. [my[t] EXCEPT !.copy = cb[my[t].f].ver] \in Locals
    BY DEF Locals
  <2>. QED
    BY <1>13, <2>1 DEF Copy
<1>. QED
  BY <1>1, <1>2, <1>3, <1>4, <1>5, <1>6, <1>7, <1>8, <1>9, <1>10, <1>11, <1>12, <1>13, MyStays
-----------------------------------------------------------------------------
(***************************************************************************)
(* What comes of the table when a page comes, goes or moves.               *)
(***************************************************************************)
\* Two assignments to a bucket, as one.
LEMMA ChainUpdate ==
  ASSUME NEW T \in [Bucket -> Chain], NEW b \in Bucket, NEW s, NEW n
  PROVE  [T EXCEPT ![b].slot = s, ![b].count = n] = [T EXCEPT ![b] = [slot |-> s, count |-> n]]
<1>1. T[b] \in Chain
  OBVIOUS
<1>2. [T[b] EXCEPT !.slot = s] = [slot |-> s, count |-> T[b].count]
  BY <1>1 DEF Chain
<1>3. [[slot |-> s, count |-> T[b].count] EXCEPT !.count = n] = [slot |-> s, count |-> n]
  OBVIOUS
<1>4. [T EXCEPT ![b].slot = s, ![b].count = n] = [T EXCEPT ![b] = [[T[b] EXCEPT !.slot = s] EXCEPT !.count = n]]
  OBVIOUS
<1>. QED
  BY <1>2, <1>3, <1>4

\* What removes a frame from a bucket closes the gap in its slots.
LEMMA RemoveSlots ==
  ASSUME TypeOK, PoolConstants, NEW b \in Bucket, NEW f \in Residents(b), NEW T, T = Remove(table, b, f)
  PROVE  /\ T \in [Bucket -> Chain]
         /\ \A c \in Bucket \ {b} : T[c] = table[c]
         /\ T[b].count = table[b].count - 1
         /\ \E k \in Slots(b) :
              /\ table[b].slot[k] = f
              /\ \A i \in 1..T[b].count : T[b].slot[i] = table[b].slot[IF i < k THEN i ELSE i + 1]
<1>. DEFINE n == table[b].count
            k == CHOOSE i \in 1..n : table[b].slot[i] = f
            sl == [i \in 1..SlotCount |-> IF i < k \/ i > n THEN table[b].slot[i]
                                          ELSE IF i < n THEN table[b].slot[i + 1]
                                          ELSE IF k = n THEN NoOne ELSE table[b].slot[n]]
<1>1. /\ n \in 0..SlotCount /\ SlotCount \in Nat \ {0} /\ table[b].slot \in [1..SlotCount -> Maybe(Frame)]
      /\ table[b] = [slot |-> table[b].slot, count |-> n] /\ table \in [Bucket -> Chain]
  BY SlotTyped DEF Chain, TypeOK
<1>2. k \in 1..n /\ table[b].slot[k] = f
  BY DEF Residents
<1>3. T = [table EXCEPT ![b] = [slot |-> sl, count |-> n - 1]]
  <2>1. T = [table EXCEPT ![b].slot = sl, ![b].count = n - 1]
    BY Zenon DEF Remove
  <2>. HIDE DEF sl
  <2>. QED
    BY <2>1, <1>1, ChainUpdate
<1>. HIDE DEF k
<1>4. sl \in [1..SlotCount -> Maybe(Frame)]
  <2>. SUFFICES ASSUME NEW i \in 1..SlotCount PROVE sl[i] \in Maybe(Frame)
    OBVIOUS
  <2>1. i < n => i + 1 \in 1..SlotCount
    BY <1>1
  <2>2. n \in 1..SlotCount
    BY <1>1, <1>2
  <2>. QED
    BY <2>1, <2>2, <1>1 DEF Maybe
<1>5. n - 1 \in 0..SlotCount
  BY <1>1, <1>2
<1>6. \A i \in 1..(n - 1) : sl[i] = table[b].slot[IF i < k THEN i ELSE i + 1]
  BY <1>1, <1>2
<1>. HIDE DEF sl
<1>7. [slot |-> sl, count |-> n - 1] \in Chain
  BY <1>4, <1>5 DEF Chain
<1>8. T \in [Bucket -> Chain] /\ T[b] = [slot |-> sl, count |-> n - 1] /\ \A c \in Bucket \ {b} : T[c] = table[c]
  BY <1>1, <1>3, <1>7
<1>9. k \in Slots(b)
  BY <1>2 DEF Slots
<1>. QED
  BY <1>2, <1>6, <1>8, <1>9

\* A frame is put behind the slots in use.
LEMMA PutSlots ==
  ASSUME TypeOK, PoolConstants, NEW b \in Bucket, HasRoom(b), NEW f \in Frame, NEW T, T = Put(table, b, f)
  PROVE  /\ T \in [Bucket -> Chain]
         /\ \A c \in Bucket \ {b} : T[c] = table[c]
         /\ T[b].count = table[b].count + 1 /\ T[b].count \in 1..SlotCount
         /\ T[b].slot = [table[b].slot EXCEPT ![table[b].count + 1] = f]
<1>. DEFINE n == table[b].count
            sl == [table[b].slot EXCEPT ![n + 1] = f]
<1>1. /\ n \in 0..SlotCount /\ SlotCount \in Nat \ {0} /\ table[b].slot \in [1..SlotCount -> Maybe(Frame)]
      /\ table[b] = [slot |-> table[b].slot, count |-> n] /\ table \in [Bucket -> Chain]
  BY SlotTyped DEF Chain, TypeOK
<1>2. T = [table EXCEPT ![b] = [slot |-> sl, count |-> n + 1]]
  BY <1>1 DEF Put
<1>3. sl \in [1..SlotCount -> Maybe(Frame)] /\ n + 1 \in 1..SlotCount /\ n + 1 \in 0..SlotCount
  BY <1>1 DEF Maybe, HasRoom
<1>. HIDE DEF sl
<1>4. [slot |-> sl, count |-> n + 1] \in Chain
  BY <1>3 DEF Chain
<1>5. T \in [Bucket -> Chain] /\ T[b] = [slot |-> sl, count |-> n + 1] /\ \A c \in Bucket \ {b} : T[c] = table[c]
  BY <1>1, <1>2, <1>4
<1>. QED
  BY <1>3, <1>5 DEF sl

\* cuckold fills the gap with the last slot and puts the frame behind those of the other bucket.
LEMMA MoveSlots ==
  ASSUME TypeOK, PoolConstants, NEW b \in Bucket, NEW to \in Bucket \ {b}, NEW k \in Slots(b), HasRoom(to),
         NEW T, T = Move(table, b, k, to)
  PROVE  /\ T \in [Bucket -> Chain]
         /\ \A c \in Bucket \ {b, to} : T[c] = table[c]
         /\ T[b].count = table[b].count - 1
         /\ T[b].slot = [table[b].slot EXCEPT ![k] = table[b].slot[table[b].count]]
         /\ T[to].count = table[to].count + 1 /\ T[to].count \in 1..SlotCount
         /\ T[to].slot = [table[to].slot EXCEPT ![table[to].count + 1] = table[b].slot[k]]
<1>. DEFINE n == table[b].count
            m == table[to].count
            sb == [table[b].slot EXCEPT ![k] = table[b].slot[n]]
            st == [table[to].slot EXCEPT ![m + 1] = table[b].slot[k]]
<1>1. /\ n \in 0..SlotCount /\ SlotCount \in Nat \ {0} /\ table[b].slot \in [1..SlotCount -> Maybe(Frame)]
      /\ table[b] = [slot |-> table[b].slot, count |-> n] /\ table \in [Bucket -> Chain]
  BY SlotTyped DEF Chain, TypeOK
<1>2. /\ m \in 0..SlotCount /\ table[to].slot \in [1..SlotCount -> Maybe(Frame)]
      /\ table[to] = [slot |-> table[to].slot, count |-> m]
  BY SlotTyped DEF Chain, TypeOK
<1>3. k \in 1..n
  BY DEF Slots
<1>4. [table EXCEPT ![b].slot[k] = table[b].slot[table[b].count], ![b].count = @ - 1]
        = [table EXCEPT ![b] = [slot |-> sb, count |-> n - 1]]
  <2>1. [table EXCEPT ![b].slot[k] = table[b].slot[table[b].count], ![b].count = @ - 1]
        = [table EXCEPT ![b].slot = sb, ![b].count = n - 1]
    BY <1>1
  <2>. HIDE DEF sb
  <2>. QED
    BY <2>1, <1>1, ChainUpdate
<1>5. T = [[table EXCEPT ![b] = [slot |-> sb, count |-> n - 1]] EXCEPT ![to] = [slot |-> st, count |-> m + 1]]
  <2>1. [table EXCEPT ![b] = [slot |-> sb, count |-> n - 1]][to] = table[to]
    BY <1>1
  <2>2. T = Put([table EXCEPT ![b] = [slot |-> sb, count |-> n - 1]], to, table[b].slot[k])
    BY <1>4 DEF Move
  <2>. HIDE DEF sb
  <2>. QED
    BY <2>1, <2>2, <1>1, <1>2 DEF Put
<1>6. /\ sb \in [1..SlotCount -> Maybe(Frame)] /\ st \in [1..SlotCount -> Maybe(Frame)]
      /\ n - 1 \in 0..SlotCount /\ m + 1 \in 1..SlotCount /\ m + 1 \in 0..SlotCount
  BY <1>1, <1>2, <1>3 DEF HasRoom
<1>. HIDE DEF sb, st
<1>7. [slot |-> sb, count |-> n - 1] \in Chain /\ [slot |-> st, count |-> m + 1] \in Chain
  BY <1>6 DEF Chain
<1>8. /\ T \in [Bucket -> Chain] /\ T[b] = [slot |-> sb, count |-> n - 1]
      /\ T[to] = [slot |-> st, count |-> m + 1]
      /\ \A c \in Bucket \ {b, to} : T[c] = table[c]
  BY <1>1, <1>5, <1>7
<1>. QED
  BY <1>6, <1>8 DEF sb, st
-----------------------------------------------------------------------------
(***************************************************************************)
(* The steps that change the table, and what they leave of it.             *)
(***************************************************************************)
\* The parts of the invariant, for one thread.
LEMMA Parts ==
  ASSUME IInv, NEW t \in Thread
  PROVE  /\ TypeOK /\ SlotsFilled /\ SlotsDiffer /\ EachOK(t) /\ my[t] \in Locals /\ place[t] \in Steps
         /\ LocalsOK(t) /\ Owned(t) /\ Used(t) /\ Probed(t) /\ Moves(t) /\ Sought(t) /\ Missing(t)
         /\ Evades(t) /\ Leaving(t) /\ Fetched(t) /\ Cleared(t) /\ Copied(t)
  BY DEF IInv, EachOK, TypeOK

\* A resident is a frame with a page that belongs to the bucket.
LEMMA ResidentOK ==
  ASSUME IInv, NEW b \in Bucket, NEW f \in Residents(b)
  PROVE  /\ f \in Frame /\ cb[f].pid \in Page /\ InTable(f) /\ Has(b, cb[f].pid)
         /\ \E h \in 1..2 : b = Hash[h][cb[f].pid]
         /\ \E i \in Slots(b) : table[b].slot[i] = f
<1>1. PICK i \in Slots(b) : table[b].slot[i] = f
  BY DEF Residents, Slots
<1>. QED
  BY <1>1 DEF IInv, SlotsFilled, InTable, Has, Get

\* A slot in use holds a resident.
LEMMA SlotOK ==
  ASSUME IInv, NEW b \in Bucket, NEW i \in Slots(b)
  PROVE  table[b].slot[i] \in Residents(b)
  BY DEF Residents, Slots

\* A page that is in the table is there once.
LEMMA ResidentOnce ==
  ASSUME IInv, NEW b \in Bucket, NEW c \in Bucket, NEW f \in Residents(b), NEW g \in Residents(c),
         cb[f].pid = cb[g].pid
  PROVE  b = c /\ f = g
<1>1. PICK i \in Slots(b), j \in Slots(c) : table[b].slot[i] = f /\ table[c].slot[j] = g
  BY DEF Residents, Slots
<1>. QED
  BY <1>1 DEF IInv, SlotsDiffer

\* What replacement does with a victim: it gives up, or takes the frame out of the table.
LEMMA EvictForms ==
  ASSUME IInv, ~Overtaken, NEW t \in Thread, Evict(t)
  PROVE  LET f == my[t].f
             b == my[t].b
             v == my[t].victim
         IN  /\ NothingRead /\ tb[Transit[v]] = NoOne /\ place[t] = "evict"
             /\ f \in Frame /\ b \in Bucket /\ v \in Page
             /\ my' = [my EXCEPT ![t].b = NoOne, ![t].victim = NoOne]
             /\ UNCHANGED <<unused, tb, writer, store>>
             /\ \/ UNCHANGED <<cb, table, transit>> /\ place' = [place EXCEPT ![t] = "clock"]
                \/ /\ Nobody(f) /\ writer[WriteMutex[v]] = NoOne /\ f \in Residents(b) /\ cb[f].pid = v
                   /\ cb[f].pin = 0 /\ ~cb[f].writing /\ (cb[f].dirty => transit[Transit[v]] = {})
                   /\ cb' = [cb EXCEPT ![f].held[t] = "EX", ![f].old = v]
                   /\ table' = Remove(table, b, f)
                   /\ transit' = IF cb[f].dirty THEN [transit EXCEPT ![Transit[v]] = @ \union {v}] ELSE transit
                   /\ place' = [place EXCEPT ![t] = "evicted"]
<1>. my[t].f \in Frame /\ my[t].b \in Bucket /\ my[t].victim \in Page /\ place[t] = "evict"
  BY Parts DEF Evict, LocalsOK
<1>. cb[my[t].f] \in Block
  BY Parts DEF TypeOK
<1>. QED
  BY DEF Evict, StepTo, Get, CanReplace

\* The frame that is removed leaves its bucket, and the others stay where they are.
LEMMA EvictedResidents ==
  ASSUME IInv, PoolConstants, NEW b \in Bucket, NEW f \in Residents(b), table' = Remove(table, b, f)
  PROVE  /\ table' \in [Bucket -> Chain]
         /\ \A c \in Bucket : Residents(c)' = Residents(c) \ {f}
         /\ \A g : InTable(g)' <=> InTable(g) /\ g # f
<1>. TypeOK
  BY DEF IInv
<1>1. PICK k \in Slots(b) :
        /\ table[b].slot[k] = f
        /\ \A i \in 1..table'[b].count : table'[b].slot[i] = table[b].slot[IF i < k THEN i ELSE i + 1]
  BY RemoveSlots
<1>2. /\ table' \in [Bucket -> Chain] /\ \A c \in Bucket \ {b} : table'[c] = table[c]
      /\ table'[b].count = table[b].count - 1
  BY RemoveSlots
<1>3. table[b].count \in Nat /\ k \in 1..table[b].count
  BY SlotTyped DEF Slots
<1>4. f \in Frame /\ cb[f].pid \in Page
  BY ResidentOK
<1>5. \A c \in Bucket \ {b} : Residents(c)' = Residents(c) \ {f}
  <2>. TAKE c \in Bucket \ {b}
  <2>1. Residents(c)' = Residents(c)
    BY <1>2 DEF Residents
  <2>2. f \notin Residents(c)
    BY <1>4, ResidentOnce
  <2>. QED
    BY <2>1, <2>2
<1>6. Residents(b)' = Residents(b) \ {f}
  <2>1. ASSUME NEW g \in Residents(b)' PROVE g \in Residents(b) /\ g # f
    <3>1. PICK i \in 1..table'[b].count : g = table'[b].slot[i]
      BY DEF Residents
    <3>. DEFINE j == IF i < k THEN i ELSE i + 1
    <3>2. j \in Slots(b) /\ j # k /\ g = table[b].slot[j]
      BY <1>1, <1>2, <1>3, <3>1 DEF Slots
    <3>. HIDE DEF j
    <3>3. g \in Residents(b)
      BY <3>2, SlotOK
    <3>4. g # f
      BY <1>1, <3>2 DEF IInv, SlotsDiffer
    <3>. QED
      BY <3>3, <3>4
  <2>2. ASSUME NEW g \in Residents(b), g # f PROVE g \in Residents(b)'
    <3>1. PICK j \in 1..table[b].count : g = table[b].slot[j]
      BY DEF Residents
    <3>. DEFINE i == IF j < k THEN j ELSE j - 1
    <3>2. i \in 1..table'[b].count /\ j = IF i < k THEN i ELSE i + 1
      BY <1>1, <1>2, <1>3, <3>1, <2>2
    <3>. HIDE DEF i
    <3>3. g = table'[b].slot[i]
      BY <1>1, <3>1, <3>2
    <3>. QED
      BY <3>2, <3>3 DEF Residents
  <2>. QED
    BY <2>1, <2>2
<1>. QED
  BY <1>2, <1>5, <1>6 DEF InTable
-----------------------------------------------------------------------------
\* Slots that hold their residents once each.
LEMMA SlotsOfResidents ==
  ASSUME \A b \in Bucket : \A f \in Residents(b)' : f \in Frame /\ cb'[f].pid \in Page /\ \E h \in 1..2 : b = Hash[h][cb'[f].pid],
         \A b, c \in Bucket : \A f \in Residents(b)', g \in Residents(c)' : cb'[f].pid = cb'[g].pid => b = c /\ f = g,
         \A b \in Bucket : \A i, j \in Slots(b)' : table'[b].slot[i] = table'[b].slot[j] => i = j
  PROVE  SlotsFilled' /\ SlotsDiffer'
<1>. \A b \in Bucket : \A i \in Slots(b)' : table'[b].slot[i] \in Residents(b)'
  BY DEF Slots, Residents
<1>. QED
  BY DEF SlotsFilled, SlotsDiffer

\* No frame is in two slots of a bucket,
LEMMA SlotOnce ==
  ASSUME IInv, NEW b \in Bucket
  PROVE  \A i, j \in Slots(b) : table[b].slot[i] = table[b].slot[j] => i = j
  BY DEF IInv, SlotsDiffer

\* nor after one has been removed.
LEMMA EvictedSlots ==
  ASSUME IInv, PoolConstants, NEW b \in Bucket, NEW f \in Residents(b), table' = Remove(table, b, f),
         NEW c \in Bucket
  PROVE  \A i, j \in Slots(c)' : table'[c].slot[i] = table'[c].slot[j] => i = j
<1>. TypeOK
  BY DEF IInv
<1>1. PICK k \in Slots(b) :
        /\ table[b].slot[k] = f
        /\ \A i \in 1..table'[b].count : table'[b].slot[i] = table[b].slot[IF i < k THEN i ELSE i + 1]
  BY RemoveSlots
<1>2. /\ table' \in [Bucket -> Chain] /\ \A d \in Bucket \ {b} : table'[d] = table[d]
      /\ table'[b].count = table[b].count - 1
  BY RemoveSlots
<1>3. table[b].count \in Nat /\ k \in 1..table[b].count
  BY SlotTyped DEF Slots
<1>4. CASE c # b
  BY <1>2, <1>4, SlotOnce DEF Slots
<1>5. CASE c = b
  <2>. SUFFICES ASSUME NEW i \in 1..table'[b].count, NEW j \in 1..table'[b].count,
                       table'[b].slot[i] = table'[b].slot[j]
                PROVE  i = j
    BY <1>5 DEF Slots
  <2>. DEFINE Was(x) == IF x < k THEN x ELSE x + 1
  <2>1. Was(i) \in Slots(b) /\ Was(j) \in Slots(b)
    BY <1>2, <1>3 DEF Slots
  <2>2. table[b].slot[Was(i)] = table[b].slot[Was(j)]
    BY <1>1
  <2>3. Was(i) = Was(j)
    BY <2>1, <2>2, SlotOnce
  <2>. QED
    BY <2>3, <1>3
<1>. QED
  BY <1>4, <1>5

\* Who inserts has a frame with the name of his page, which is not in the table.
LEMMA InsertForms ==
  ASSUME IInv, NEW t \in Thread, PutIn(t)
  PROVE  /\ place[t] = "insert" /\ my[t].p \in Page /\ my[t].f \in Frame
         /\ cb[my[t].f].pid = my[t].p /\ Absent(my[t].p) /\ ~InTable(my[t].f)
         /\ tb' = [tb EXCEPT ![Transit[my[t].p]] = NoOne] /\ place' = [place EXCEPT ![t] = "read"]
         /\ UNCHANGED <<cb, unused, transit, writer, store, my>>
         /\ \E b \in Bucket : /\ HasRoom(b) /\ table' = Put(table, b, my[t].f)
                              /\ \E h \in 1..2 : b = Hash[h][my[t].p]
<1>1. place[t] = "insert" /\ my[t].p \in Page /\ my[t].f \in Frame /\ place[t] \in Owning
  BY Parts DEF PutIn, LocalsOK, Owning, Looking
<1>2. cb[my[t].f].pid = my[t].p /\ Absent(my[t].p) /\ ~InTable(my[t].f)
  BY <1>1, Parts DEF Missing, Owned
<1>3. PICK h \in 1..2 : HasRoom(Hash[h][my[t].p]) /\ table' = Put(table, Hash[h][my[t].p], my[t].f)
  BY DEF PutIn
<1>4. Hash[h][my[t].p] \in Bucket
  BY <1>1 DEF Bucket
<1>. QED
  BY <1>1, <1>2, <1>3, <1>4 DEF PutIn, StepTo

\* The frame that is put in joins its bucket, and the others stay where they are.
LEMMA InsertedResidents ==
  ASSUME IInv, PoolConstants, NEW b \in Bucket, HasRoom(b), NEW f \in Frame, table' = Put(table, b, f)
  PROVE  /\ table' \in [Bucket -> Chain]
         /\ Residents(b)' = Residents(b) \union {f}
         /\ \A c \in Bucket \ {b} : Residents(c)' = Residents(c)
         /\ \A g : InTable(g)' <=> InTable(g) \/ g = f
         /\ \A c \in Bucket : \A i \in Slots(c) : i \in Slots(c)' /\ table'[c].slot[i] = table[c].slot[i]
         /\ \A c \in Bucket : \A i \in 1..SlotCount : table'[c].slot[i] \in {table[c].slot[i], f}
         /\ ~InTable(f) => \A c \in Bucket : \A i, j \in Slots(c)' : table'[c].slot[i] = table'[c].slot[j] => i = j
<1>. TypeOK
  BY DEF IInv
<1>. DEFINE n == table[b].count
<1>1. /\ table' \in [Bucket -> Chain] /\ \A c \in Bucket \ {b} : table'[c] = table[c]
      /\ table'[b].count = n + 1
      /\ table'[b].slot = [table[b].slot EXCEPT ![n + 1] = f]
  BY PutSlots
<1>2. /\ n \in Nat /\ SlotCount \in Nat /\ n + 1 \in 1..SlotCount
      /\ table[b].slot \in [1..SlotCount -> Maybe(Frame)]
  BY SlotTyped, PutSlots, <1>1
<1>. HIDE DEF n
<1>3. /\ table'[b].slot[n + 1] = f
      /\ \A i \in 1..SlotCount : i # n + 1 => table'[b].slot[i] = table[b].slot[i]
      /\ \A i \in 1..n : i \in 1..SlotCount /\ i # n + 1 /\ i \in 1..(n + 1)
  <2>1. \A i \in 1..n : i \in 1..SlotCount /\ i # n + 1 /\ i \in 1..(n + 1)
    BY <1>2
  <2>. QED
    BY <2>1, <1>1, <1>2
<1>4. \A c \in Bucket \ {b} : Residents(c)' = Residents(c)
  BY <1>1 DEF Residents
<1>5. Residents(b)' = Residents(b) \union {f}
  <2>1. \A i \in 1..(n + 1) : i = n + 1 \/ i \in 1..n
    BY <1>2
  <2>2. \A i \in 1..n : i \in 1..(n + 1)
    BY <1>2
  <2>3. n + 1 \in 1..(n + 1)
    BY <1>2
  <2>4. Residents(b) = {table[b].slot[i] : i \in 1..n} /\ Residents(b)' = {table'[b].slot[i] : i \in 1..(n + 1)}
    BY <1>1 DEF Residents, n
  <2>. QED
    BY <2>1, <2>2, <2>3, <2>4, <1>3
<1>6. \A c \in Bucket : \A i \in Slots(c) : i \in Slots(c)' /\ table'[c].slot[i] = table[c].slot[i]
  <2>1. \A c \in Bucket \ {b} : \A i \in Slots(c) : i \in Slots(c)' /\ table'[c].slot[i] = table[c].slot[i]
    BY <1>1 DEF Slots
  <2>2. \A i \in Slots(b) : i \in 1..n
    BY DEF Slots, n
  <2>3. \A i \in 1..(n + 1) : i \in Slots(b)'
    BY <1>1 DEF Slots
  <2>. QED
    BY <2>1, <2>2, <2>3, <1>3
<1>7. \A c \in Bucket : \A i \in 1..SlotCount : table'[c].slot[i] \in {table[c].slot[i], f}
  BY <1>1, <1>3
<1>8. ASSUME ~InTable(f), NEW c \in Bucket, NEW i \in Slots(c)', NEW j \in Slots(c)',
             table'[c].slot[i] = table'[c].slot[j]
      PROVE  i = j
  <2>1. CASE c # b
    BY <2>1, <1>8, <1>1, SlotOnce DEF Slots
  <2>2. CASE c = b
    <3>1. i \in 1..(n + 1) /\ j \in 1..(n + 1)
      BY <2>2, <1>1 DEF Slots
    <3>2. i = n + 1 \/ i \in Slots(b)
      BY <3>1, <1>2 DEF Slots, n
    <3>3. j = n + 1 \/ j \in Slots(b)
      BY <3>1, <1>2 DEF Slots, n
    <3>4. \A x \in Slots(b) : x \in 1..n /\ table'[b].slot[x] = table[b].slot[x] /\ table[b].slot[x] # f
      BY <1>6, <1>8, SlotOK DEF Slots, InTable, n
    <3>. QED
      BY <3>2, <3>3, <3>4, <1>3, <1>8, <2>2, SlotOnce
  <2>. QED
    BY <2>1, <2>2
<1>9. \A g : InTable(g)' <=> InTable(g) \/ g = f
  BY <1>4, <1>5 DEF InTable
<1>. QED
  BY <1>1, <1>4, <1>5, <1>6, <1>7, <1>8, <1>9
-----------------------------------------------------------------------------
\* cuckold moves a resident of one bucket into room in another of its page, or gives up.
LEMMA CuckoldForms ==
  ASSUME IInv, NEW t \in Thread, Cuckold(t)
  PROVE  LET m == my[t]
             g == table[m.b].slot[m.s]
         IN  /\ place[t] = "move"
             /\ m.b \in Bucket /\ m.s \in Slots(m.b) /\ m.to \in Bucket \ {m.b} /\ g \in Residents(m.b)
             /\ \E h \in 1..2 : m.to = Hash[h][cb[g].pid]
             /\ my' = [my EXCEPT ![t].b = NoOne, ![t].s = 1, ![t].to = NoOne]
             /\ place' = [place EXCEPT ![t] = "insert"]
             /\ UNCHANGED <<cb, unused, locks, store>>
             /\ \/ UNCHANGED table
                \/ HasRoom(m.to) /\ table' = Move(table, m.b, m.s, m.to)
<1>1. /\ place[t] = "move"
      /\ table' = IF ~HasRoom(my[t].b) /\ HasRoom(my[t].to) THEN Move(table, my[t].b, my[t].s, my[t].to) ELSE table
      /\ my' = [my EXCEPT ![t].b = NoOne, ![t].s = 1, ![t].to = NoOne]
      /\ place' = [place EXCEPT ![t] = "insert"]
      /\ UNCHANGED <<cb, unused, locks, store>>
  BY DEF Cuckold, StepTo
<1>2. /\ my[t].b \in Bucket /\ my[t].s \in Slots(my[t].b) /\ my[t].to \in Bucket \ {my[t].b}
      /\ \E h \in 1..2 : my[t].to = Hash[h][cb[table[my[t].b].slot[my[t].s]].pid]
  BY <1>1, Parts, ZenonT(40) DEF Moves
<1>3. table[my[t].b].slot[my[t].s] \in Residents(my[t].b)
  BY <1>2, SlotOK, Zenon
<1>. QED
  BY <1>1, <1>2, <1>3, Zenon

\* The frame that is moved is in the one bucket instead of the other.
LEMMA MovedResidents ==
  ASSUME IInv, PoolConstants, NEW b \in Bucket, NEW to \in Bucket \ {b}, NEW k \in Slots(b), HasRoom(to),
         table' = Move(table, b, k, to), NEW g, g = table[b].slot[k]
  PROVE  /\ table' \in [Bucket -> Chain]
         /\ Residents(b)' = Residents(b) \ {g}
         /\ Residents(to)' = Residents(to) \union {g}
         /\ \A c \in Bucket \ {b, to} : Residents(c)' = Residents(c)
         /\ \A f : InTable(f)' <=> InTable(f)
         /\ \A c \in Bucket : \A i \in 1..SlotCount :
              table'[c].slot[i] = table[c].slot[i] \/ InTable(table'[c].slot[i])
         /\ \A c \in Bucket : \A i, j \in Slots(c)' : table'[c].slot[i] = table'[c].slot[j] => i = j
<1>. TypeOK
  BY DEF IInv
<1>. DEFINE n == table[b].count
            m == table[to].count
            last == table[b].slot[n]
<1>1. /\ table' \in [Bucket -> Chain] /\ \A c \in Bucket \ {b, to} : table'[c] = table[c]
      /\ table'[b].count = n - 1 /\ table'[b].slot = [table[b].slot EXCEPT ![k] = last]
      /\ table'[to].count = m + 1 /\ table'[to].slot = [table[to].slot EXCEPT ![m + 1] = g]
  BY MoveSlots
<1>2. /\ n \in Nat /\ m \in Nat /\ SlotCount \in Nat /\ n <= SlotCount /\ m + 1 \in 1..SlotCount /\ k \in 1..n
      /\ table[b].slot \in [1..SlotCount -> Maybe(Frame)] /\ table[to].slot \in [1..SlotCount -> Maybe(Frame)]
  BY SlotTyped, MoveSlots, <1>1 DEF Slots
<1>3. Slots(b) = 1..n /\ Slots(to) = 1..m /\ Slots(b)' = 1..(n - 1) /\ Slots(to)' = 1..(m + 1)
  BY <1>1 DEF Slots
<1>. HIDE DEF n, m
<1>4. n \in Slots(b) /\ last \in Residents(b) /\ g \in Residents(b)
  BY <1>2, <1>3, SlotOK
<1>. HIDE DEF last
<1>5. /\ table'[b].slot[k] = last
      /\ \A i \in 1..SlotCount : i # k => table'[b].slot[i] = table[b].slot[i]
  BY <1>1, <1>2
<1>6. /\ table'[to].slot[m + 1] = g
      /\ \A i \in 1..SlotCount : i # m + 1 => table'[to].slot[i] = table[to].slot[i]
  BY <1>1, <1>2
<1>7. \A c \in Bucket \ {b, to} : Residents(c)' = Residents(c) /\ Slots(c)' = Slots(c) /\ table'[c] = table[c]
  BY <1>1 DEF Residents, Slots
<1>8. table[b].slot[n] = last /\ table[b].slot[k] = g
  BY DEF last, n
<1>9. \A i \in 1..(n - 1) : i \in 1..SlotCount /\ i \in Slots(b) /\ i # n
  BY <1>2, <1>3
<1>10. \A i \in 1..m : i \in 1..SlotCount /\ i # m + 1 /\ i \in 1..(m + 1)
  BY <1>2
<1>11. Residents(b)' = Residents(b) \ {g}
  <2>1. Residents(b)' = {table'[b].slot[i] : i \in 1..(n - 1)} /\ Residents(b) = {table[b].slot[i] : i \in 1..n}
    BY <1>1 DEF Residents, n
  <2>2. ASSUME NEW i \in 1..(n - 1) PROVE table'[b].slot[i] \in Residents(b) \ {g}
    <3>1. CASE i = k
      <4>1. last # g
        BY <3>1, <1>2, <1>3, <1>4, <1>8, <1>9, SlotOnce
      <4>. QED
        BY <3>1, <4>1, <1>4, <1>5
    <3>2. CASE i # k
      <4>1. table'[b].slot[i] = table[b].slot[i] /\ i \in Slots(b)
        BY <3>2, <1>5, <1>9
      <4>2. table[b].slot[i] # g
        BY <4>1, <3>2, <1>8, SlotOnce
      <4>. QED
        BY <4>1, <4>2, SlotOK
    <3>. QED
      BY <3>1, <3>2
  <2>3. ASSUME NEW i \in 1..n, table[b].slot[i] # g PROVE table[b].slot[i] \in Residents(b)'
    <3>1. CASE i = n
      <4>1. k \in 1..(n - 1)
        BY <3>1, <2>3, <1>2, <1>8
      <4>. QED
        BY <3>1, <4>1, <2>1, <1>5, <1>8
    <3>2. CASE i # n
      <4>1. i \in 1..(n - 1) /\ i # k
        BY <3>2, <2>3, <1>2, <1>8
      <4>. QED
        BY <4>1, <2>1, <1>5, <1>9
    <3>. QED
      BY <3>1, <3>2
  <2>. QED
    BY <2>1, <2>2, <2>3
<1>12. Residents(to)' = Residents(to) \union {g}
  <2>1. Residents(to)' = {table'[to].slot[i] : i \in 1..(m + 1)} /\ Residents(to) = {table[to].slot[i] : i \in 1..m}
    BY <1>1 DEF Residents, m
  <2>2. \A i \in 1..(m + 1) : i = m + 1 \/ i \in 1..m
    BY <1>2
  <2>3. m + 1 \in 1..(m + 1)
    BY <1>2
  <2>. QED
    BY <2>1, <2>2, <2>3, <1>6, <1>10
<1>13. \A f : InTable(f)' <=> InTable(f)
  BY <1>4, <1>7, <1>11, <1>12 DEF InTable
<1>14. ASSUME NEW c \in Bucket, NEW i \in 1..SlotCount
       PROVE  table'[c].slot[i] = table[c].slot[i] \/ InTable(table'[c].slot[i])
  BY <1>4, <1>5, <1>6, <1>7 DEF InTable
<1>15. ASSUME NEW i \in Slots(b)', NEW j \in Slots(b)', table'[b].slot[i] = table'[b].slot[j]
       PROVE  i = j
  <2>. DEFINE Was(x) == IF x = k THEN n ELSE x
  <2>1. \A x \in 1..(n - 1) : table'[b].slot[x] = table[b].slot[Was(x)] /\ Was(x) \in Slots(b) /\ x # n
    BY <1>4, <1>5, <1>8, <1>9
  <2>2. Was(i) = Was(j)
    <3>. HIDE DEF Was
    <3>1. i \in 1..(n - 1) /\ j \in 1..(n - 1)
      BY <1>3
    <3>2. /\ Was(i) \in Slots(b) /\ Was(j) \in Slots(b)
          /\ table[b].slot[Was(i)] = table[b].slot[Was(j)]
      BY <3>1, <2>1, <1>15
    <3>. QED
      BY <3>2, SlotOnce
  <2>. QED
    BY <2>1, <2>2, <1>3
<1>16. ASSUME NEW i \in Slots(to)', NEW j \in Slots(to)', table'[to].slot[i] = table'[to].slot[j]
       PROVE  i = j
  <2>1. \A x \in 1..(m + 1) : x = m + 1 \/ x \in Slots(to)
    BY <1>2, <1>3
  <2>2. g \notin Residents(to)
    BY <1>4, ResidentOnce, ResidentOK
  <2>3. \A x \in Slots(to) : table'[to].slot[x] = table[to].slot[x] /\ table[to].slot[x] # g
    BY <2>2, <1>3, <1>6, <1>10, SlotOK
  <2>. QED
    BY <2>1, <2>3, <1>3, <1>6, <1>16, SlotOnce
<1>17. ASSUME NEW c \in Bucket \ {b, to}, NEW i \in Slots(c)', NEW j \in Slots(c)', table'[c].slot[i] = table'[c].slot[j]
       PROVE  i = j
  BY <1>17, <1>7, SlotOnce
<1>. QED
  BY <1>1, <1>7, <1>11, <1>12, <1>13, <1>14, <1>15, <1>16, <1>17
-----------------------------------------------------------------------------
(***************************************************************************)
(* The types of what a step leaves.                                        *)
(***************************************************************************)
\* A control block with one field changed.
LEMMA BlockUpdates ==
  ASSUME NEW c \in Block
  PROVE  /\ \A x \in Maybe(Page) : /\ [c EXCEPT !.pid = x] \in Block
                                  /\ [c EXCEPT !.old = x] \in Block
                                  /\ [c EXCEPT !.page = x] \in Block
         /\ \A x \in BOOLEAN : [c EXCEPT !.dirty = x] \in Block /\ [c EXCEPT !.writing = x] \in Block
         /\ \A x \in Int : [c EXCEPT !.pin = x] \in Block
         /\ \A x \in Nat : [c EXCEPT !.ver = x] \in Block
         /\ \A x \in [Thread -> Modes] : [c EXCEPT !.held = x] \in Block
<1>1. \A x \in Maybe(Page) : [c EXCEPT !.pid = x] \in Block
  BY DEF Block
<1>2. \A x \in Maybe(Page) : [c EXCEPT !.old = x] \in Block
  BY DEF Block
<1>3. \A x \in Maybe(Page) : [c EXCEPT !.page = x] \in Block
  BY DEF Block
<1>4. \A x \in BOOLEAN : [c EXCEPT !.dirty = x] \in Block
  BY DEF Block
<1>5. \A x \in BOOLEAN : [c EXCEPT !.writing = x] \in Block
  BY DEF Block
<1>6. \A x \in Int : [c EXCEPT !.pin = x] \in Block
  BY DEF Block
<1>7. \A x \in Nat : [c EXCEPT !.ver = x] \in Block
  BY DEF Block
<1>8. \A x \in [Thread -> Modes] : [c EXCEPT !.held = x] \in Block
  BY DEF Block
<1>. QED
  BY <1>1, <1>2, <1>3, <1>4, <1>5, <1>6, <1>7, <1>8

\* Control blocks keep their types.
LEMMA BlocksTyped ==
  ASSUME IInv, ~Overtaken, NEW t \in Thread, Step(t)
  PROVE  cb' \in [Frame -> Block]
<1>. /\ TypeOK /\ cb \in [Frame -> Block] /\ LocalsOK(t) /\ my[t] \in Locals
     /\ \A f \in Frame : cb[f] \in Block /\ cb[f].held \in [Thread -> Modes] /\ cb[f].pin \in Int /\ cb[f].ver \in Nat
  BY Parts DEF TypeOK, Block
<1>1. CASE UNCHANGED cb
  BY <1>1
<1>2. CASE Update(t)
  <2>1. my[t].f \in Frame
    BY <1>2 DEF Update, LocalsOK, Using, Reading
  <2>3. cb[my[t].f].ver + 1 \in Nat
    BY <2>1
  <2>4. [cb[my[t].f] EXCEPT !.ver = @ + 1] \in Block
    BY <2>1, <2>3, BlockUpdates
  <2>2. [cb[my[t].f] EXCEPT !.ver = @ + 1, !.dirty = TRUE] \in Block
    BY <2>4, BlockUpdates, Zenon
  <2>. QED
    BY <1>2, <2>2 DEF Update
<1>3. CASE Probe(t)
  <2>1. cb' = cb \/ \E g : cb' = [cb EXCEPT ![g].pin = @ + 1]
    BY <1>3, Zenon DEF Probe, Pin, Pinned, Found, NextSlot
  <2>2. \A g \in Frame : [cb[g] EXCEPT !.pin = @ + 1] \in Block
    BY DEF Block
  <2>. QED
    BY <2>1, <2>2
<1>4. CASE Latch(t)
  <2>1. my[t].f \in Frame /\ my[t].p \in Page /\ Mode(t) \in Modes
    BY <1>4 DEF Latch, LocalsOK, Using, Mode, Cleans, Locals, Modes
  <2>2. [cb[my[t].f].held EXCEPT ![t] = Mode(t)] \in [Thread -> Modes]
    BY <2>1
  <2>3. [cb[my[t].f] EXCEPT !.held = [cb[my[t].f].held EXCEPT ![t] = Mode(t)]] \in Block
    BY <2>1, <2>2 DEF Block
  <2>. DEFINE c == [cb[my[t].f] EXCEPT !.held = [cb[my[t].f].held EXCEPT ![t] = Mode(t)]]
              d == [c EXCEPT !.pid = IF ~Cleans(t) THEN my[t].p ELSE @]
  <2>4. d \in Block
    <3>. HIDE DEF c
    <3>. QED
      BY <2>1, <2>3 DEF Block, Maybe, c
  <2>5. cb' = [cb EXCEPT ![my[t].f] = d]
    BY <1>4, <2>1 DEF Latch, Block
  <2>. HIDE DEF d
  <2>. QED
    BY <2>4, <2>5
<1>5. CASE LatchFails(t) \/ Unpin(t)
  <2>1. \A g \in Frame : [cb[g] EXCEPT !.pin = @ - 1] \in Block
    BY DEF Block
  <2>. QED
    BY <1>5, <2>1 DEF LatchFails, Unpin
<1>6. CASE TakeFree(t)
  <2>1. PICK g \in unused :
          cb' = [cb EXCEPT ![g].pin = 0, ![g].old = NoOne, ![g].dirty = FALSE, ![g].held[t] = "EX"]
    BY <1>6, Zenon DEF TakeFree
  <2>2. g \in Frame
    BY <2>1 DEF TypeOK
  <2>3. [cb[g].held EXCEPT ![t] = "EX"] \in [Thread -> Modes]
    BY <2>2 DEF Modes
  <2>6. [cb[g] EXCEPT !.pin = 0] \in Block
    <3>. 0 \in Int
      OBVIOUS
    <3>. QED
      BY <2>2, BlockUpdates
  <2>7. [cb[g] EXCEPT !.pin = 0, !.old = NoOne] \in Block
    BY <2>6, BlockUpdates DEF Maybe
  <2>8. [cb[g] EXCEPT !.pin = 0, !.old = NoOne, !.dirty = FALSE] \in Block
    BY <2>7, BlockUpdates
  <2>4. [cb[g] EXCEPT !.pin = 0, !.old = NoOne, !.dirty = FALSE, !.held = [cb[g].held EXCEPT ![t] = "EX"]] \in Block
    BY <2>8, <2>3, BlockUpdates
  <2>5. cb' = [cb EXCEPT ![g] = [cb[g] EXCEPT !.pin = 0, !.old = NoOne, !.dirty = FALSE, !.held = [cb[g].held EXCEPT ![t] = "EX"]]]
    BY <2>1, <2>2 DEF Block
  <2>. QED
    BY <2>4, <2>5
<1>7. CASE Evict(t)
  <2>. DEFINE f == my[t].f
              v == my[t].victim
  <2>1. f \in Frame /\ v \in Page /\ (cb' = cb \/ cb' = [cb EXCEPT ![f].held[t] = "EX", ![f].old = v])
    BY <1>7, EvictForms
  <2>2. [cb[f].held EXCEPT ![t] = "EX"] \in [Thread -> Modes]
    BY <2>1 DEF Modes
  <2>5. [cb[f] EXCEPT !.held = [cb[f].held EXCEPT ![t] = "EX"]] \in Block
    BY <2>1, <2>2, BlockUpdates
  <2>3. [cb[f] EXCEPT !.held = [cb[f].held EXCEPT ![t] = "EX"], !.old = v] \in Block
    BY <2>1, <2>5, BlockUpdates DEF Maybe
  <2>4. cb' = cb \/ cb' = [cb EXCEPT ![f] = [cb[f] EXCEPT !.held = [cb[f].held EXCEPT ![t] = "EX"], !.old = v]]
    BY <2>1 DEF Block
  <2>. QED
    BY <2>3, <2>4
<1>8. CASE ReplaceOut(t) \/ PublishPartial(t)
  <2>1. \A g \in Frame : [cb[g] EXCEPT !.dirty = FALSE] \in Block
    BY BlockUpdates
  <2>2. \A g \in Frame : [cb[g] EXCEPT !.old = NoOne] \in Block
    BY BlockUpdates, Zenon DEF Maybe
  <2>3. cb' = [cb EXCEPT ![my[t].f].dirty = FALSE] \/ cb' = [cb EXCEPT ![my[t].f].old = NoOne]
    BY <1>8, Zenon DEF ReplaceOut, PublishPartial
  <2>. QED
    BY <2>1, <2>2, <2>3
<1>9. CASE Grab(t)
  <2>1. \A g \in Frame : [cb[g] EXCEPT !.pin = @ + 1] \in Block
    BY DEF Block
  <2>. QED
    BY <1>9, <2>1 DEF Grab, Pinned
<1>10. CASE NotHere(t)
  <2>1. cb' = cb \/ cb' = [cb EXCEPT ![my[t].f].pid = my[t].p]
    BY <1>10 DEF NotHere
  <2>2. my[t].p \in Page
    BY <1>10 DEF NotHere, LocalsOK
  <2>3. \A g \in Frame : [cb[g] EXCEPT !.pid = my[t].p] \in Block
    BY <2>2 DEF Block, Maybe
  <2>. QED
    BY <2>1, <2>3
<1>11. CASE FoundAfterAll(t)
  <2>. DEFINE f == my[t].f
  <2>1. PICK g \in Residents(Here(t)) :
          cb' = [cb EXCEPT ![f].held[t] = "NL", ![f].pin = @ - 1, ![g].pin = @ + 1]
    BY <1>11, Zenon DEF FoundAfterAll, Get
  <2>2. f \in Frame /\ f # g /\ g \in Frame
    <3>1. place[t] \in Owning /\ my[t].p \in Page /\ my[t].f \in Frame
      BY <1>11 DEF FoundAfterAll, LocalsOK, Owning, Looking
    <3>2. Here(t) \in Bucket
      BY <3>1, HashInBucket DEF Here, Locals
    <3>. QED
      BY <3>1, <3>2, <2>1, ResidentOK, Parts DEF Owned
  <2>3. [cb[f].held EXCEPT ![t] = "NL"] \in [Thread -> Modes]
    BY <2>2 DEF Modes
  <2>4. [cb[f] EXCEPT !.held = [cb[f].held EXCEPT ![t] = "NL"]] \in Block
    BY <2>2, <2>3, BlockUpdates
  <2>5. cb[f].pin - 1 \in Int /\ cb[g].pin + 1 \in Int
    BY <2>2
  <2>6. [[cb[f] EXCEPT !.held = [cb[f].held EXCEPT ![t] = "NL"]] EXCEPT !.pin = cb[f].pin - 1] \in Block
    BY <2>4, <2>5, BlockUpdates
  <2>7. [cb[g] EXCEPT !.pin = cb[g].pin + 1] \in Block
    BY <2>2, <2>5, BlockUpdates
  <2>8. cb' = [cb EXCEPT ![f] = [[cb[f] EXCEPT !.held = [cb[f].held EXCEPT ![t] = "NL"]] EXCEPT !.pin = cb[f].pin - 1],
                         ![g] = [cb[g] EXCEPT !.pin = cb[g].pin + 1]]
    BY <2>1, <2>2, Zenon DEF Block
  <2>. QED
    BY <2>6, <2>7, <2>8, Zenon
<1>12. CASE Read(t)
  <2>. DEFINE f == my[t].f
              p == my[t].p
  <2>1. f \in Frame /\ p \in Page /\ my[t].mode \in Modes /\ disk[p] \in Nat
    BY <1>12 DEF Read, LocalsOK, Using, Locals, Modes, Cleans, TypeOK
  <2>2. [cb[f].held EXCEPT ![t] = my[t].mode] \in [Thread -> Modes]
    BY <2>1
  <2>. cb[f] \in Block
    BY <2>1 DEF TypeOK
  <2>5. [cb[f] EXCEPT !.page = p] \in Block
    BY <2>1, BlockUpdates DEF Maybe
  <2>6. [cb[f] EXCEPT !.page = p, !.ver = disk[p]] \in Block
    BY <2>1, <2>5, BlockUpdates
  <2>3. [cb[f] EXCEPT !.page = p, !.ver = disk[p], !.held = [cb[f].held EXCEPT ![t] = my[t].mode]] \in Block
    BY <2>2, <2>6, BlockUpdates
  <2>4. cb' = [cb EXCEPT ![f] = [cb[f] EXCEPT !.page = p, !.ver = disk[p], !.held = [cb[f].held EXCEPT ![t] = my[t].mode]]]
    BY <1>12, <2>1 DEF Read, Block
  <2>. QED
    BY <2>3, <2>4
<1>13. CASE Unlatch(t)
  <2>. DEFINE f == my[t].f
  <2>1. f \in Frame
    BY <1>13 DEF Unlatch, LocalsOK, Using
  <2>2. [cb[f].held EXCEPT ![t] = "NL"] \in [Thread -> Modes]
    BY <2>1 DEF Modes
  <2>3. [cb[f] EXCEPT !.held = [cb[f].held EXCEPT ![t] = "NL"]] \in Block
    BY <2>1, <2>2 DEF Block
  <2>. QED
    BY <1>13, <2>3 DEF Unlatch
<1>14. CASE Copy(t) \/ WriteOut(t)
  <2>5. \A g \in Frame : [cb[g] EXCEPT !.writing = TRUE] \in Block
    BY BlockUpdates
  <2>1. \A g \in Frame : [cb[g] EXCEPT !.writing = TRUE, !.dirty = FALSE] \in Block
    BY <2>5, BlockUpdates
  <2>2. \A g \in Frame : [cb[g] EXCEPT !.writing = FALSE] \in Block
    BY DEF Block
  <2>3. CASE Copy(t)
    <3>1. cb' = cb \/ cb' = [cb EXCEPT ![my[t].f].writing = TRUE, ![my[t].f].dirty = FALSE]
      BY <2>3 DEF Copy
    <3>2. cb' = cb \/ cb' = [cb EXCEPT ![my[t].f] = [cb[my[t].f] EXCEPT !.writing = TRUE, !.dirty = FALSE]]
      BY <3>1
    <3>3. my[t].f \in Frame
      BY <2>3 DEF Copy, LocalsOK, Using, Reading
    <3>4. [cb[my[t].f] EXCEPT !.writing = TRUE, !.dirty = FALSE] \in Block
      BY <3>3, <2>1, Zenon
    <3>. QED
      BY <3>2, <3>3, <3>4
  <2>4. CASE WriteOut(t)
    <3>1. cb' = [cb EXCEPT ![my[t].f].writing = FALSE]
      BY <2>4 DEF WriteOut
    <3>. QED
      BY <3>1, <2>2
  <2>. QED
    BY <1>14, <2>3, <2>4
<1>. QED
  BY <1>1, <1>2, <1>3, <1>4, <1>5, <1>6, <1>7, <1>8, <1>9, <1>10, <1>11, <1>12, <1>13, <1>14, BlocksStay
-----------------------------------------------------------------------------
\* So does the table,
LEMMA TableTyped ==
  ASSUME IInv, ~Overtaken, PoolConstants, NEW t \in Thread, Step(t)
  PROVE  table' \in [Bucket -> Chain]
<1>0. TypeOK /\ table \in [Bucket -> Chain]
  BY Parts DEF TypeOK
<1>1. CASE UNCHANGED table
  BY <1>0, <1>1
<1>2. CASE Evict(t)
  BY <1>0, <1>2, EvictForms, EvictedResidents, Zenon
<1>3. CASE PutIn(t)
  BY <1>0, <1>3, InsertForms, InsertedResidents
<1>4. CASE Cuckold(t)
  BY <1>0, <1>4, CuckoldForms, MovedResidents, ZenonT(40)
<1>. QED
  BY <1>1, <1>2, <1>3, <1>4, TableStays

\* what is in transit and the mutexes,
LEMMA LocksTyped ==
  ASSUME IInv, ~Overtaken, NEW t \in Thread, Step(t)
  PROVE  /\ transit' \in [TransitBucket -> SUBSET Page]
         /\ tb' \in [TransitBucket -> Maybe(Thread)]
         /\ writer' \in [Mutex -> Maybe(Thread)]
<1>0. /\ TypeOK /\ transit \in [TransitBucket -> SUBSET Page]
      /\ tb \in [TransitBucket -> Maybe(Thread)] /\ writer \in [Mutex -> Maybe(Thread)]
  BY Parts DEF TypeOK
<1>1. transit' \in [TransitBucket -> SUBSET Page]
  <2>1. CASE Evict(t)
    <3>1. my[t].victim \in Page /\ (transit' = transit \/ transit' = [transit EXCEPT ![Transit[my[t].victim]] = @ \union {my[t].victim}])
      BY <2>1, EvictForms
    <3>. QED
      BY <3>1, <1>0
  <2>2. CASE PublishPartial(t)
    BY <2>2, <1>0, Zenon DEF PublishPartial
  <2>. QED
    BY <2>1, <2>2, <1>0, LocksStay
<1>2. tb' \in [TransitBucket -> Maybe(Thread)]
  <2>1. \/ tb' = tb \/ tb' = [tb EXCEPT ![Transit[my[t].p]] = t] \/ tb' = [tb EXCEPT ![Transit[my[t].p]] = NoOne]
    BY LocksStay, Zenon DEF AwaitTransit, FoundAfterAll, PutIn
  <2>. QED
    BY <2>1, <1>0 DEF Maybe
<1>3. writer' \in [Mutex -> Maybe(Thread)]
  <2>1. writer' = writer \/ \E m : writer' = [writer EXCEPT ![m] = t] \/ writer' = [writer EXCEPT ![m] = NoOne]
    BY LocksStay DEF VictimDirty, ReplaceOut, LockPage, Copy, WriteOut, WhileWritten
  <2>. QED
    BY <2>1, <1>0 DEF Maybe
<1>. QED
  BY <1>1, <1>2, <1>3

\* what is on disk and the free list,
LEMMA StoreTyped ==
  ASSUME IInv, ~Overtaken, NEW t \in Thread, Step(t)
  PROVE  /\ disk' \in [Page -> Nat] /\ latest' \in [Page -> Nat] /\ may' \in [Thread -> SUBSET Calls]
         /\ unused' \in SUBSET Frame
<1>0. /\ disk \in [Page -> Nat] /\ latest \in [Page -> Nat] /\ may \in [Thread -> SUBSET Calls]
      /\ unused \in SUBSET Frame /\ cb \in [Frame -> Block] /\ \A f \in Frame : cb[f].ver \in Nat
  BY Parts DEF TypeOK, Block
<1>. LocalsOK(t) /\ my[t] \in Locals
  BY Parts
<1>1. disk' \in [Page -> Nat]
  <2>1. CASE ReplaceOut(t)
    <3>1. my[t].f \in Frame
      BY <2>1 DEF ReplaceOut, LocalsOK, Owning, Emptying
    <3>. QED
      BY <2>1, <3>1, <1>0 DEF ReplaceOut
  <2>2. CASE WriteOut(t)
    BY <2>2, <1>0 DEF WriteOut, Locals
  <2>. QED
    BY <2>1, <2>2, <1>0, StoreStays
<1>2. latest' \in [Page -> Nat]
  <2>1. CASE Update(t)
    <3>1. my[t].f \in Frame
      BY <2>1 DEF Update, LocalsOK, Using, Reading
    <3>2. cb[my[t].f].ver + 1 \in Nat
      BY <3>1, <1>0
    <3>. QED
      BY <2>1, <3>2, <1>0 DEF Update
  <2>. QED
    BY <2>1, <1>0, StoreStays
<1>3. may' \in [Thread -> SUBSET Calls]
  BY <1>0, StoreStays
<1>4. unused' \in SUBSET Frame
  <2>1. FoundAfterAll(t) => my[t].f \in Frame
    BY DEF FoundAfterAll, LocalsOK, Owning, Looking
  <2>. QED
    BY <2>1, <1>0, FreeStays, ZenonT(40) DEF TakeFree, FoundAfterAll
<1>. QED
  BY <1>1, <1>2, <1>3, <1>4

\* and the count of moves.
LEMMA MovedTyped ==
  ASSUME IInv, Count
  PROVE  moved' \in [Thread -> [before : Nat, now : Nat]]
<1>. moved \in [Thread -> [before : Nat, now : Nat]]
  BY DEF IInv, TypeOK
<1>. SUFFICES ASSUME NEW t \in Thread PROVE moved'[t] \in [before : Nat, now : Nat]
  BY DEF Count
<1>1. moved[t] \in [before : Nat, now : Nat] /\ moved[t].now \in Nat /\ moved[t].now + 1 \in Nat
  OBVIOUS
<1>2. [moved[t] EXCEPT !.now = @ + 1] \in [before : Nat, now : Nat]
  BY <1>1
<1>. QED
  BY <1>1, <1>2 DEF Count

\* A step keeps the types.
LEMMA TypeKept ==
  ASSUME IInv, ~Overtaken, PoolConstants, NEW t \in Thread, Step(t), Count
  PROVE  TypeOK'
<1>. TypeOK /\ SlotsFilled /\ EachOK(t)
  BY Parts
<1>. QED
  BY BlocksTyped, TableTyped, LocksTyped, StoreTyped, MovedTyped, PlacesTyped, LocalsTyped DEF TypeOK
-----------------------------------------------------------------------------
(***************************************************************************)
(* The slots.                                                              *)
(***************************************************************************)
\* A frame gets a page's name when nobody has found the page; _fix gives it the name it has.
LEMMA NameStays ==
  ASSUME IInv, NEW t \in Thread, Step(t), NEW f \in Frame
  PROVE  cb'[f].pid = cb[f].pid \/ (f = my[t].f /\ NotHere(t) /\ place[t] = "look")
<1>. TypeOK /\ LocalsOK(t) /\ Used(t) /\ cb[f] \in Block /\ cb \in [Frame -> Block]
  BY Parts DEF TypeOK
<1>1. CASE Latch(t) /\ f = my[t].f
  <2>1. cb[f].pid = my[t].p
    BY <1>1 DEF Latch, Used, Using
  <2>. QED
    BY <1>1, <2>1 DEF Latch, Block
<1>. QED
  BY <1>1, PidStays, Zenon DEF NotHere

\* What is in the table keeps its name.
LEMMA ResidentName ==
  ASSUME IInv, NEW t \in Thread, Step(t), NEW f \in Frame, InTable(f)
  PROVE  cb'[f].pid = cb[f].pid
  BY NameStays, Parts DEF Owned, Owning, Looking

\* What cuckold moves, said of the buckets and not of the locals.
LEMMA CuckoldMoves ==
  ASSUME IInv, PoolConstants, NEW t \in Thread, Cuckold(t), ~UNCHANGED table
  PROVE  \E b \in Bucket : \E to \in Bucket \ {b}, g \in Residents(b) :
           /\ \E h \in 1..2 : to = Hash[h][cb[g].pid]
           /\ Residents(b)' = Residents(b) \ {g}
           /\ Residents(to)' = Residents(to) \union {g}
           /\ \A c \in Bucket \ {b, to} : Residents(c)' = Residents(c)
           /\ \A f : InTable(f)' <=> InTable(f)
           /\ \A c \in Bucket : \A i \in 1..SlotCount :
                table'[c].slot[i] = table[c].slot[i] \/ InTable(table'[c].slot[i])
           /\ \A c \in Bucket : \A i, j \in Slots(c)' : table'[c].slot[i] = table'[c].slot[j] => i = j
<1>1. PICK b \in Bucket : b = my[t].b
  BY CuckoldForms, ZenonT(40)
<1>2. PICK to \in Bucket \ {b} : to = my[t].to
  BY <1>1, CuckoldForms, ZenonT(40)
<1>3. PICK k \in Slots(b) : k = my[t].s
  BY <1>1, CuckoldForms, ZenonT(40)
<1>4. PICK g \in Residents(b) : g = table[b].slot[k]
  BY <1>1, <1>3, CuckoldForms, ZenonT(40)
<1>5. HasRoom(to) /\ table' = Move(table, b, k, to) /\ \E h \in 1..2 : to = Hash[h][cb[g].pid]
  BY <1>1, <1>2, <1>3, <1>4, CuckoldForms, ZenonT(40)
<1>6. /\ Residents(b)' = Residents(b) \ {g}
      /\ Residents(to)' = Residents(to) \union {g}
      /\ \A c \in Bucket \ {b, to} : Residents(c)' = Residents(c)
      /\ \A f : InTable(f)' <=> InTable(f)
      /\ \A c \in Bucket : \A i \in 1..SlotCount :
           table'[c].slot[i] = table[c].slot[i] \/ InTable(table'[c].slot[i])
      /\ \A c \in Bucket : \A i, j \in Slots(c)' : table'[c].slot[i] = table'[c].slot[j] => i = j
  <2>1. IInv /\ PoolConstants /\ b \in Bucket /\ to \in Bucket \ {b} /\ k \in Slots(b) /\ HasRoom(to)
        /\ table' = Move(table, b, k, to) /\ g = table[b].slot[k]
    BY <1>1, <1>2, <1>3, <1>4, <1>5, Zenon
  <2>. QED
    BY ONLY <2>1, MovedResidents
<1>7. b \in Bucket /\ to \in Bucket \ {b} /\ g \in Residents(b)
  BY <1>1, <1>2, <1>4
<1>. QED
  BY ONLY <1>5, <1>6, <1>7, ZenonT(40)

\* The slots in use have frames with pages that belong there, and no page twice, after any step.
LEMMA SlotsKept ==
  ASSUME IInv, ~Overtaken, PoolConstants, NEW t \in Thread, Step(t)
  PROVE  SlotsFilled' /\ SlotsDiffer'
<1>1. CASE UNCHANGED table
  <2>1. SlotsFilled /\ SlotsDiffer
    BY DEF IInv
  <2>2. \A b \in Bucket : \A i \in Slots(b) : cb'[table[b].slot[i]].pid = cb[table[b].slot[i]].pid
    <3>. TAKE b \in Bucket
    <3>. TAKE i \in Slots(b)
    <3>1. table[b].slot[i] \in Residents(b)
      BY SlotOK
    <3>2. table[b].slot[i] \in Frame /\ InTable(table[b].slot[i])
      BY <3>1, ResidentOK
    <3>. QED
      BY <3>2, ResidentName
  <2>3. table' = table
    BY <1>1
  <2>. QED
    BY ONLY <2>1, <2>2, <2>3 DEF SlotsFilled, SlotsDiffer, Slots
<1>2. CASE Evict(t) /\ ~UNCHANGED table
  <2>. DEFINE f == my[t].f
              b == my[t].b
  <2>1. f \in Residents(b) /\ b \in Bucket /\ table' = Remove(table, b, f)
    BY <1>2, EvictForms
  <2>2. \A c \in Bucket : Residents(c)' = Residents(c) \ {f}
    BY <2>1, EvictedResidents
  <2>3. \A c \in Bucket : \A i, j \in Slots(c)' : table'[c].slot[i] = table'[c].slot[j] => i = j
    BY <2>1, EvictedSlots
  <2>4. \A c \in Bucket : \A g \in Residents(c) :
          g \in Frame /\ cb'[g].pid = cb[g].pid /\ cb'[g].pid \in Page /\ \E h \in 1..2 : c = Hash[h][cb'[g].pid]
    BY ResidentOK, ResidentName
  <2>5. \A c, d \in Bucket : \A g \in Residents(c), k \in Residents(d) : cb'[g].pid = cb'[k].pid => c = d /\ g = k
    BY <2>4, ResidentOnce
  <2>. QED
    BY <2>2, <2>3, <2>4, <2>5, SlotsOfResidents
<1>3. CASE PutIn(t)
  <2>. DEFINE f == my[t].f
  <2>1. PICK b \in Bucket : /\ HasRoom(b) /\ table' = Put(table, b, f)
                            /\ \E h \in 1..2 : b = Hash[h][my[t].p]
    BY <1>3, InsertForms
  <2>2. f \in Frame /\ cb[f].pid = my[t].p /\ my[t].p \in Page /\ Absent(my[t].p) /\ ~InTable(f) /\ cb' = cb
    BY <1>3, InsertForms
  <2>3. /\ Residents(b)' = Residents(b) \union {f}
        /\ \A c \in Bucket \ {b} : Residents(c)' = Residents(c)
        /\ \A c \in Bucket : \A i, j \in Slots(c)' : table'[c].slot[i] = table'[c].slot[j] => i = j
    BY <2>1, <2>2, InsertedResidents, Zenon
  <2>4. \A c \in Bucket : \A g \in Residents(c)' : g \in Residents(c) \/ (c = b /\ g = f)
    BY <2>3
  <2>5. \A c \in Bucket : \A g \in Residents(c) : g \in Frame /\ cb[g].pid # cb[f].pid
    BY <2>2, ResidentOK DEF Absent
  <2>6. \A c \in Bucket : \A g \in Residents(c)' :
          g \in Frame /\ cb'[g].pid \in Page /\ \E h \in 1..2 : c = Hash[h][cb'[g].pid]
    BY <2>1, <2>2, <2>4, ResidentOK
  <2>7. \A c, d \in Bucket : \A g \in Residents(c)', k \in Residents(d)' : cb'[g].pid = cb'[k].pid => c = d /\ g = k
    BY <2>2, <2>4, <2>5, ResidentOnce
  <2>. QED
    BY <2>3, <2>6, <2>7, SlotsOfResidents
<1>4. CASE Cuckold(t) /\ ~UNCHANGED table
  <2>0. cb' = cb
    BY <1>4, CuckoldForms, Zenon
  <2>1. PICK b \in Bucket : \E to \in Bucket \ {b}, g \in Residents(b) :
           /\ \E h \in 1..2 : to = Hash[h][cb[g].pid]
           /\ Residents(b)' = Residents(b) \ {g}
           /\ Residents(to)' = Residents(to) \union {g}
           /\ \A c \in Bucket \ {b, to} : Residents(c)' = Residents(c)
           /\ \A c \in Bucket : \A i, j \in Slots(c)' : table'[c].slot[i] = table'[c].slot[j] => i = j
    BY <1>4, CuckoldMoves
  <2>2. PICK to \in Bucket \ {b}, g \in Residents(b) :
           /\ \E h \in 1..2 : to = Hash[h][cb[g].pid]
           /\ Residents(b)' = Residents(b) \ {g}
           /\ Residents(to)' = Residents(to) \union {g}
           /\ \A c \in Bucket \ {b, to} : Residents(c)' = Residents(c)
           /\ \A c \in Bucket : \A i, j \in Slots(c)' : table'[c].slot[i] = table'[c].slot[j] => i = j
    BY <2>1
  <2>3. \A c \in Bucket : \A x \in Residents(c)' : (x \in Residents(c) /\ x # g) \/ (c = to /\ x = g)
    BY <2>2, ResidentOnce, ResidentOK
  <2>4. \A c \in Bucket : \A x \in Residents(c)' :
          x \in Frame /\ cb'[x].pid \in Page /\ \E h \in 1..2 : c = Hash[h][cb'[x].pid]
    BY <2>0, <2>2, <2>3, ResidentOK
  <2>5. \A c \in Bucket : \A x \in Residents(c) : x # g => cb[x].pid # cb[g].pid
    BY ResidentOnce
  <2>6. \A c, d \in Bucket : \A x \in Residents(c)', y \in Residents(d)' : cb'[x].pid = cb'[y].pid => c = d /\ x = y
    BY <2>0, <2>3, <2>5, ResidentOnce
  <2>. QED
    BY <2>2, <2>4, <2>6, SlotsOfResidents
<1>. QED
  BY <1>1, <1>2, <1>3, <1>4, TableStays
-----------------------------------------------------------------------------
(***************************************************************************)
(* Where a step leads, and what it leaves of the locals.                   *)
(***************************************************************************)
From(t, here, there) == place[t] \in here /\ place'[t] \in there

\* Where each step starts and where it leads.
LEMMA Leads ==
  ASSUME TypeOK, NEW t \in Thread
  PROVE  /\ Fix(t) => From(t, {"out"}, {"search"})
         /\ NextBucket(t) => From(t, {"search"}, {"search", "take", "out"}) /\ (place'[t] = "take" => ~Cleans(t))
         /\ ReadSlot(t) => From(t, {"search"}, {"probe"})
         /\ Probe(t) => From(t, {"probe"}, {"search", "latch"})
         /\ Latch(t) => From(t, {"latch"}, {"clean", "fixed"}) /\ (place'[t] = "clean" <=> Cleans(t))
         /\ LatchFails(t) => From(t, {"latch"}, {"out"})
         /\ TakeFree(t) => From(t, {"take"}, {"grab"})
         /\ Choose(t) => From(t, {"take", "clock"}, {"evict"})
         /\ NoFrame(t) => From(t, {"take", "clock"}, {"out"})
         /\ Evict(t) => From(t, {"evict"}, {"evicted", "clock"})
         /\ VictimClean(t) => From(t, {"evicted"}, {"partial"})
         /\ VictimDirty(t) => From(t, {"evicted"}, {"write"})
         /\ ReplaceOut(t) => From(t, {"write"}, {"partial"})
         /\ PublishPartial(t) => From(t, {"partial"}, {"grab"})
         /\ Grab(t) => From(t, {"grab"}, {"transit"})
         /\ AwaitTransit(t) => From(t, {"transit"}, {"look"})
         /\ NotHere(t) => From(t, {"look"}, {"look", "insert"})
         /\ FoundAfterAll(t) => From(t, {"look"}, {"latch"})
         /\ PutIn(t) => From(t, {"insert"}, {"read"})
         /\ EnsureSpace(t) => From(t, {"insert"}, {"move"})
         /\ Cuckold(t) => From(t, {"move"}, {"insert"})
         /\ Read(t) => From(t, {"read"}, {"fixed"})
         /\ Update(t) => From(t, {"fixed"}, {"unfix"}) /\ my[t].mode = "EX"
         /\ Unpin(t) => From(t, {"fixed", "unfix"}, {"unlatch"})
         /\ Unlatch(t) => From(t, {"unlatch"}, {"flush", "out"}) /\ (place'[t] = "flush" <=> my[t].copy > 0)
         /\ TestDirty(t) => From(t, {"clean"}, {"lock", "unfix"})
         /\ LockPage(t) => From(t, {"lock"}, {"copy"})
         /\ Copy(t) => From(t, {"copy"}, {"unfix"})
         /\ WriteOut(t) => From(t, {"flush"}, {"out"})
<1>. place \in [Thread -> Steps]
  BY DEF TypeOK
<1>1. Fix(t) => From(t, {"out"}, {"search"})
  BY DEF Fix, StepTo, From
<1>2. NextBucket(t) => From(t, {"search"}, {"search", "take", "out"}) /\ (place'[t] = "take" => ~Cleans(t))
  BY DEF NextBucket, StepTo, ReturnFrom, From
<1>3. ReadSlot(t) => From(t, {"search"}, {"probe"})
  BY DEF ReadSlot, StepTo, From
<1>4. Probe(t) => From(t, {"probe"}, {"search", "latch"})
  BY DEF Probe, Pin, Found, NextSlot, StepTo, From
<1>5. Latch(t) => From(t, {"latch"}, {"clean", "fixed"}) /\ (place'[t] = "clean" <=> Cleans(t))
  BY DEF Latch, StepTo, From
<1>6. LatchFails(t) => From(t, {"latch"}, {"out"})
  BY DEF LatchFails, ReturnFrom, StepTo, From
<1>7. TakeFree(t) => From(t, {"take"}, {"grab"})
  BY DEF TakeFree, StepTo, From
<1>8. Choose(t) => From(t, {"take", "clock"}, {"evict"})
  BY DEF Choose, StepTo, From
<1>9. NoFrame(t) => From(t, {"take", "clock"}, {"out"})
  BY DEF NoFrame, ReturnFrom, StepTo, From
<1>10. Evict(t) => From(t, {"evict"}, {"evicted", "clock"})
  BY DEF Evict, StepTo, From
<1>11. VictimClean(t) => From(t, {"evicted"}, {"partial"})
  BY DEF VictimClean, StepTo, From
<1>12. VictimDirty(t) => From(t, {"evicted"}, {"write"})
  BY DEF VictimDirty, StepTo, From
<1>13. ReplaceOut(t) => From(t, {"write"}, {"partial"})
  BY DEF ReplaceOut, StepTo, From
<1>14. PublishPartial(t) => From(t, {"partial"}, {"grab"})
  BY DEF PublishPartial, StepTo, From
<1>15. Grab(t) => From(t, {"grab"}, {"transit"})
  BY DEF Grab, StepTo, From
<1>16. AwaitTransit(t) => From(t, {"transit"}, {"look"})
  BY DEF AwaitTransit, StepTo, From
<1>17. NotHere(t) => From(t, {"look"}, {"look", "insert"})
  BY DEF NotHere, StepTo, From
<1>18. FoundAfterAll(t) => From(t, {"look"}, {"latch"})
  BY DEF FoundAfterAll, StepTo, From
<1>19. PutIn(t) => From(t, {"insert"}, {"read"})
  BY DEF PutIn, StepTo, From
<1>20. EnsureSpace(t) => From(t, {"insert"}, {"move"})
  BY Zenon DEF EnsureSpace, StepTo, From
<1>21. Cuckold(t) => From(t, {"move"}, {"insert"})
  BY DEF Cuckold, StepTo, From
<1>22. Read(t) => From(t, {"read"}, {"fixed"})
  BY DEF Read, StepTo, From
<1>23. Update(t) => From(t, {"fixed"}, {"unfix"}) /\ my[t].mode = "EX"
  BY DEF Update, StepTo, From
<1>24. Unpin(t) => From(t, {"fixed", "unfix"}, {"unlatch"})
  BY DEF Unpin, StepTo, From
<1>25. Unlatch(t) => From(t, {"unlatch"}, {"flush", "out"}) /\ (place'[t] = "flush" <=> my[t].copy > 0)
  BY DEF Unlatch, ReturnFrom, StepTo, From
<1>26. TestDirty(t) => From(t, {"clean"}, {"lock", "unfix"})
  BY DEF TestDirty, StepTo, From
<1>27. LockPage(t) => From(t, {"lock"}, {"copy"})
  BY DEF LockPage, StepTo, From
<1>28. Copy(t) => From(t, {"copy"}, {"unfix"})
  BY DEF Copy, StepTo, From
<1>29. WriteOut(t) => From(t, {"flush"}, {"out"})
  BY DEF WriteOut, ReturnFrom, StepTo, From
<1>. QED
  BY <1>1, <1>2, <1>3, <1>4, <1>5, <1>6, <1>7, <1>8, <1>9, <1>10, <1>11, <1>12, <1>13, <1>14, <1>15, <1>16, <1>17, <1>18, <1>19, <1>20, <1>21, <1>22, <1>23, <1>24, <1>25, <1>26, <1>27, <1>28, <1>29

\* What step a thread can have taken, by where it was and where it is.
LEMMA Goes ==
  ASSUME TypeOK, NEW t \in Thread, Step(t)
  PROVE  \/ Fix(t) /\ From(t, {"out"}, {"search"})
         \/ NextBucket(t) /\ From(t, {"search"}, {"search", "take", "out"}) /\ (place'[t] = "take" => ~Cleans(t))
         \/ ReadSlot(t) /\ From(t, {"search"}, {"probe"})
         \/ Probe(t) /\ From(t, {"probe"}, {"search", "latch"})
         \/ Latch(t) /\ From(t, {"latch"}, {"clean", "fixed"}) /\ (place'[t] = "clean" <=> Cleans(t))
         \/ LatchFails(t) /\ From(t, {"latch"}, {"out"})
         \/ TakeFree(t) /\ From(t, {"take"}, {"grab"})
         \/ Choose(t) /\ From(t, {"take", "clock"}, {"evict"})
         \/ NoFrame(t) /\ From(t, {"take", "clock"}, {"out"})
         \/ Evict(t) /\ From(t, {"evict"}, {"evicted", "clock"})
         \/ VictimClean(t) /\ From(t, {"evicted"}, {"partial"})
         \/ VictimDirty(t) /\ From(t, {"evicted"}, {"write"})
         \/ ReplaceOut(t) /\ From(t, {"write"}, {"partial"})
         \/ PublishPartial(t) /\ From(t, {"partial"}, {"grab"})
         \/ Grab(t) /\ From(t, {"grab"}, {"transit"})
         \/ AwaitTransit(t) /\ From(t, {"transit"}, {"look"})
         \/ NotHere(t) /\ From(t, {"look"}, {"look", "insert"})
         \/ FoundAfterAll(t) /\ From(t, {"look"}, {"latch"})
         \/ PutIn(t) /\ From(t, {"insert"}, {"read"})
         \/ EnsureSpace(t) /\ From(t, {"insert"}, {"move"})
         \/ Cuckold(t) /\ From(t, {"move"}, {"insert"})
         \/ Read(t) /\ From(t, {"read"}, {"fixed"})
         \/ Update(t) /\ From(t, {"fixed"}, {"unfix"}) /\ my[t].mode = "EX"
         \/ Unpin(t) /\ From(t, {"fixed", "unfix"}, {"unlatch"})
         \/ Unlatch(t) /\ From(t, {"unlatch"}, {"flush", "out"}) /\ (place'[t] = "flush" <=> my[t].copy > 0)
         \/ TestDirty(t) /\ From(t, {"clean"}, {"lock", "unfix"})
         \/ LockPage(t) /\ From(t, {"lock"}, {"copy"})
         \/ Copy(t) /\ From(t, {"copy"}, {"unfix"})
         \/ WriteOut(t) /\ From(t, {"flush"}, {"out"})
  BY Leads DEF Step

Returned(t) == place'[t] = "out" /\ my'[t] = [NoLocals EXCEPT !.todo = my[t].todo]

Same(t) ==
  /\ (my'[t].p = my[t].p /\ my'[t].mode = my[t].mode) \/ Fix(t)
  /\ my'[t].f = my[t].f \/ ReadSlot(t) \/ Probe(t) \/ TakeFree(t) \/ Choose(t) \/ FoundAfterAll(t)
  /\ (my'[t].first = my[t].first /\ my'[t].same = my[t].same) \/ NotHere(t) \/ FoundAfterAll(t)
  /\ my'[t].copy = my[t].copy \/ Copy(t) \/ FoundAfterAll(t)
  /\ my'[t].i = my[t].i \/ NextBucket(t) \/ Grab(t) \/ NotHere(t) \/ FoundAfterAll(t)
  /\ my'[t].s = my[t].s \/ NextBucket(t) \/ Probe(t) \/ Grab(t) \/ FoundAfterAll(t) \/ EnsureSpace(t) \/ Cuckold(t)
  /\ my'[t].b = my[t].b \/ Choose(t) \/ Evict(t) \/ FoundAfterAll(t) \/ EnsureSpace(t) \/ Cuckold(t)

\* Which locals a step leaves alone, unless it returns.
LEMMA LocalsStay ==
  ASSUME TypeOK, NEW t \in Thread, Step(t)
  PROVE  Same(t) \/ Returned(t)
<1>. my \in [Thread -> Locals] /\ my[t] \in Locals /\ place \in [Thread -> Steps]
  BY DEF TypeOK
<1>1. CASE UNCHANGED my
  BY <1>1 DEF Same
<1>2. CASE Fix(t)
  <2>1. PICK call \in Calls :
          my' = [my EXCEPT ![t].p = call[1], ![t].mode = call[2], ![t].todo = @ - 1]
    BY <1>2, Zenon DEF Fix, TypeOK
  <2>. QED
    BY <1>2, <2>1 DEF Same, Locals
<1>3. CASE NextBucket(t)
  BY <1>3 DEF NextBucket, StepTo, ReturnFrom, Same, Returned, Locals
<1>4. CASE ReadSlot(t)
  BY <1>4 DEF ReadSlot, Same, Locals
<1>5. CASE Probe(t)
  <2>1. \E g : my' = [my EXCEPT ![t].f = g] \/ my' = [my EXCEPT ![t].s = @ + 1]
    BY <1>5 DEF Probe, Pin, Found, NextSlot
  <2>. QED
    BY <1>5, <2>1 DEF Same, Locals
<1>6. CASE LatchFails(t) \/ NoFrame(t) \/ WriteOut(t)
  BY <1>6 DEF LatchFails, NoFrame, WriteOut, ReturnFrom, StepTo, Returned
<1>7. CASE TakeFree(t)
  <2>1. PICK g \in unused : my' = [my EXCEPT ![t].f = g]
    BY <1>7 DEF TakeFree
  <2>2. my'[t] = [my[t] EXCEPT !.f = g]
    BY <2>1
  <2>. QED
    BY <1>7, <2>2 DEF Same, Locals
<1>8. CASE Choose(t)
  <2>1. PICK g \in Frame, c \in Bucket : my' = [my EXCEPT ![t].f = g, ![t].b = c, ![t].victim = cb[g].pid]
    BY <1>8, Zenon DEF Choose
  <2>2. my'[t] = [my[t] EXCEPT !.f = g, !.b = c, !.victim = cb[g].pid]
    BY <2>1
  <2>. QED
    BY <1>8, <2>2 DEF Same, Locals
<1>9. CASE Evict(t)
  BY <1>9 DEF Evict, Same, Locals
<1>10. CASE Grab(t)
  BY <1>10 DEF Grab, Same, Locals
<1>11. CASE NotHere(t)
  <2>. DEFINE i     == my[t].i
              count == table[Here(t)].count
              same  == IF my[t].first \/ my[t].residents[i] # count THEN my[t].same ELSE my[t].same + 1
              seen  == [my[t] EXCEPT !.residents[i] = count, !.same = same, !.i = 3 - i]
  <2>1. \/ my' = [my EXCEPT ![t] = seen]
        \/ my' = [my EXCEPT ![t].i = 1, ![t].first = TRUE, ![t].residents = <<0, 0>>, ![t].same = 0]
        \/ my' = [my EXCEPT ![t] = [seen EXCEPT !.first = FALSE, !.same = 0]]
    BY <1>11 DEF NotHere
  <2>. HIDE DEF same, count
  <2>2. /\ my'[t].p = my[t].p /\ my'[t].mode = my[t].mode /\ my'[t].f = my[t].f /\ my'[t].copy = my[t].copy
        /\ my'[t].s = my[t].s /\ my'[t].b = my[t].b
    <3>1. /\ seen.p = my[t].p /\ seen.mode = my[t].mode /\ seen.f = my[t].f /\ seen.copy = my[t].copy
          /\ seen.s = my[t].s /\ seen.b = my[t].b
      BY DEF Locals
    <3>2. \A m : m \in {[seen EXCEPT !.first = FALSE, !.same = 0],
                       [my[t] EXCEPT !.i = 1, !.first = TRUE, !.residents = <<0, 0>>, !.same = 0]} =>
            m.p = my[t].p /\ m.mode = my[t].mode /\ m.f = my[t].f /\ m.copy = my[t].copy
            /\ m.s = my[t].s /\ m.b = my[t].b
      <4>1. \A m : m = [seen EXCEPT !.first = FALSE, !.same = 0] =>
              m.p = my[t].p /\ m.mode = my[t].mode /\ m.f = my[t].f /\ m.copy = my[t].copy
              /\ m.s = my[t].s /\ m.b = my[t].b
        BY <3>1 DEF Locals
      <4>2. \A m : m = [my[t] EXCEPT !.i = 1, !.first = TRUE, !.residents = <<0, 0>>, !.same = 0] =>
              m.p = my[t].p /\ m.mode = my[t].mode /\ m.f = my[t].f /\ m.copy = my[t].copy
              /\ m.s = my[t].s /\ m.b = my[t].b
        BY DEF Locals
      <4>. QED
        BY <4>1, <4>2
    <3>. HIDE DEF seen
    <3>. QED
      BY <2>1, <3>1, <3>2
  <2>. QED
    BY <1>11, <2>2 DEF Same
<1>12. CASE FoundAfterAll(t)
  <2>1. PICK g : my' = [my EXCEPT ![t] = [NoLocals EXCEPT !.p = my[t].p, !.mode = my[t].mode, !.todo = my[t].todo, !.f = g]]
    BY <1>12, Zenon DEF FoundAfterAll
  <2>2. my'[t] = [NoLocals EXCEPT !.p = my[t].p, !.mode = my[t].mode, !.todo = my[t].todo, !.f = g]
    BY <2>1
  <2>3. my'[t].p = my[t].p /\ my'[t].mode = my[t].mode
    BY <2>2 DEF NoLocals
  <2>. QED
    BY <1>12, <2>3 DEF Same
<1>13. CASE EnsureSpace(t)
  <2>1. PICK b \in Emptied(my[t].p) : \E k \in 1..table[b].count, j \in 1..2 :
         LET to == Hash[j][cb[table[b].slot[k]].pid]
         IN  to # b /\ HasRoom(to) /\ my' = [my EXCEPT ![t].b = b, ![t].s = k, ![t].to = to]
    BY <1>13, Zenon DEF EnsureSpace
  <2>2. PICK k \in 1..table[b].count, j \in 1..2 :
          my' = [my EXCEPT ![t].b = b, ![t].s = k, ![t].to = Hash[j][cb[table[b].slot[k]].pid]]
    BY <2>1, Zenon
  <2>3. my'[t] = [my[t] EXCEPT !.b = b, !.s = k, !.to = Hash[j][cb[table[b].slot[k]].pid]]
    BY <2>2
  <2>. QED
    BY <1>13, <2>3 DEF Same, Locals
<1>14. CASE Cuckold(t)
  BY <1>14 DEF Cuckold, Same, Locals
<1>15. CASE Unlatch(t)
  BY <1>15 DEF Unlatch, ReturnFrom, StepTo, Same, Returned
<1>16. CASE Copy(t)
  <2>1. my' = my \/ my' = [my EXCEPT ![t].copy = cb[my[t].f].ver]
    BY <1>16 DEF Copy
  <2>. QED
    BY <1>16, <2>1 DEF Same, Locals
<1>. QED
  BY <1>1, <1>2, <1>3, <1>4, <1>5, <1>6, <1>7, <1>8, <1>9, <1>10, <1>11, <1>12, <1>13, <1>14, <1>15, <1>16, MyStays
-----------------------------------------------------------------------------
\* grab, when another has brought the page in: this frame is free, and the one that is there is pinned.
LEMMA FoundForms ==
  ASSUME IInv, NEW t \in Thread, FoundAfterAll(t)
  PROVE  /\ place[t] = "look" /\ place' = [place EXCEPT ![t] = "latch"]
         /\ my[t].f \in Frame /\ my[t].p \in Page /\ Here(t) \in Bucket
         /\ \E g \in Residents(Here(t)) :
              /\ cb[g].pid = my[t].p /\ g \in Frame /\ InTable(g) /\ g # my[t].f
              /\ my' = [my EXCEPT ![t] = [NoLocals EXCEPT !.p = my[t].p, !.mode = my[t].mode, !.todo = my[t].todo, !.f = g]]
              /\ cb' = [cb EXCEPT ![my[t].f].held[t] = "NL", ![my[t].f].pin = @ - 1, ![g].pin = @ + 1]
         /\ unused' = unused \union {my[t].f}
         /\ tb' = [tb EXCEPT ![Transit[my[t].p]] = NoOne]
         /\ UNCHANGED <<table, transit, writer, store>>
<1>1. place[t] = "look" /\ my[t].p \in Page /\ my[t].f \in Frame /\ place[t] \in Owning /\ my[t].i \in {1, 2}
  BY Parts DEF FoundAfterAll, LocalsOK, Owning, Looking, Locals
<1>2. Here(t) \in Bucket
  BY <1>1, HashInBucket DEF Here
<1>3. PICK g \in Get(Here(t), my[t].p) :
        /\ cb' = [cb EXCEPT ![my[t].f].held[t] = "NL", ![my[t].f].pin = @ - 1, ![g].pin = @ + 1]
        /\ my' = [my EXCEPT ![t] = [NoLocals EXCEPT !.p = my[t].p, !.mode = my[t].mode, !.todo = my[t].todo, !.f = g]]
  BY ZenonT(40) DEF FoundAfterAll
<1>4. g \in Residents(Here(t)) /\ cb[g].pid = my[t].p /\ g \in Frame /\ InTable(g)
  BY <1>2, <1>3, ResidentOK DEF Get
<1>5. g # my[t].f
  BY <1>1, <1>4, Parts DEF Owned
<1>. QED
  BY <1>1, <1>2, <1>3, <1>4, <1>5, ZenonT(40) DEF FoundAfterAll, StepTo

\* The locals of who has found his page in grab after all.
LEMMA FoundLocals ==
  ASSUME IInv, NEW t \in Thread, FoundAfterAll(t)
  PROVE  /\ my'[t].p = my[t].p /\ my'[t].mode = my[t].mode /\ my'[t].f \in Frame /\ my'[t].f # my[t].f
         /\ my'[t].f \in Residents(Here(t)) /\ cb[my'[t].f].pid = my[t].p /\ InTable(my'[t].f)
         /\ cb' = [cb EXCEPT ![my[t].f].held[t] = "NL", ![my[t].f].pin = @ - 1, ![my'[t].f].pin = @ + 1]
         /\ my'[t].first = TRUE /\ my'[t].same = 0 /\ my'[t].copy = 0 /\ my'[t].i = 1
<1>1. PICK g \in Residents(Here(t)) :
              /\ cb[g].pid = my[t].p /\ g \in Frame /\ InTable(g) /\ g # my[t].f
              /\ my' = [my EXCEPT ![t] = [NoLocals EXCEPT !.p = my[t].p, !.mode = my[t].mode, !.todo = my[t].todo, !.f = g]]
              /\ cb' = [cb EXCEPT ![my[t].f].held[t] = "NL", ![my[t].f].pin = @ - 1, ![g].pin = @ + 1]
  BY FoundForms, ZenonT(40)
<1>2. my'[t] = [NoLocals EXCEPT !.p = my[t].p, !.mode = my[t].mode, !.todo = my[t].todo, !.f = g]
  BY <1>1, Parts DEF TypeOK
<1>3. /\ my'[t].p = my[t].p /\ my'[t].mode = my[t].mode /\ my'[t].f = g
      /\ my'[t].first = TRUE /\ my'[t].same = 0 /\ my'[t].copy = 0 /\ my'[t].i = 1
  BY <1>2 DEF NoLocals
<1>. QED
  BY <1>1, <1>3, ZenonT(40)

\* The second bucket of the second round settles it.

\* One look at a bucket in grab: on to the second bucket, another round, or the page is taken for
\* missing.
LEMMA NotHereForms ==
  ASSUME IInv, NEW t \in Thread, NotHere(t)
  PROVE  /\ place[t] = "look" /\ ~Has(Here(t), my[t].p) /\ my[t].p \in Page /\ Here(t) \in Bucket /\ my[t].f \in Frame
         /\ UNCHANGED <<table, unused, locks, store>>
         /\ \/ /\ my[t].i = 1 /\ my'[t].i = 2 /\ my'[t].first = my[t].first
               /\ my[t].first => my'[t].same = my[t].same
               /\ cb' = cb /\ place' = place
            \/ /\ my[t].i = 2 /\ my'[t].i = 1 /\ my'[t].first = FALSE
               /\ cb' = cb /\ place' = place
            \/ /\ my[t].i = 2 /\ ~my[t].first /\ my'[t].i = 1 /\ my'[t].first = TRUE /\ my'[t].same = 0
               /\ cb' = [cb EXCEPT ![my[t].f].pid = my[t].p] /\ place' = [place EXCEPT ![t] = "insert"]
<1>. my \in [Thread -> Locals] /\ my[t] \in Locals /\ LocalsOK(t)
  BY Parts DEF TypeOK
<1>. DEFINE i     == my[t].i
            count == table[Here(t)].count
            same  == IF my[t].first \/ my[t].residents[i] # count THEN my[t].same ELSE my[t].same + 1
            seen  == [my[t] EXCEPT !.residents[i] = count, !.same = same, !.i = 3 - i]
<1>1. /\ place[t] = "look" /\ Get(Here(t), my[t].p) = {}
      /\ IF i = 1
           THEN my' = [my EXCEPT ![t] = seen] /\ UNCHANGED <<cb, place>>
         ELSE IF Settled(same)
           THEN /\ my' = [my EXCEPT ![t].i = 1, ![t].first = TRUE, ![t].residents = <<0, 0>>, ![t].same = 0]
                /\ cb' = [cb EXCEPT ![my[t].f].pid = my[t].p]
                /\ place' = [place EXCEPT ![t] = "insert"]
           ELSE /\ my' = [my EXCEPT ![t] = [seen EXCEPT !.first = FALSE, !.same = 0]]
                /\ UNCHANGED <<cb, place>>
      /\ UNCHANGED <<table, unused, locks, store>>
  BY Zenon DEF NotHere, StepTo
<1>2. my[t].p \in Page /\ my[t].f \in Frame /\ i \in {1, 2}
  BY <1>1 DEF LocalsOK, Owning, Looking, Locals
<1>3. Here(t) \in Bucket
  BY <1>2, HashInBucket DEF Here
<1>4. seen.i = 3 - i /\ seen.first = my[t].first /\ seen.same = same
  <2>. HIDE DEF same, count
  <2>. QED
    BY DEF Locals
<1>5. my[t].first => same = my[t].same /\ ~Settled(same)
  BY DEF LocalsOK, Settled
<1>6. [seen EXCEPT !.first = FALSE, !.same = 0].i = 3 - i /\ [seen EXCEPT !.first = FALSE, !.same = 0].first = FALSE
  <2>1. DOMAIN seen = DOMAIN my[t]
    OBVIOUS
  <2>. HIDE DEF same, count
  <2>. QED
    BY <1>4 DEF Locals
<1>7. /\ [my[t] EXCEPT !.i = 1, !.first = TRUE, !.residents = <<0, 0>>, !.same = 0].i = 1
      /\ [my[t] EXCEPT !.i = 1, !.first = TRUE, !.residents = <<0, 0>>, !.same = 0].first = TRUE
      /\ [my[t] EXCEPT !.i = 1, !.first = TRUE, !.residents = <<0, 0>>, !.same = 0].same = 0
  BY DEF Locals
<1>. HIDE DEF seen, same
<1>8. CASE i = 1
  BY <1>1, <1>2, <1>3, <1>4, <1>5, <1>8 DEF Has
<1>9. CASE i = 2 /\ Settled(same)
  <2>1. /\ my' = [my EXCEPT ![t].i = 1, ![t].first = TRUE, ![t].residents = <<0, 0>>, ![t].same = 0]
        /\ cb' = [cb EXCEPT ![my[t].f].pid = my[t].p] /\ place' = [place EXCEPT ![t] = "insert"]
    BY <1>1, <1>9
  <2>2. my'[t] = [my[t] EXCEPT !.i = 1, !.first = TRUE, !.residents = <<0, 0>>, !.same = 0]
    BY <2>1
  <2>3. my'[t].i = 1 /\ my'[t].first = TRUE /\ my'[t].same = 0
    BY <2>2, <1>7
  <2>. QED
    BY <1>1, <1>2, <1>3, <1>5, <1>9, <2>1, <2>3 DEF Has, Locals
<1>10. CASE i = 2 /\ ~Settled(same)
  <2>1. my' = [my EXCEPT ![t] = [seen EXCEPT !.first = FALSE, !.same = 0]] /\ UNCHANGED <<cb, place>>
    BY <1>1, <1>10
  <2>2. my'[t] = [seen EXCEPT !.first = FALSE, !.same = 0]
    BY <2>1
  <2>3. my'[t].i = 1 /\ my'[t].first = FALSE
    BY <2>2, <1>6, <1>10
  <2>. QED
    BY <1>1, <1>2, <1>3, <1>10, <2>1, <2>3 DEF Has
<1>. QED
  BY <1>2, <1>8, <1>9, <1>10

\* Who returns forgets all but how many calls he may still make.
LEMMA Returns ==
  ASSUME TypeOK, NEW t \in Thread, Step(t), place'[t] = "out"
  PROVE  Returned(t)
<1>. place \in [Thread -> Steps] /\ my \in [Thread -> Locals]
  BY DEF TypeOK
<1>1. NextBucket(t) \/ LatchFails(t) \/ NoFrame(t) \/ Unlatch(t) \/ WriteOut(t)
  BY Goes DEF From
<1>. QED
  BY <1>1 DEF NextBucket, LatchFails, NoFrame, Unlatch, WriteOut, ReturnFrom, StepTo, Returned

\* The locals stay good for what the place needs them for.
LEMMA LocalsKept ==
  ASSUME IInv, ~Overtaken, PoolConstants, NEW t \in Thread, Step(t), NEW u \in Thread
  PROVE  LocalsOK(u)'
<1>. TypeOK /\ LocalsOK(u) /\ my \in [Thread -> Locals] /\ place \in [Thread -> Steps] /\ my[t] \in Locals
  BY Parts DEF TypeOK
<1>1. CASE u # t
  BY <1>1, OthersStay DEF LocalsOK, Cleans
<1>2. CASE u = t
  <2>. LocalsOK(t) /\ my[t].copy \in Nat
    BY <1>2 DEF Locals
  <2>0. /\ Fix(t) => my'[t].p \in Page /\ my'[t].mode \in {"SH", "EX", "clean"}
    <3>1. ASSUME Fix(t) PROVE my'[t].p \in Page /\ my'[t].mode \in {"SH", "EX", "clean"}
      <4>1. PICK call \in Calls :
              my' = [my EXCEPT ![t].p = call[1], ![t].mode = call[2], ![t].todo = @ - 1]
        BY <3>1, Zenon DEF Fix, TypeOK
      <4>2. my'[t] = [my[t] EXCEPT !.p = call[1], !.mode = call[2], !.todo = @ - 1]
        BY <4>1
      <4>. QED
        BY <4>1, <4>2 DEF Calls, Locals
    <3>. QED
      BY <3>1
  <2>1. \/ my'[t].p = my[t].p /\ my'[t].mode = my[t].mode
        \/ Fix(t) /\ my'[t].p \in Page /\ my'[t].mode \in {"SH", "EX", "clean"}
        \/ Returned(t)
    BY <2>0, LocalsStay DEF Same
  <2>2. place'[t] # "out" => my'[t].p \in Page /\ my'[t].mode # "NL"
    BY <2>0, <2>1, Goes DEF From, LocalsOK, Returned
  <2>3. place'[t] \in Owning \union Using \union {"probe", "evict"} => my'[t].f \in Frame
    <3>1. CASE ReadSlot(t)
      <4>1. my[t].p \in Page /\ my[t].s \in Slots(Here(t)) /\ Here(t) \in Bucket
        <5>1. my[t].p \in Page /\ my[t].s <= table[Here(t)].count /\ my[t].i \in {1, 2} /\ my[t].s \in Nat \ {0}
          BY <3>1 DEF ReadSlot, LocalsOK, Locals
        <5>2. Here(t) \in Bucket
          BY <5>1, HashInBucket DEF Here
        <5>3. table[Here(t)].count \in Nat
          BY <5>2, SlotTyped
        <5>. QED
          BY <5>1, <5>2, <5>3 DEF Slots
      <4>2. my'[t] = [my[t] EXCEPT !.f = table[Here(t)].slot[my[t].s]]
        BY <3>1 DEF ReadSlot
      <4>3. table[Here(t)].slot[my[t].s] \in Frame
        BY <4>1, SlotOK, ResidentOK
      <4>. QED
        BY <4>2, <4>3 DEF Locals
    <3>2. CASE Probe(t)
      <4>1. my[t].f \in Frame /\ table[Here(t)].slot[my[t].s] \in Frame
        BY <3>2, Parts DEF Probe, LocalsOK, Probed
      <4>2. PICK g \in Frame : my' = [my EXCEPT ![t].f = g] \/ my' = [my EXCEPT ![t].s = @ + 1]
        BY <3>2, <4>1 DEF Probe, Pin, NextSlot, Found
      <4>3. my'[t] = [my[t] EXCEPT !.f = g] \/ my'[t] = [my[t] EXCEPT !.s = @ + 1]
        BY <4>2
      <4>. QED
        BY <4>1, <4>3 DEF Locals
    <3>3. CASE TakeFree(t)
      <4>1. PICK g \in Frame : my' = [my EXCEPT ![t].f = g]
        BY <3>3 DEF TakeFree, TypeOK
      <4>2. my'[t] = [my[t] EXCEPT !.f = g]
        BY <4>1
      <4>. QED
        BY <4>2 DEF Locals
    <3>4. CASE Choose(t)
      <4>1. PICK g \in Frame, c \in Bucket : my' = [my EXCEPT ![t].f = g, ![t].b = c, ![t].victim = cb[g].pid]
        BY <3>4, Zenon DEF Choose
      <4>2. my'[t] = [my[t] EXCEPT !.f = g, !.b = c, !.victim = cb[g].pid]
        BY <4>1
      <4>. QED
        BY <4>2 DEF Locals
    <3>5. CASE FoundAfterAll(t)
      BY <3>5, FoundLocals
    <3>6. CASE my'[t].f = my[t].f
      BY <3>6, <3>1, <3>2, <3>3, <3>4, <3>5, Goes DEF From, LocalsOK, Owning, Emptying, Looking, Using, Reading
    <3>7. CASE Returned(t)
      BY <3>7 DEF Returned, Owning, Emptying, Looking, Using, Reading
    <3>. QED
      BY <3>1, <3>2, <3>3, <3>4, <3>5, <3>6, <3>7, LocalsStay DEF Same
  <2>4. place'[t] = "evict" => my'[t].b \in Bucket /\ my'[t].victim \in Page
    <3>1. CASE Choose(t)
      <4>1. PICK g \in Frame, c \in Bucket : g \in Residents(c) /\ my' = [my EXCEPT ![t].f = g, ![t].b = c, ![t].victim = cb[g].pid]
        BY <3>1, Zenon DEF Choose
      <4>2. my'[t] = [my[t] EXCEPT !.f = g, !.b = c, !.victim = cb[g].pid]
        BY <4>1
      <4>3. cb[g].pid \in Page
        BY <4>1, ResidentOK
      <4>. QED
        BY <4>2, <4>3 DEF Locals
    <3>. QED
      BY <3>1, Goes DEF From
  <2>5. (my'[t].first => my'[t].same = 0) /\ (place'[t] # "look" => my'[t].first)
    <3>1. CASE NotHere(t)
      BY <3>1, NotHereForms DEF LocalsOK
    <3>2. CASE FoundAfterAll(t)
      BY <3>2, FoundLocals
    <3>3. CASE Returned(t)
      BY <3>3 DEF Returned, NoLocals
    <3>. QED
      BY <3>1, <3>2, <3>3, LocalsStay, Goes DEF From, Same, LocalsOK
  <2>6. place'[t] = "transit" => my'[t].i = 1
    <3>1. Grab(t) => my'[t].i = 1
      <4>1. Grab(t) => my'[t] = [my[t] EXCEPT !.i = 1, !.s = 1]
        BY DEF Grab
      <4>. QED
        BY <4>1 DEF Locals
    <3>. QED
      BY <3>1, Goes DEF From
  <2>10. place'[t] = "out" => Returned(t)
    BY Returns
  <2>7. (my'[t].mode = "clean") => place'[t] \in {"search", "probe", "latch", "clean", "lock", "copy", "unfix", "unlatch", "flush"}
    BY <2>1, <2>10, Goes, Leads DEF From, LocalsOK, Cleans, Returned, NoLocals
  <2>8. /\ place'[t] \in {"clean", "lock", "copy", "flush"} => my'[t].mode = "clean"
        /\ place'[t] = "fixed" => my'[t].mode # "clean"
    BY <2>1, <2>10, Goes, Leads DEF From, LocalsOK, Cleans, Returned, NoLocals
  <2>9. /\ my'[t].copy > 0 => place'[t] \in {"unfix", "unlatch", "flush"} /\ my'[t].mode = "clean"
        /\ place'[t] = "flush" => my'[t].copy > 0
    <3>1. CASE Copy(t)
      <4>1. place[t] = "copy" /\ place'[t] = "unfix" /\ my[t].mode = "clean"
        BY <3>1, Leads DEF From, LocalsOK, Cleans
      <4>2. my'[t].mode = my[t].mode
        BY <3>1, <4>1, <2>1, Leads DEF From, Returned
      <4>. QED
        BY <4>1, <4>2
    <3>2. CASE FoundAfterAll(t)
      <4>1. my'[t].copy = 0
        BY <3>2, FoundLocals
      <4>2. place'[t] = "latch"
        BY <3>2, Leads DEF From
      <4>. QED
        BY <4>1, <4>2
    <3>3. CASE Returned(t)
      BY <3>3 DEF Returned, NoLocals
    <3>4. CASE my'[t].copy = my[t].copy /\ ~Returned(t)
      <4>1. my[t].copy > 0 => place[t] \in {"unfix", "unlatch", "flush"} /\ my[t].mode = "clean"
        BY DEF LocalsOK, Cleans
      <4>2. place[t] \in {"unfix", "unlatch", "flush"} => place'[t] \in {"unlatch", "flush", "out"}
        BY Goes DEF From
      <4>3. place'[t] = "flush" => my[t].copy > 0
        BY Goes DEF From
      <4>4. my[t].copy > 0 => my'[t].mode = my[t].mode
        BY <4>1, <2>1, <3>4, Leads DEF From
      <4>. QED
        BY <3>4, <2>10, <4>1, <4>2, <4>3, <4>4
    <3>. QED
      BY <3>1, <3>2, <3>3, <3>4, LocalsStay DEF Same
  <2>. QED
    BY <1>2, <2>2, <2>3, <2>4, <2>5, <2>6, <2>7, <2>8, <2>9 DEF LocalsOK, Cleans
<1>. QED
  BY <1>1, <1>2
-----------------------------------------------------------------------------
(***************************************************************************)
(* Latches.                                                                *)
(***************************************************************************)
\* A thread with a frame in a place where it has it latched does have a latch.
LEMMA HasLatch ==
  ASSUME IInv, NEW t \in Thread, NEW f \in Frame, my[t].f = f
  PROVE  /\ cb[f].held[t] = LatchOf(t)
         /\ place[t] \in Owning \union {"read"} => LatchOf(t) = "EX"
         /\ place[t] \in Reading \union {"unlatch"} => LatchOf(t) \in {"SH", "EX"}
<1>1. cb[f].held[t] = LatchOf(t)
  BY DEF IInv, Latched
<1>2. place[t] \in Reading \union {"unlatch"} => LatchOf(t) \in {"SH", "EX"}
  <2>1. place[t] \in Reading \union {"unlatch"} => place[t] # "out" /\ place[t] \notin Owning \union {"read"}
    BY DEF Reading, Owning, Emptying, Looking
  <2>2. place[t] # "out" => my[t].mode \in {"SH", "EX", "clean"}
    BY Parts DEF LocalsOK, Locals, Modes
  <2>. QED
    BY <2>1, <2>2 DEF LatchOf, Mode, Cleans
<1>. QED
  BY <1>1, <1>2 DEF LatchOf

\* Who owns a frame or reads its page in has it alone.
LEMMA Alone ==
  ASSUME IInv, NEW t \in Thread, NEW u \in Thread, t # u, place[u] \in Owning \union {"read"}, my[t].f = my[u].f
  PROVE  place[t] \notin Owning \union Reading \union {"read", "unlatch"}
<1>1. my[u].f \in Frame
  BY Parts DEF LocalsOK, Using
<1>2. cb[my[u].f].held[t] = "NL"
  BY <1>1, HasLatch DEF IInv, Excluded
<1>. QED
  BY <1>1, <1>2, HasLatch

\* A frame that somebody owns is nobody else's.
LEMMA OwnedAlone ==
  ASSUME IInv, NEW t \in Thread, NEW u \in Thread, t # u, place[u] \in Owning, my[t].f = my[u].f
  PROVE  place[t] \notin Owning \union Using
<1>1. ~InTable(my[u].f)
  BY Parts DEF Owned
<1>. QED
  BY <1>1, Alone, Parts DEF Used

\* Neither is a free frame anybody's,
LEMMA FreeAlone ==
  ASSUME IInv, NEW t \in Thread, NEW f \in unused, my[t].f = f
  PROVE  place[t] \notin Owning \union Using
<1>1. ~InTable(f)
  BY DEF IInv, Unused
<1>. QED
  BY <1>1, Parts DEF Used, Owned

\* nor is it latched.
LEMMA FreeUnlatched ==
  ASSUME IInv, NEW f \in unused
  PROVE  f \in Frame /\ Nobody(f)
<1>1. f \in Frame
  BY Parts DEF IInv, TypeOK
<1>2. ASSUME NEW t \in Thread, my[t].f = f PROVE LatchOf(t) = "NL"
  BY <1>2, FreeAlone DEF LatchOf, Using
<1>. QED
  BY <1>1, <1>2 DEF IInv, Latched, Nobody

\* The latch that a thread should have depends on its own steps only.
LEMMA LatchOfSame ==
  ASSUME IInv, NEW t \in Thread, Step(t), NEW u \in Thread, u # t
  PROVE  LatchOf(u)' = LatchOf(u)
<1>. TypeOK
  BY Parts
<1>. QED
  BY OthersStay DEF LatchOf, Mode, Cleans

\* The mode of a call, and its page, stay until it returns.
LEMMA ModeStays ==
  ASSUME IInv, NEW t \in Thread, Step(t), ~Fix(t), place'[t] # "out"
  PROVE  my'[t].mode = my[t].mode /\ my'[t].p = my[t].p /\ Mode(t)' = Mode(t) /\ (Cleans(t)' <=> Cleans(t))
<1>1. my'[t].mode = my[t].mode /\ my'[t].p = my[t].p
  BY Parts, LocalsStay DEF Same, Returned
<1>. QED
  BY <1>1 DEF Mode, Cleans

\* The latches stay those that the threads should have.
LEMMA LatchedKept ==
  ASSUME IInv, ~Overtaken, PoolConstants, NEW t \in Thread, Step(t)
  PROVE  Latched'
<1>. /\ TypeOK /\ LocalsOK(t) /\ Latched /\ cb \in [Frame -> Block]
     /\ \A f \in Frame : cb[f] \in Block /\ cb[f].held \in [Thread -> Modes]
     /\ my \in [Thread -> Locals]
  BY Parts DEF TypeOK, Block, IInv
<1>. SUFFICES ASSUME NEW f \in Frame, NEW u \in Thread
              PROVE  cb'[f].held[u] = IF my'[u].f = f THEN LatchOf(u)' ELSE "NL"
  BY DEF Latched
<1>0. cb[f].held[u] = IF my[u].f = f THEN LatchOf(u) ELSE "NL"
  BY DEF Latched
<1>1. CASE u # t
  BY <1>0, <1>1, OthersStay, HeldStays, LatchOfSame
<1>2. CASE u = t
  <2>. DEFINE quiet == {"out", "search", "probe", "latch", "take", "clock", "evict", "flush"}
  <2>0. /\ place[t] \in quiet => LatchOf(t) = "NL"
        /\ place'[t] \in quiet => LatchOf(t)' = "NL"
        /\ place'[t] \in Owning \union {"read"} => LatchOf(t)' = "EX"
        /\ place'[t] \in Reading \union {"unlatch"} => LatchOf(t)' = Mode(t)'
    BY DEF LatchOf, Owning, Emptying, Looking, Reading
  <2>1. CASE Latch(t)
    <3>1. my[t].f \in Frame /\ cb' = [cb EXCEPT ![my[t].f].held[t] = Mode(t), ![my[t].f].pid = IF ~Cleans(t) THEN my[t].p ELSE @]
      BY <2>1 DEF Latch, LocalsOK, Using
    <3>2. my' = my /\ place'[t] \in Reading /\ place[t] \in quiet
      BY <2>1, Leads DEF Latch, From, Reading
    <3>3. cb'[f].held[t] = IF my[t].f = f THEN Mode(t) ELSE cb[f].held[t]
      BY <3>1 DEF Block
    <3>4. LatchOf(t)' = Mode(t)
      BY <3>2, <2>0 DEF Mode, Cleans
    <3>. QED
      BY <1>0, <1>2, <2>0, <3>2, <3>3, <3>4
  <2>2. CASE TakeFree(t)
    <3>1. PICK g \in unused :
            /\ cb' = [cb EXCEPT ![g].pin = 0, ![g].old = NoOne, ![g].dirty = FALSE, ![g].held[t] = "EX"]
            /\ my' = [my EXCEPT ![t].f = g]
      BY <2>2, Zenon DEF TakeFree
    <3>2. cb'[f].held[t] = IF g = f THEN "EX" ELSE cb[f].held[t]
      BY <3>1 DEF Block
    <3>3. my'[t].f = g
      BY <3>1 DEF Locals
    <3>4. place[t] \in quiet /\ place'[t] \in Owning
      BY <2>2, Leads DEF From, Owning
    <3>. QED
      BY <1>0, <1>2, <2>0, <3>2, <3>3, <3>4
  <2>3. CASE Evict(t)
    <3>0. my'[t].f = my[t].f
      BY <2>3 DEF Evict, Locals
    <3>1. CASE cb' = cb /\ place'[t] = "clock"
      BY <1>0, <1>2, <2>0, <2>3, <3>0, <3>1, Leads DEF From
    <3>2. CASE cb' = [cb EXCEPT ![my[t].f].held[t] = "EX", ![my[t].f].old = my[t].victim] /\ place'[t] = "evicted"
      <4>1. cb'[f].held[t] = IF my[t].f = f THEN "EX" ELSE cb[f].held[t]
        BY <3>2 DEF Block
      <4>2. place[t] \in quiet /\ place'[t] \in Owning
        BY <3>2, <2>3, Leads DEF From, Owning, Emptying
      <4>. QED
        BY <1>0, <1>2, <2>0, <3>0, <4>1, <4>2
    <3>3. \/ cb' = cb /\ place' = [place EXCEPT ![t] = "clock"]
          \/ cb' = [cb EXCEPT ![my[t].f].held[t] = "EX", ![my[t].f].old = my[t].victim] /\ place' = [place EXCEPT ![t] = "evicted"]
      BY <2>3, EvictForms
    <3>4. place \in [Thread -> Steps]
      BY DEF TypeOK
    <3>. QED
      BY <3>1, <3>2, <3>3, <3>4
  <2>4. CASE FoundAfterAll(t)
    <3>1. /\ my'[t].f # my[t].f
          /\ cb' = [cb EXCEPT ![my[t].f].held[t] = "NL", ![my[t].f].pin = @ - 1, ![my'[t].f].pin = @ + 1]
      BY <2>4, FoundLocals
    <3>2. cb'[f].held[t] = IF my[t].f = f THEN "NL" ELSE cb[f].held[t]
      BY <3>1 DEF Block
    <3>3. place'[t] \in quiet
      BY <2>4, Leads DEF From
    <3>. QED
      BY <1>0, <1>2, <2>0, <3>1, <3>2, <3>3
  <2>5. CASE Read(t)
    <3>1. my[t].f \in Frame /\ my' = my /\ ~Cleans(t)
          /\ cb' = [cb EXCEPT ![my[t].f].page = my[t].p, ![my[t].f].ver = disk[my[t].p], ![my[t].f].held[t] = my[t].mode]
      BY <2>5 DEF Read, LocalsOK, Using
    <3>2. cb'[f].held[t] = IF my[t].f = f THEN my[t].mode ELSE cb[f].held[t]
      BY <3>1 DEF Block
    <3>3. place'[t] \in Reading /\ Mode(t)' = my[t].mode
      BY <2>5, <3>1, Leads DEF From, Reading, Mode, Cleans
    <3>. QED
      BY <1>0, <1>2, <2>0, <3>1, <3>2, <3>3
  <2>6. CASE Unlatch(t)
    <3>1. cb' = [cb EXCEPT ![my[t].f].held[t] = "NL"]
      BY <2>6 DEF Unlatch
    <3>2. cb'[f].held[t] = IF my[t].f = f THEN "NL" ELSE cb[f].held[t]
      BY <3>1 DEF Block
    <3>3. place'[t] \in quiet
      BY <2>6, Leads DEF From
    <3>. QED
      BY <1>0, <1>2, <2>0, <3>2, <3>3
  <2>7. CASE ~(Latch(t) \/ TakeFree(t) \/ Evict(t) \/ FoundAfterAll(t) \/ Read(t) \/ Unlatch(t))
    <3>1. cb'[f].held[t] = cb[f].held[t]
      BY <2>7, HeldStays
    <3>2. \/ place[t] \in quiet /\ place'[t] \in quiet
          \/ place[t] \in Owning /\ place'[t] \in Owning \union {"read"}
          \/ place[t] \in Reading /\ place'[t] \in Reading \union {"unlatch"}
      BY <2>7, Goes DEF From, Reading, Owning, Emptying, Looking
    <3>3. CASE place[t] \in quiet /\ place'[t] \in quiet
      BY <1>0, <1>2, <2>0, <3>1, <3>3
    <3>4. CASE ~(place[t] \in quiet /\ place'[t] \in quiet)
      <4>1. place[t] \notin quiet /\ place'[t] # "out"
        BY <3>2, <3>4 DEF Reading, Owning, Emptying, Looking
      <4>2. my'[t].f = my[t].f /\ ~Fix(t)
        BY <2>7, <4>1, Leads, LocalsStay DEF From, Same, Returned
      <4>3. Mode(t)' = Mode(t)
        BY <4>1, <4>2, ModeStays
      <4>4. LatchOf(t)' = LatchOf(t)
        BY <2>0, <3>2, <4>1, <4>3 DEF LatchOf, Reading, Owning, Emptying, Looking
      <4>. QED
        BY <1>0, <1>2, <3>1, <4>2, <4>4
    <3>. QED
      BY <3>3, <3>4
  <2>. QED
    BY <2>1, <2>2, <2>3, <2>4, <2>5, <2>6, <2>7
<1>. QED
  BY <1>1, <1>2
-----------------------------------------------------------------------------
\* Who has an EX latch has the only one.
LEMMA ExcludedKept ==
  ASSUME IInv, ~Overtaken, NEW t \in Thread, Step(t)
  PROVE  Excluded'
<1>. /\ TypeOK /\ LocalsOK(t) /\ cb \in [Frame -> Block]
     /\ \A f \in Frame : cb[f] \in Block /\ cb[f].held \in [Thread -> Modes]
  BY Parts DEF TypeOK, Block
<1>. SUFFICES ASSUME NEW f \in Frame, NEW u \in Thread, NEW w \in Thread, u # w, cb'[f].held[u] = "EX"
              PROVE  cb'[f].held[w] = "NL"
  BY DEF Excluded
<1>0. \A x, y \in Thread : x # y /\ cb[f].held[x] = "EX" => cb[f].held[y] = "NL"
  BY DEF IInv, Excluded
<1>1. \A x \in Thread \ {t} : cb'[f].held[x] = cb[f].held[x]
  BY HeldStays
<1>2. CASE cb'[f].held[t] = cb[f].held[t] \/ cb'[f].held[t] = "NL"
  BY <1>0, <1>1, <1>2
<1>3. CASE \A x \in Thread \ {t} : cb[f].held[x] = "NL"
  BY <1>1, <1>3
<1>4. CASE Latch(t)
  <2>1. my[t].f \in Frame /\ cb' = [cb EXCEPT ![my[t].f].held[t] = Mode(t), ![my[t].f].pid = IF ~Cleans(t) THEN my[t].p ELSE @]
        /\ Compatible(my[t].f, t, Mode(t))
    BY <1>4 DEF Latch, LocalsOK, Using
  <2>2. cb'[f].held[t] = IF my[t].f = f THEN Mode(t) ELSE cb[f].held[t]
    BY <2>1 DEF Block
  <2>3. CASE my[t].f = f
    <3>1. \A x \in Thread \ {t} : cb[f].held[x] = "NL" \/ (cb[f].held[x] = "SH" /\ cb'[f].held[t] = "SH")
      BY <2>1, <2>2, <2>3 DEF Compatible
    <3>. QED
      BY <3>1, <1>1, <1>0
  <2>. QED
    BY <2>2, <2>3, <1>2
<1>5. CASE TakeFree(t)
  <2>1. PICK g \in unused :
          cb' = [cb EXCEPT ![g].pin = 0, ![g].old = NoOne, ![g].dirty = FALSE, ![g].held[t] = "EX"]
    BY <1>5, Zenon DEF TakeFree
  <2>2. CASE f = g
    BY <2>1, <2>2, FreeUnlatched, <1>3 DEF Nobody
  <2>3. CASE f # g
    <3>1. cb'[f].held[t] = cb[f].held[t]
      BY <2>1, <2>3
    <3>. QED
      BY <3>1, <1>2
  <2>. QED
    BY <2>2, <2>3
<1>6. CASE Evict(t)
  <2>1. cb' = cb \/ (Nobody(my[t].f) /\ cb' = [cb EXCEPT ![my[t].f].held[t] = "EX", ![my[t].f].old = my[t].victim])
    BY <1>6, EvictForms
  <2>2. CASE Nobody(my[t].f) /\ f = my[t].f
    BY <2>2, <1>3 DEF Nobody
  <2>3. CASE cb' = cb \/ (f # my[t].f /\ cb' = [cb EXCEPT ![my[t].f].held[t] = "EX", ![my[t].f].old = my[t].victim])
    <3>1. cb'[f].held[t] = cb[f].held[t]
      BY <2>3
    <3>. QED
      BY <3>1, <1>2
  <2>. QED
    BY <2>1, <2>2, <2>3
<1>7. CASE FoundAfterAll(t)
  <2>1. /\ my'[t].f # my[t].f
        /\ cb' = [cb EXCEPT ![my[t].f].held[t] = "NL", ![my[t].f].pin = @ - 1, ![my'[t].f].pin = @ + 1]
    BY <1>7, FoundLocals, ZenonT(40)
  <2>2. cb'[f].held[t] = IF my[t].f = f THEN "NL" ELSE cb[f].held[t]
    BY <2>1, ZenonT(40) DEF Block
  <2>. QED
    BY <2>2, <1>2
<1>8. CASE Read(t)
  <2>1. my[t].f \in Frame /\ place[t] = "read"
        /\ cb' = [cb EXCEPT ![my[t].f].page = my[t].p, ![my[t].f].ver = disk[my[t].p], ![my[t].f].held[t] = my[t].mode]
    BY <1>8 DEF Read, LocalsOK, Using
  <2>2. cb'[f].held[t] = IF my[t].f = f THEN my[t].mode ELSE cb[f].held[t]
    BY <2>1 DEF Block
  <2>3. CASE my[t].f = f
    <3>1. cb[f].held[t] = "EX"
      BY <2>1, <2>3, HasLatch
    <3>. QED
      BY <3>1, <1>0, <1>3
  <2>. QED
    BY <2>2, <2>3, <1>2
<1>9. CASE Unlatch(t)
  <2>1. cb' = [cb EXCEPT ![my[t].f].held[t] = "NL"]
    BY <1>9 DEF Unlatch
  <2>2. cb'[f].held[t] = IF my[t].f = f THEN "NL" ELSE cb[f].held[t]
    BY <2>1 DEF Block
  <2>. QED
    BY <2>2, <1>2
<1>. QED
  BY <1>2, <1>4, <1>5, <1>6, <1>7, <1>8, <1>9, HeldStays
-----------------------------------------------------------------------------
(***************************************************************************)
(* Pins.                                                                   *)
(***************************************************************************)
\* Those who have a frame pinned are finitely many.
LEMMA PinnersFinite ==
  ASSUME PoolConstants, NEW f
  PROVE  IsFiniteSet(Pinners(f)) /\ Cardinality(Pinners(f)) \in Nat
<1>1. Pinners(f) \in SUBSET Thread
  BY DEF Pinners
<1>. QED
  BY <1>1, FS_Subset, FS_CardinalityType DEF PoolConstants

\* One more has it pinned,
LEMMA PinUp ==
  ASSUME PoolConstants, NEW f, NEW t \in Thread, NEW S, S = Pinners(f) \union {t}, t \notin Pinners(f)
  PROVE  Cardinality(S) = Cardinality(Pinners(f)) + 1
  BY PinnersFinite, FS_AddElement

\* or one less.
LEMMA PinDown ==
  ASSUME PoolConstants, NEW f, NEW t \in Thread, NEW S, S = Pinners(f) \ {t}, t \in Pinners(f)
  PROVE  Cardinality(S) = Cardinality(Pinners(f)) - 1
  BY PinnersFinite, FS_RemoveElement

\* Who has pinned a frame keeps its count from being zero.
LEMMA PinCounts ==
  ASSUME IInv, PoolConstants, NEW t \in Thread, place[t] \in Pinning
  PROVE  my[t].f \in Frame /\ cb[my[t].f].pin > 0
<1>1. my[t].f \in Frame
  BY Parts DEF LocalsOK, Pinning, Owning, Using, Looking, Reading
<1>2. t \in Pinners(my[t].f)
  BY DEF Pinners
<1>3. Cardinality(Pinners(my[t].f)) # 0
  BY <1>2, PinnersFinite, FS_EmptySet
<1>4. cb[my[t].f].pin = Cardinality(Pinners(my[t].f))
  BY <1>1 DEF IInv, PinsCounted
<1>. QED
  BY <1>1, <1>3, <1>4, PinnersFinite
-----------------------------------------------------------------------------
\* A probe pins a frame of the table that has the page, or goes on to the next slot.
LEMMA ProbeForms ==
  ASSUME IInv, NEW t \in Thread, Probe(t)
  PROVE  /\ place[t] = "probe" /\ UNCHANGED <<table, unused, locks, store>>
         /\ \/ cb' = cb /\ my'[t].f = my[t].f /\ place'[t] = "search"
            \/ /\ my'[t].f \in Frame /\ InTable(my'[t].f) /\ cb[my'[t].f].pid = my[t].p
               /\ cb' = [cb EXCEPT ![my'[t].f].pin = @ + 1] /\ place'[t] = "latch"
<1>. my \in [Thread -> Locals] /\ place \in [Thread -> Steps]
  BY Parts DEF TypeOK
<1>. DEFINE g == table[Here(t)].slot[my[t].s]
<1>1. place[t] = "probe" /\ UNCHANGED <<table, unused, locks, store>> /\ Pin(t, my[t].f)
  BY DEF Probe
<1>2. my[t].f \in Frame /\ g \in Frame /\ InTable(my[t].f) /\ InTable(g)
  BY <1>1, Parts DEF LocalsOK, Probed
<1>3. \A h : Found(t, h) => my'[t].f = h /\ place'[t] = "latch"
  BY DEF Found, StepTo, Locals
<1>4. NextSlot(t) => cb' = cb /\ my'[t].f = my[t].f /\ place'[t] = "search"
  BY DEF NextSlot, StepTo, Locals
<1>5. \/ cb[my[t].f].pid = my[t].p /\ cb' = Pinned(my[t].f) /\ Found(t, my[t].f)
      \/ cb[g].pid = my[t].p /\ cb' = Pinned(g) /\ Found(t, g)
      \/ NextSlot(t)
  BY <1>1, Zenon DEF Pin
<1>. HIDE DEF g
<1>. QED
  BY <1>1, <1>2, <1>3, <1>4, <1>5 DEF Pinned

\* The pin count stays the number of the threads that have the frame pinned.
LEMMA PinsKept ==
  ASSUME IInv, ~Overtaken, PoolConstants, NEW t \in Thread, Step(t)
  PROVE  PinsCounted'
<1>. /\ TypeOK /\ LocalsOK(t) /\ cb \in [Frame -> Block]
     /\ \A f \in Frame : cb[f] \in Block /\ cb[f].pin \in Int
     /\ my \in [Thread -> Locals] /\ place \in [Thread -> Steps]
  BY Parts DEF TypeOK, Block
<1>. SUFFICES ASSUME NEW f \in Frame
              PROVE  cb'[f].pin = Cardinality(Pinners(f)')
  BY DEF PinsCounted
<1>. DEFINE P == Pinners(f)
            Q == Pinners(f)'
            at  == my[t].f = f /\ place[t] \in Pinning
            at2 == my'[t].f = f /\ place'[t] \in Pinning
<1>0. cb[f].pin = Cardinality(P)
  BY DEF IInv, PinsCounted
<1>1. /\ t \in P <=> at
      /\ t \in Q <=> at2
      /\ \A u \in Thread \ {t} : u \in P <=> u \in Q
      /\ P \subseteq Thread /\ Q \subseteq Thread
  BY OthersStay DEF Pinners
<1>. HIDE DEF P, Q
<1>2. (at <=> at2) => Q = P
  <2>. HIDE DEF at, at2
  <2>. SUFFICES ASSUME at <=> at2 PROVE Q \subseteq P /\ P \subseteq Q
    OBVIOUS
  <2>. QED
    BY <1>1
<1>3. ~at /\ at2 => Q = P \union {t} /\ t \notin P
  BY <1>1
<1>4. at /\ ~at2 => Q = P \ {t} /\ t \in P
  BY <1>1
<1>5. /\ (at <=> at2) => Cardinality(Q) = cb[f].pin
      /\ ~at /\ at2 => Cardinality(Q) = cb[f].pin + 1
      /\ at /\ ~at2 => Cardinality(Q) = cb[f].pin - 1
  BY <1>0, <1>2, <1>3, <1>4, PinUp, PinDown DEF P
<1>. SUFFICES \/ cb'[f].pin = cb[f].pin /\ (at <=> at2)
              \/ cb'[f].pin = cb[f].pin + 1 /\ ~at /\ at2
              \/ cb'[f].pin = cb[f].pin - 1 /\ at /\ ~at2
              \/ TakeFree(t) /\ cb'[f].pin = Cardinality(Q)
  BY <1>5 DEF Q
<1>6. CASE Probe(t)
  <2>1. place[t] = "probe" /\ ~at
    BY <1>6, ProbeForms DEF Pinning, Looking, Reading
  <2>2. CASE cb' = cb /\ place'[t] = "search"
    BY <2>1, <2>2 DEF Pinning, Looking, Reading
  <2>3. CASE my'[t].f \in Frame /\ cb' = [cb EXCEPT ![my'[t].f].pin = @ + 1] /\ place'[t] = "latch"
    <3>1. at2 <=> my'[t].f = f
      BY <2>3 DEF Pinning
    <3>2. cb'[f].pin = IF my'[t].f = f THEN cb[f].pin + 1 ELSE cb[f].pin
      BY <2>3 DEF Block
    <3>. QED
      BY <2>1, <3>1, <3>2
  <2>. QED
    BY <1>6, <2>2, <2>3, ProbeForms
<1>7. CASE LatchFails(t) \/ Unpin(t)
  <2>1. cb' = [cb EXCEPT ![my[t].f].pin = @ - 1] /\ my[t].f \in Frame
    BY <1>7 DEF LatchFails, Unpin, LocalsOK, Using, Reading
  <2>2. place[t] \in Pinning /\ place'[t] \notin Pinning
    BY <1>7, Leads DEF From, Pinning, Looking, Reading
  <2>3. cb'[f].pin = IF my[t].f = f THEN cb[f].pin - 1 ELSE cb[f].pin
    BY <2>1 DEF Block
  <2>. QED
    BY <2>2, <2>3
<1>8. CASE TakeFree(t)
  <2>1. PICK g \in unused :
          /\ cb' = [cb EXCEPT ![g].pin = 0, ![g].old = NoOne, ![g].dirty = FALSE, ![g].held[t] = "EX"]
          /\ my' = [my EXCEPT ![t].f = g]
    BY <1>8, Zenon DEF TakeFree
  <2>2. ~at /\ ~at2
    BY <1>8, Leads DEF From, Pinning, Looking, Reading
  <2>3. CASE f = g
    <3>1. P = {}
      BY <2>1, <2>3, FreeAlone DEF P, Pinners, Pinning, Owning, Using, Looking, Reading
    <3>2. Q = {}
      BY <2>2, <3>1, <1>2
    <3>3. cb'[f].pin = 0
      BY <2>1, <2>3 DEF Block
    <3>. QED
      BY <1>8, <3>2, <3>3, FS_EmptySet
  <2>4. CASE f # g
    <3>1. cb'[f] = cb[f]
      BY <2>1, <2>4
    <3>. QED
      BY <2>2, <3>1
  <2>. QED
    BY <2>3, <2>4
<1>9. CASE Grab(t)
  <2>1. cb' = [cb EXCEPT ![my[t].f].pin = @ + 1] /\ my[t].f \in Frame /\ my'[t].f = my[t].f
    BY <1>9 DEF Grab, Pinned, LocalsOK, Owning, Locals
  <2>2. place[t] \notin Pinning /\ place'[t] \in Pinning
    BY <1>9, Leads DEF From, Pinning, Looking, Reading
  <2>3. cb'[f].pin = IF my[t].f = f THEN cb[f].pin + 1 ELSE cb[f].pin
    BY <2>1 DEF Block
  <2>. QED
    BY <2>1, <2>2, <2>3
<1>10. CASE FoundAfterAll(t)
  <2>1. /\ my'[t].f # my[t].f /\ my'[t].f \in Frame
        /\ cb' = [cb EXCEPT ![my[t].f].held[t] = "NL", ![my[t].f].pin = @ - 1, ![my'[t].f].pin = @ + 1]
    BY <1>10, FoundLocals, ZenonT(40)
  <2>2. my[t].f \in Frame
    BY <1>10, FoundForms, ZenonT(40)
  <2>3. cb'[f].pin = IF my[t].f = f THEN cb[f].pin - 1 ELSE IF my'[t].f = f THEN cb[f].pin + 1 ELSE cb[f].pin
    BY <2>1, <2>2 DEF Block
  <2>4. place[t] \in Pinning /\ place'[t] \in Pinning
    BY <1>10, Leads DEF From, Pinning, Looking, Reading
  <2>. QED
    BY <2>1, <2>3, <2>4
<1>11. CASE ~(Probe(t) \/ LatchFails(t) \/ TakeFree(t) \/ Grab(t) \/ FoundAfterAll(t) \/ Unpin(t))
  <2>1. cb'[f].pin = cb[f].pin
    BY <1>11, PinStays
  <2>2. \/ place[t] \notin Pinning /\ place'[t] \notin Pinning
        \/ place[t] \in Pinning /\ place'[t] \in Pinning /\ ~(ReadSlot(t) \/ Choose(t)) /\ place'[t] # "out"
    BY <1>11, Goes, Leads DEF From, Pinning, Looking, Reading
  <2>3. place[t] \in Pinning => my'[t].f = my[t].f
    BY <2>2, <1>11, LocalsStay DEF Same, Returned
  <2>. QED
    BY <2>1, <2>2, <2>3
<1>. QED
  BY <1>6, <1>7, <1>8, <1>9, <1>10, <1>11
-----------------------------------------------------------------------------
(***************************************************************************)
(* Who has a frame.                                                        *)
(***************************************************************************)
Evicts(t) == Evict(t) /\ place'[t] = "evicted"

\* An eviction finds the frame in the table, with no pin, latch or write under way; and nobody else of
\* its transit bucket leaves if it is dirty.
LEMMA EvictsForms ==
  ASSUME IInv, ~Overtaken, PoolConstants, NEW t \in Thread, Evicts(t)
  PROVE  LET f == my[t].f
             v == my[t].victim
         IN  /\ NothingRead /\ tb[Transit[v]] = NoOne /\ place[t] = "evict"
             /\ f \in Frame /\ v \in Page /\ my'[t].f = f
             /\ Nobody(f) /\ writer[WriteMutex[v]] = NoOne /\ InTable(f) /\ cb[f].pid = v
             /\ cb[f].pin = 0 /\ ~cb[f].writing /\ (cb[f].dirty => transit[Transit[v]] = {})
             /\ cb' = [cb EXCEPT ![f].held[t] = "EX", ![f].old = v]
             /\ transit' = IF cb[f].dirty THEN [transit EXCEPT ![Transit[v]] = @ \union {v}] ELSE transit
             /\ \A g : InTable(g)' <=> InTable(g) /\ g # f
             /\ \A c \in Bucket : Residents(c)' = Residents(c) \ {f}
             /\ UNCHANGED <<unused, tb, writer, store>>
<1>. place \in [Thread -> Steps] /\ my \in [Thread -> Locals]
  BY Parts DEF TypeOK
<1>. DEFINE f == my[t].f
            b == my[t].b
            v == my[t].victim
<1>1. Evict(t) /\ place'[t] = "evicted"
  BY DEF Evicts
<1>2. /\ NothingRead /\ tb[Transit[v]] = NoOne /\ place[t] = "evict"
      /\ f \in Frame /\ b \in Bucket /\ v \in Page
      /\ my' = [my EXCEPT ![t].b = NoOne, ![t].victim = NoOne]
      /\ UNCHANGED <<unused, tb, writer, store>>
      /\ \/ place' = [place EXCEPT ![t] = "clock"]
         \/ /\ Nobody(f) /\ writer[WriteMutex[v]] = NoOne /\ f \in Residents(b) /\ cb[f].pid = v
            /\ cb[f].pin = 0 /\ ~cb[f].writing /\ (cb[f].dirty => transit[Transit[v]] = {})
            /\ cb' = [cb EXCEPT ![f].held[t] = "EX", ![f].old = v]
            /\ table' = Remove(table, b, f)
            /\ transit' = IF cb[f].dirty THEN [transit EXCEPT ![Transit[v]] = @ \union {v}] ELSE transit
  BY <1>1, EvictForms
<1>3. /\ Nobody(f) /\ writer[WriteMutex[v]] = NoOne /\ f \in Residents(b) /\ cb[f].pid = v
      /\ cb[f].pin = 0 /\ ~cb[f].writing /\ (cb[f].dirty => transit[Transit[v]] = {})
      /\ cb' = [cb EXCEPT ![f].held[t] = "EX", ![f].old = v]
      /\ table' = Remove(table, b, f)
      /\ transit' = IF cb[f].dirty THEN [transit EXCEPT ![Transit[v]] = @ \union {v}] ELSE transit
  BY <1>1, <1>2
<1>4. /\ \A g : InTable(g)' <=> InTable(g) /\ g # f
      /\ \A c \in Bucket : Residents(c)' = Residents(c) \ {f}
  BY <1>2, <1>3, EvictedResidents
<1>5. InTable(f)
  BY <1>2, <1>3 DEF InTable
<1>6. my'[t].f = f
  BY <1>2 DEF Locals
<1>. QED
  BY <1>2, <1>3, <1>4, <1>5, <1>6

\* An eviction that fails changes nothing but the place.
LEMMA EvictFails ==
  ASSUME IInv, ~Overtaken, NEW t \in Thread, Evict(t), ~Evicts(t)
  PROVE  UNCHANGED <<cb, table, transit>> /\ place'[t] = "clock"
<1>. place \in [Thread -> Steps]
  BY Parts DEF TypeOK
<1>1. (UNCHANGED <<cb, table, transit>> /\ place' = [place EXCEPT ![t] = "clock"]) \/ place' = [place EXCEPT ![t] = "evicted"]
  BY EvictForms
<1>. QED
  BY <1>1 DEF Evicts

\* A frame leaves the table when it is evicted and comes in by insert.
LEMMA InTableStays ==
  ASSUME IInv, ~Overtaken, PoolConstants, NEW t \in Thread, Step(t), NEW f
  PROVE  \/ InTable(f)' <=> InTable(f)
         \/ Evicts(t) /\ f = my[t].f /\ InTable(f) /\ ~InTable(f)'
         \/ PutIn(t) /\ f = my[t].f /\ ~InTable(f) /\ InTable(f)'
<1>1. CASE UNCHANGED table
  BY <1>1 DEF InTable, Residents
<1>2. CASE Evict(t)
  <2>1. CASE Evicts(t)
    BY <2>1, EvictsForms
  <2>2. CASE ~Evicts(t)
    BY <1>1, <1>2, <2>2, EvictFails
  <2>. QED
    BY <2>1, <2>2
<1>3. CASE PutIn(t)
  <2>1. PICK b \in Bucket : HasRoom(b) /\ table' = Put(table, b, my[t].f)
    BY <1>3, InsertForms
  <2>2. InTable(f)' <=> InTable(f) \/ f = my[t].f
    BY <2>1, <1>3, InsertForms, InsertedResidents
  <2>. QED
    BY <1>3, <2>2
<1>4. CASE Cuckold(t) /\ ~UNCHANGED table
  BY <1>4, CuckoldMoves
<1>. QED
  BY <1>1, <1>2, <1>3, <1>4, TableStays

\* What somebody uses is pinned, latched or being written, so that it is not evicted.
LEMMA NotEvicted ==
  ASSUME IInv, ~Overtaken, PoolConstants, NEW t \in Thread, Evicts(t), NEW u \in Thread, place[u] \in Using
  PROVE  my[u].f # my[t].f
<1>. SUFFICES ASSUME my[u].f = my[t].f PROVE FALSE
  OBVIOUS
<1>1. /\ Nobody(my[t].f) /\ my[t].f \in Frame /\ cb[my[t].f].pin = 0 /\ ~cb[my[t].f].writing
  BY EvictsForms
<1>2. CASE place[u] \in Reading \union {"read", "unlatch"}
  BY <1>1, <1>2, HasLatch DEF Nobody
<1>3. CASE place[u] = "latch"
  BY <1>1, <1>3, PinCounts DEF Pinning
<1>4. CASE place[u] = "flush"
  BY <1>1, <1>4, Parts DEF LocalsOK, Copied
<1>. QED
  BY <1>2, <1>3, <1>4 DEF Using

\* What somebody uses stays in the table, as the page that it is.
LEMMA UsedStays ==
  ASSUME IInv, ~Overtaken, PoolConstants, NEW t \in Thread, Step(t), NEW u \in Thread, place[u] \in Using,
         NEW f, f = my[u].f
  PROVE  f \in Frame /\ InTable(f) /\ InTable(f)' /\ cb[f].pid = my[u].p /\ cb'[f].pid = my[u].p
<1>1. f \in Frame /\ InTable(f) /\ cb[f].pid = my[u].p
  BY Parts DEF LocalsOK, Used
<1>2. InTable(f)'
  BY <1>1, InTableStays, NotEvicted
<1>. QED
  BY <1>1, <1>2, ResidentName

\* What somebody uses is in the table and has his page.
LEMMA UsedKept ==
  ASSUME IInv, ~Overtaken, PoolConstants, NEW t \in Thread, Step(t), NEW u \in Thread
  PROVE  Used(u)'
<1>. TypeOK /\ my \in [Thread -> Locals] /\ place \in [Thread -> Steps]
  BY Parts DEF TypeOK
<1>. SUFFICES ASSUME place'[u] \in Using, NEW f, f = my'[u].f PROVE InTable(f)' /\ cb'[f].pid = my'[u].p
  BY DEF Used, InTable, Residents
<1>1. CASE u # t
  BY <1>1, OthersStay, UsedStays
<1>2. CASE u = t /\ place[t] \in Using
  <2>1. my'[t].f = my[t].f /\ my'[t].p = my[t].p
    <3>1. place'[t] # "out" /\ ~Fix(t)
      BY <1>2, Leads DEF From, Using, Reading
    <3>2. ~(ReadSlot(t) \/ Probe(t) \/ TakeFree(t) \/ Choose(t) \/ FoundAfterAll(t))
      BY <1>2, Leads DEF From, Using, Reading
    <3>. QED
      BY <3>1, <3>2, LocalsStay DEF Same, Returned
  <2>. QED
    BY <1>2, <2>1, UsedStays
<1>3. CASE u = t /\ place[t] \notin Using
  <2>1. Probe(t) \/ FoundAfterAll(t) \/ PutIn(t)
    BY <1>3, Goes DEF From, Using, Reading
  <2>2. CASE Probe(t)
    <3>1. f \in Frame /\ InTable(f) /\ cb[f].pid = my[t].p
      BY <1>3, <2>2, ProbeForms DEF Using, Reading
    <3>2. my'[t].p = my[t].p
      BY <1>3, <2>2, ModeStays, Leads DEF From, Using, Reading
    <3>3. InTable(f)'
      BY <3>1, <2>2, InTableStays, Leads DEF From, Evicts
    <3>. QED
      BY <1>3, <3>1, <3>2, <3>3, ResidentName
  <2>3. CASE FoundAfterAll(t)
    <3>1. f \in Frame /\ InTable(f) /\ cb[f].pid = my[t].p /\ my'[t].p = my[t].p
      BY <1>3, <2>3, FoundLocals
    <3>3. InTable(f)'
      BY <3>1, <2>3, InTableStays, Leads DEF From, Evicts
    <3>. QED
      BY <1>3, <3>1, <3>3, ResidentName
  <2>4. CASE PutIn(t)
    <3>1. my' = my /\ cb' = cb /\ ~InTable(f) /\ cb[f].pid = my[t].p /\ f = my[t].f
      BY <1>3, <2>4, InsertForms
    <3>2. PICK b \in Bucket : HasRoom(b) /\ table' = Put(table, b, f)
      BY <3>1, <2>4, InsertForms
    <3>3. InTable(f)'
      BY <3>1, <3>2, <2>4, InsertForms, InsertedResidents
    <3>. QED
      BY <1>3, <3>1, <3>3
  <2>. QED
    BY <2>1, <2>2, <2>3, <2>4
<1>. QED
  BY <1>1, <1>2, <1>3
-----------------------------------------------------------------------------
\* A thread keeps the frame it owns or uses until it returns or finds another that has the page.
LEMMA FrameStays ==
  ASSUME IInv, NEW t \in Thread, Step(t), place[t] \in Owning \union Using, ~FoundAfterAll(t), place'[t] # "out"
  PROVE  my'[t].f = my[t].f /\ my'[t].p = my[t].p /\ my'[t].mode = my[t].mode
<1>. TypeOK
  BY Parts
<1>1. ~(Fix(t) \/ ReadSlot(t) \/ Probe(t) \/ TakeFree(t) \/ Choose(t))
  BY Leads DEF From, Owning, Emptying, Looking, Using, Reading
<1>. QED
  BY <1>1, LocalsStay DEF Same, Returned

\* What is taken from the free list is clean and latched.
LEMMA TakenForms ==
  ASSUME IInv, NEW t \in Thread, TakeFree(t)
  PROVE  /\ my'[t].f \in unused /\ my'[t].f \in Frame /\ unused' = unused \ {my'[t].f}
         /\ cb' = [cb EXCEPT ![my'[t].f].pin = 0, ![my'[t].f].old = NoOne, ![my'[t].f].dirty = FALSE, ![my'[t].f].held[t] = "EX"]
         /\ place[t] = "take" /\ place'[t] = "grab" /\ UNCHANGED <<table, locks, store>>
<1>. my \in [Thread -> Locals] /\ place \in [Thread -> Steps] /\ unused \in SUBSET Frame
  BY Parts DEF TypeOK
<1>1. PICK g \in unused :
        /\ unused' = unused \ {g}
        /\ cb' = [cb EXCEPT ![g].pin = 0, ![g].old = NoOne, ![g].dirty = FALSE, ![g].held[t] = "EX"]
        /\ my' = [my EXCEPT ![t].f = g]
  BY Zenon DEF TakeFree
<1>2. my'[t].f = g
  BY <1>1 DEF Locals
<1>. QED
  BY <1>1, <1>2 DEF TakeFree, StepTo

\* A frame that somebody owns is left alone by the others.
LEMMA OwnedStays ==
  ASSUME IInv, ~Overtaken, PoolConstants, NEW t \in Thread, Step(t), NEW u \in Thread, u # t,
         place[u] \in Owning, NEW f, f = my[u].f
  PROVE  /\ f \in Frame /\ (f # my[t].f \/ place[t] \notin Owning \union Using)
         /\ ~InTable(f) /\ ~InTable(f)' /\ f \notin unused /\ f \notin unused'
         /\ cb'[f].pid = cb[f].pid /\ cb'[f].old = cb[f].old /\ cb'[f].dirty = cb[f].dirty
         /\ cb'[f].writing = cb[f].writing /\ cb'[f].page = cb[f].page /\ cb'[f].ver = cb[f].ver
<1>. TypeOK
  BY Parts
<1>1. f \in Frame /\ ~InTable(f) /\ f \notin unused
  BY Parts DEF LocalsOK, Owned
<1>2. f # my[t].f \/ place[t] \notin Owning \union Using
  BY OwnedAlone
<1>3. ~InTable(f)'
  BY <1>1, <1>2, InTableStays, Leads DEF From, Owning, Looking
<1>4. f \notin unused'
  <2>1. FoundAfterAll(t) => my[t].f # f /\ unused' = unused \union {my[t].f}
    BY <1>2, Leads, ZenonT(40) DEF From, Owning, Looking, FoundAfterAll
  <2>2. TakeFree(t) => unused' \subseteq unused
    BY TakenForms, Zenon
  <2>. QED
    BY <1>1, <2>1, <2>2, FreeStays
<1>5. cb'[f].pid = cb[f].pid
  BY <1>1, <1>2, NameStays DEF Owning, Looking
<1>6. cb'[f].old = cb[f].old
  <2>1. f = my[t].f => ~Evicts(t) /\ ~PublishPartial(t)
    BY <1>1, <1>2, EvictsForms, Leads DEF From, Owning, Emptying
  <2>2. Evict(t) /\ ~Evicts(t) => cb' = cb
    BY EvictFails
  <2>. QED
    BY <1>1, <2>1, <2>2, OldStays
<1>7. cb'[f].dirty = cb[f].dirty
  BY <1>1, <1>2, DirtyStays, Leads DEF From, Owning, Emptying, Using, Reading
<1>8. cb'[f].writing = cb[f].writing
  BY <1>1, <1>2, WritingStays, Leads DEF From, Owning, Using, Reading
<1>9. cb'[f].page = cb[f].page /\ cb'[f].ver = cb[f].ver
  BY <1>1, <1>2, PageStays, Leads DEF From, Owning, Using, Reading
<1>. QED
  BY <1>1, <1>2, <1>3, <1>4, <1>5, <1>6, <1>7, <1>8, <1>9

\* What a thread owns is neither in the table nor free nor being written.
LEMMA OwnedKept ==
  ASSUME IInv, ~Overtaken, PoolConstants, NEW t \in Thread, Step(t), NEW u \in Thread
  PROVE  Owned(u)'
<1>. TypeOK /\ cb \in [Frame -> Block] /\ my \in [Thread -> Locals]
  BY Parts DEF TypeOK
<1>. SUFFICES ASSUME place'[u] \in Owning, NEW f, f = my'[u].f PROVE ~InTable(f)' /\ f \notin unused' /\ ~cb'[f].writing
  BY DEF Owned, InTable, Residents
<1>1. CASE u # t
  <2>1. place[u] \in Owning /\ f = my[u].f
    BY <1>1, OthersStay
  <2>. QED
    BY <1>1, <2>1, OwnedStays, Parts DEF Owned
<1>2. CASE u = t /\ TakeFree(t)
  <2>1. /\ f \in unused /\ f \in Frame /\ unused' = unused \ {f} /\ UNCHANGED table
        /\ cb' = [cb EXCEPT ![f].pin = 0, ![f].old = NoOne, ![f].dirty = FALSE, ![f].held[t] = "EX"]
    BY <1>2, TakenForms, ZenonT(40)
  <2>2. ~InTable(f) /\ ~cb[f].writing
    BY <2>1 DEF IInv, Unused
  <2>3. cb'[f].writing = cb[f].writing
    <3>1. f \in Frame /\ cb \in [Frame -> Block]
          /\ cb' = [cb EXCEPT ![f].pin = 0, ![f].old = NoOne, ![f].dirty = FALSE, ![f].held[t] = "EX"]
      BY <2>1
    <3>. QED
      BY ONLY <3>1 DEF Block
  <2>. QED
    BY <2>1, <2>2, <2>3 DEF InTable, Residents
<1>3. CASE u = t /\ Evict(t)
  <2>1. Evicts(t)
    BY <1>3, EvictFails DEF Owning, Emptying, Looking
  <2>2. /\ f \in Frame /\ InTable(f) /\ ~cb[f].writing /\ unused' = unused /\ ~InTable(f)'
        /\ cb' = [cb EXCEPT ![f].held[t] = "EX", ![f].old = my[t].victim]
    BY <1>3, <2>1, EvictsForms
  <2>3. cb'[f].writing = cb[f].writing
    BY <2>2 DEF Block
  <2>. QED
    BY <2>2, <2>3 DEF IInv, Unused
<1>4. CASE u = t /\ ~TakeFree(t) /\ ~Evict(t)
  <2>1. place[t] \in Owning /\ ~FoundAfterAll(t) /\ place'[t] # "out"
    BY <1>4, Goes, Leads DEF From, Owning, Emptying, Looking
  <2>2. f = my[t].f
    BY <1>4, <2>1, FrameStays
  <2>3. f \in Frame /\ ~InTable(f) /\ f \notin unused /\ ~cb[f].writing
    BY <2>1, <2>2, Parts DEF Owned, LocalsOK
  <2>4. ~InTable(f)'
    BY <1>4, <2>3, InTableStays, Leads DEF From, Evicts, Owning, Emptying, Looking
  <2>5. unused' = unused
    BY <1>4, <2>1, FreeStays
  <2>6. cb'[f].writing = cb[f].writing
    BY <2>1, <2>3, WritingStays, Leads DEF From, Owning, Emptying, Looking
  <2>. QED
    BY <2>3, <2>4, <2>5, <2>6
<1>. QED
  BY <1>1, <1>2, <1>3, <1>4
-----------------------------------------------------------------------------
\* A free frame is not in the table, clean, and not being written.
LEMMA UnusedKept ==
  ASSUME IInv, ~Overtaken, PoolConstants, NEW t \in Thread, Step(t)
  PROVE  Unused'
<1>. TypeOK /\ cb \in [Frame -> Block] /\ unused \in SUBSET Frame
  BY Parts DEF TypeOK
<1>. SUFFICES ASSUME NEW f, f \in unused' PROVE ~InTable(f)' /\ ~cb'[f].dirty /\ ~cb'[f].writing
  BY DEF Unused, InTable, Residents
<1>1. CASE f \in unused
  <2>1. f \in Frame /\ ~InTable(f) /\ ~cb[f].dirty /\ ~cb[f].writing
    BY <1>1 DEF IInv, Unused
  <2>2. f = my[t].f => place[t] \notin Owning \union Using
    BY <1>1, FreeAlone
  <2>3. ~InTable(f)'
    BY <2>1, <2>2, InTableStays, Leads DEF From, Owning, Looking
  <2>4. ~cb'[f].writing
    BY <2>1, <2>2, WritingStays, Leads DEF From, Using, Reading
  <2>5. CASE TakeFree(t)
    BY <2>1, <2>3, <2>4, <2>5, TakenForms, ZenonT(40) DEF Block
  <2>6. CASE ~TakeFree(t)
    <3>1. cb'[f].dirty = cb[f].dirty
      BY <2>1, <2>2, <2>6, DirtyStays, Leads DEF From, Owning, Emptying, Using, Reading
    <3>. QED
      BY <2>1, <2>3, <2>4, <3>1
  <2>. QED
    BY <2>5, <2>6
<1>2. CASE f \notin unused
  <2>1. FoundAfterAll(t) /\ f = my[t].f
    <3>1. ~UNCHANGED unused
      BY <1>2
    <3>2. ~TakeFree(t)
      BY <1>2, TakenForms, Zenon
    <3>3. FoundAfterAll(t)
      BY <3>1, <3>2, FreeStays
    <3>4. unused' = unused \union {my[t].f}
      BY <3>3, FoundForms, ZenonT(40)
    <3>. QED
      BY <1>2, <3>3, <3>4
  <2>2. place[t] = "look" /\ f \in Frame /\ UNCHANGED table
    BY <2>1, FoundForms, Zenon
  <2>3. ~InTable(f) /\ ~cb[f].writing /\ ~cb[f].dirty
    BY <2>1, <2>2, Parts DEF Owned, Cleared, Owning, Looking
  <2>4. cb'[f].writing = cb[f].writing
    BY <2>2, WritingStays, Leads DEF From
  <2>5. cb'[f].dirty = cb[f].dirty
    BY <1>2, <2>2, DirtyStays, Leads DEF From
  <2>. QED
    BY <2>2, <2>3, <2>4, <2>5 DEF InTable, Residents
<1>. QED
  BY <1>1, <1>2

\* What has been read of a slot cannot be evicted.
LEMMA ProbedKept ==
  ASSUME IInv, ~Overtaken, PoolConstants, NEW t \in Thread, Step(t), NEW u \in Thread
  PROVE  Probed(u)'
<1>. TypeOK /\ my \in [Thread -> Locals] /\ place \in [Thread -> Steps]
  BY Parts DEF TypeOK
<1>. SUFFICES ASSUME place'[u] = "probe", NEW c, c = Here(u)', NEW i, i = my'[u].s, NEW f, f = my'[u].f,
                     NEW g, g = table'[c].slot[i]
              PROVE  InTable(f)' /\ i \in 1..SlotCount /\ g \in Frame /\ InTable(g)'
  BY DEF Probed, InTable, Residents
<1>1. CASE u # t
  <2>1. place[u] = "probe" /\ c = Here(u) /\ i = my[u].s /\ f = my[u].f
    BY <1>1, OthersStay DEF Here
  <2>2. InTable(f) /\ i \in 1..SlotCount /\ table[c].slot[i] \in Frame /\ InTable(table[c].slot[i])
    BY <2>1, Parts DEF Probed
  <2>3. c \in Bucket
    <3>1. my[u].p \in Page /\ my[u].i \in {1, 2}
      BY <2>1, Parts DEF LocalsOK, Locals
    <3>. QED
      BY <2>1, <3>1, HashInBucket DEF Here
  <2>4. ~Evicts(t)
    BY <2>1, EvictsForms DEF NothingRead
  <2>5. \A h : InTable(h) => InTable(h)'
    BY <2>4, InTableStays
  <2>6. g = table[c].slot[i] \/ InTable(g)'
    <3>1. CASE UNCHANGED table
      BY <3>1
    <3>2. CASE PutIn(t)
      <4>1. PICK b \in Bucket : HasRoom(b) /\ table' = Put(table, b, my[t].f)
        BY <3>2, InsertForms
      <4>2. g \in {table[c].slot[i], my[t].f}
        BY <2>2, <2>3, <4>1, <3>2, InsertForms, InsertedResidents
      <4>3. \A h : h = my[t].f => InTable(h)'
        BY <4>1, <3>2, InsertForms, InsertedResidents
      <4>. QED
        BY <4>2, <4>3
    <3>3. CASE Cuckold(t) /\ ~UNCHANGED table
      <4>1. g = table[c].slot[i] \/ InTable(g)
        BY <2>2, <2>3, <3>3, CuckoldMoves
      <4>. QED
        BY <4>1, <2>5
    <3>4. CASE Evict(t)
      BY <2>4, <3>1, <3>4, EvictFails
    <3>. QED
      BY <3>1, <3>2, <3>3, <3>4, TableStays
  <2>7. InTable(g)'
    BY <2>2, <2>5, <2>6
  <2>8. g \in Frame
    <3>1. \A b \in Bucket : \A h \in Residents(b)' : h \in Frame
      <4>1. SlotsFilled'
        BY SlotsKept
      <4>. QED
        BY <4>1 DEF SlotsFilled, Slots, Residents
    <3>. QED
      BY <2>7, <3>1 DEF InTable
  <2>. QED
    BY <2>2, <2>5, <2>7, <2>8
<1>2. CASE u = t
  <2>1. ReadSlot(t)
    BY <1>2, Goes DEF From
  <2>2. /\ place[t] = "search" /\ my[t].s <= table[Here(t)].count /\ UNCHANGED table
        /\ my' = [my EXCEPT ![t].f = table[Here(t)].slot[my[t].s]]
    BY <2>1 DEF ReadSlot
  <2>3. my'[t] = [my[t] EXCEPT !.f = table[Here(t)].slot[my[t].s]]
    BY <2>2
  <2>4. c = Here(t) /\ i = my[t].s /\ f = table[c].slot[i] /\ g = f
    <3>1. my'[t].p = my[t].p /\ my'[t].i = my[t].i /\ my'[t].s = my[t].s /\ my'[t].f = table[Here(t)].slot[my[t].s]
      BY <2>3 DEF Locals
    <3>2. c = Hash[my'[t].i][my'[t].p] /\ i = my'[t].s /\ f = my'[t].f
      BY <1>2 DEF Here
    <3>3. c = Here(t) /\ i = my[t].s
      BY <3>1, <3>2 DEF Here
    <3>. QED
      BY <2>2, <3>1, <3>2, <3>3
  <2>5. my[t].p \in Page /\ my[t].i \in {1, 2} /\ my[t].s \in Nat \ {0}
    BY <2>2, Parts DEF LocalsOK, Locals
  <2>6. c \in Bucket
    BY <2>4, <2>5, HashInBucket DEF Here
  <2>7. table[c].count \in 0..SlotCount /\ SlotCount \in Nat
    BY <2>6, SlotTyped
  <2>8. i \in Slots(c) /\ i \in 1..SlotCount
    BY <2>2, <2>4, <2>5, <2>7 DEF Slots
  <2>9. f \in Residents(c) /\ f \in Frame /\ InTable(f)
    BY <2>4, <2>6, <2>8, SlotOK, ResidentOK
  <2>10. InTable(f)'
    BY <2>2, <2>9 DEF InTable, Residents
  <2>. QED
    BY <2>4, <2>8, <2>9, <2>10
<1>. QED
  BY <1>1, <1>2

\* ensure_space finds a resident of a full bucket whose other bucket has room.
LEMMA EnsureForms ==
  ASSUME IInv, PoolConstants, ~Overtaken, NEW t \in Thread, EnsureSpace(t)
  PROVE  /\ NothingRead /\ place[t] = "insert" /\ UNCHANGED <<cb, table, unused, locks, store>>
         /\ my'[t].p = my[t].p /\ my'[t].b \in Bucket /\ my'[t].s \in Slots(my'[t].b) /\ my'[t].to \in Bucket \ {my'[t].b}
         /\ \E h \in 1..2 : my'[t].to = Hash[h][cb[table[my'[t].b].slot[my'[t].s]].pid]
<1>. my \in [Thread -> Locals] /\ LocalsOK(t) /\ TypeOK /\ SlotsFilled
  BY Parts DEF TypeOK
<1>1. NothingRead /\ place[t] = "insert" /\ UNCHANGED <<cb, table, unused, locks, store>> /\ my[t].p \in Page
  BY Zenon DEF EnsureSpace, LocalsOK
<1>2. PICK b \in Emptied(my[t].p) : \E k \in 1..table[b].count, j \in 1..2 :
       LET to == Hash[j][cb[table[b].slot[k]].pid]
       IN  to # b /\ HasRoom(to) /\ my' = [my EXCEPT ![t].b = b, ![t].s = k, ![t].to = to]
  BY Zenon DEF EnsureSpace
<1>3. b \in Bucket
  BY <1>1, <1>2, EmptiedInBucket, ZenonT(40)
<1>4. PICK k \in Slots(b), j \in 1..2 :
        /\ Hash[j][cb[table[b].slot[k]].pid] # b
        /\ my' = [my EXCEPT ![t].b = b, ![t].s = k, ![t].to = Hash[j][cb[table[b].slot[k]].pid]]
  BY <1>2, Zenon DEF Slots
<1>5. PICK to : to = Hash[j][cb[table[b].slot[k]].pid]
  OBVIOUS
<1>6. cb[table[b].slot[k]].pid \in Page
  BY <1>3, <1>4, SlotOK, ResidentOK
<1>7. to \in Bucket
  <2>1. j \in {1, 2}
    BY <1>4
  <2>. QED
    BY <1>5, <1>6, <2>1, HashInBucket
<1>8. my'[t] = [my[t] EXCEPT !.b = b, !.s = k, !.to = to]
  BY <1>4, <1>5
<1>9. my'[t].p = my[t].p /\ my'[t].b = b /\ my'[t].s = k /\ my'[t].to = to
  BY <1>8 DEF Locals
<1>. QED
  BY <1>1, <1>3, <1>4, <1>5, <1>7, <1>9, ZenonT(40)

\* One thread at a time is about to move a resident.
LEMMA OneMoverKept ==
  ASSUME IInv, ~Overtaken, PoolConstants, NEW t \in Thread, Step(t)
  PROVE  OneMover'
<1>. TypeOK
  BY Parts
<1>1. \A u \in Thread : place'[u] = "move" => place[u] = "move" \/ (u = t /\ EnsureSpace(t))
  BY OthersStay, Goes DEF From
<1>2. EnsureSpace(t) => \A u \in Thread : place[u] # "move"
  BY EnsureForms, ZenonT(40) DEF NothingRead
<1>. QED
  BY <1>1, <1>2 DEF IInv, OneMover

\* What ensure_space has read still holds when cuckold moves the resident.
LEMMA MovesKept ==
  ASSUME IInv, ~Overtaken, PoolConstants, NEW t \in Thread, Step(t), NEW u \in Thread
  PROVE  Moves(u)'
<1>. TypeOK /\ my \in [Thread -> Locals]
  BY Parts DEF TypeOK
<1>. SUFFICES ASSUME place'[u] = "move"
              PROVE  LET b == my'[u].b
                         k == my'[u].s
                         to == my'[u].to
                     IN  /\ b \in Bucket /\ k \in 1..table'[b].count /\ to \in Bucket \ {b}
                         /\ \E h \in 1..2 : to = Hash[h][cb'[table'[b].slot[k]].pid]
  BY Zenon DEF Moves, Slots
<1>. PICK b, k, to, f : b = my'[u].b /\ k = my'[u].s /\ to = my'[u].to /\ f = table'[b].slot[k]
  OBVIOUS
<1>. SUFFICES b \in Bucket /\ k \in Slots(b)' /\ to \in Bucket \ {b} /\ \E h \in 1..2 : to = Hash[h][cb'[f].pid]
  BY ZenonT(40) DEF Slots
<1>1. CASE u # t
  <2>1. place[u] = "move" /\ b = my[u].b /\ k = my[u].s /\ to = my[u].to
    BY <1>1, OthersStay
  <2>2. b \in Bucket /\ k \in Slots(b) /\ to \in Bucket \ {b} /\ \E h \in 1..2 : to = Hash[h][cb[table[b].slot[k]].pid]
    BY <2>1, Parts, ZenonT(40) DEF Moves
  <2>3. ~Evicts(t) /\ ~Cuckold(t)
    BY <1>1, <2>1, EvictsForms, Leads DEF NothingRead, From, IInv, OneMover
  <2>4. k \in Slots(b)' /\ f = table[b].slot[k]
    <3>1. CASE UNCHANGED table
      BY ONLY <2>2, <3>1, f = table'[b].slot[k], Zenon DEF Slots
    <3>2. CASE PutIn(t)
      <4>1. PICK c \in Bucket : HasRoom(c) /\ table' = Put(table, c, my[t].f)
        BY <3>2, InsertForms
      <4>2. my[t].f \in Frame
        BY <3>2, InsertForms
      <4>3. k \in Slots(b)' /\ table'[b].slot[k] = table[b].slot[k]
        BY ONLY IInv, PoolConstants, <2>2, <4>1, <4>2, InsertedResidents
      <4>. QED
        BY ONLY <4>3, f = table'[b].slot[k]
    <3>3. CASE Evict(t)
      BY <2>3, <3>1, <3>3, EvictFails
    <3>. QED
      BY <2>3, <3>1, <3>2, <3>3, TableStays
  <2>5. f \in Residents(b)
    BY ONLY IInv, <2>2, <2>4, SlotOK
  <2>6. f \in Frame /\ InTable(f)
    BY ONLY IInv, <2>2, <2>5, ResidentOK
  <2>7. cb'[f].pid = cb[f].pid
    BY <2>6, ResidentName
  <2>8. \E h \in 1..2 : to = Hash[h][cb[f].pid]
    BY ONLY <2>2, <2>4
  <2>. QED
    BY ONLY <2>2, <2>4, <2>7, <2>8
<1>2. CASE u = t
  <2>1. EnsureSpace(t)
    BY <1>2, Goes DEF From
  <2>2. b = my'[t].b /\ k = my'[t].s /\ to = my'[t].to
    BY <1>2
  <2>3. /\ UNCHANGED <<cb, table>>
        /\ b \in Bucket /\ k \in Slots(b) /\ to \in Bucket \ {b}
        /\ \E h \in 1..2 : to = Hash[h][cb[table[b].slot[k]].pid]
    BY ONLY IInv, PoolConstants, ~Overtaken, t \in Thread, <2>1, <2>2, EnsureForms, Zenon
  <2>4. k \in Slots(b)' /\ f = table[b].slot[k] /\ cb'[f] = cb[f]
    BY ONLY <2>3, f = table'[b].slot[k], Zenon DEF Slots
  <2>. QED
    BY ONLY <2>3, <2>4
<1>. QED
  BY <1>1, <1>2, Zenon
-----------------------------------------------------------------------------
\* A page has a transit bucket and a write mutex.
LEMMA TransitTyped ==
  ASSUME NEW p \in Page
  PROVE  Transit[p] \in TransitBucket /\ WriteMutex[p] \in Mutex
BY DEF TransitBucket, Mutex

\* Who looks for a page stays in a set of places that only AwaitTransit leads to.
LEMMA LookingStays ==
  ASSUME IInv, NEW t \in Thread, Step(t), ~AwaitTransit(t), ~FoundAfterAll(t), ~PutIn(t), NEW u \in Thread
  PROVE  /\ place[u] \in Looking <=> place'[u] \in Looking
         /\ place[u] \in Looking => my'[u].p = my[u].p
<1>. TypeOK
  BY Parts
<1>1. CASE u # t
  BY <1>1, OthersStay
<1>2. CASE u = t
  <2>1. place[t] \in Looking <=> place'[t] \in Looking
    BY Goes DEF From, Looking
  <2>2. place'[t] \in Looking => my'[t].p = my[t].p
    BY <2>1, ModeStays, Leads DEF From, Looking
  <2>. QED
    BY <1>2, <2>1, <2>2
<1>. QED
  BY <1>1, <1>2

\* Who looks for a page in grab has the mutex of its transit bucket, and nobody else has it.
LEMMA BucketsOwnedKept ==
  ASSUME IInv, ~Overtaken, PoolConstants, NEW t \in Thread, Step(t)
  PROVE  BucketsOwned'
<1>. TypeOK /\ tb \in [TransitBucket -> Maybe(Thread)] /\ NoOne \notin Thread /\ place \in [Thread -> Steps]
  BY Parts DEF TypeOK, PoolConstants
<1>. SUFFICES ASSUME NEW b \in TransitBucket, NEW u \in Thread
              PROVE  tb'[b] = u <=> place'[u] \in Looking /\ Transit[my'[u].p] = b
  BY DEF BucketsOwned
<1>0. \A v \in Thread : \A c \in TransitBucket : tb[c] = v <=> place[v] \in Looking /\ Transit[my[v].p] = c
  BY DEF IInv, BucketsOwned
<1>1. CASE AwaitTransit(t)
  <2>1. /\ place[t] = "transit" /\ tb[Transit[my[t].p]] = NoOne /\ tb' = [tb EXCEPT ![Transit[my[t].p]] = t]
        /\ place' = [place EXCEPT ![t] = "look"] /\ my' = my /\ my[t].p \in Page
    BY <1>1, Parts DEF AwaitTransit, StepTo, LocalsOK
  <2>2. Transit[my[t].p] \in TransitBucket
    BY <2>1, TransitTyped
  <2>3. place[t] \notin Looking /\ place'[t] \in Looking
    BY <2>1 DEF Looking
  <2>4. CASE b = Transit[my[t].p]
    BY <1>0, <2>1, <2>2, <2>3, <2>4
  <2>5. CASE b # Transit[my[t].p]
    BY <1>0, <2>1, <2>2, <2>3, <2>5
  <2>. QED
    BY <2>4, <2>5
<1>2. CASE FoundAfterAll(t) \/ PutIn(t)
  <2>1. /\ place[t] \in Looking /\ tb' = [tb EXCEPT ![Transit[my[t].p]] = NoOne] /\ my[t].p \in Page
        /\ place'[t] \notin Looking
    BY <1>2, FoundForms, InsertForms, Leads, Zenon DEF Looking, From
  <2>2. Transit[my[t].p] \in TransitBucket /\ tb[Transit[my[t].p]] = t
    BY <1>0, <2>1, TransitTyped
  <2>3. u # t => place'[u] = place[u] /\ my'[u] = my[u]
    BY OthersStay
  <2>4. CASE b = Transit[my[t].p]
    BY <1>0, <2>1, <2>2, <2>3, <2>4
  <2>5. CASE b # Transit[my[t].p]
    BY <1>0, <2>1, <2>2, <2>3, <2>5
  <2>. QED
    BY <2>4, <2>5
<1>3. CASE ~AwaitTransit(t) /\ ~FoundAfterAll(t) /\ ~PutIn(t)
  <2>1. tb' = tb
    BY <1>3, LocksStay
  <2>2. place[u] \in Looking <=> place'[u] \in Looking
    BY <1>3, LookingStays
  <2>3. place[u] \in Looking => my'[u].p = my[u].p
    BY <1>3, LookingStays
  <2>. QED
    BY <1>0, <2>1, <2>2, <2>3
<1>. QED
  BY <1>1, <1>2, <1>3

\* Which mutexes of pages a thread has.
HasMutex(t, m) ==
  \/ place[t] = "write" /\ m = WriteMutex[cb[my[t].f].old]
  \/ Writing(t) /\ m = WriteMutex[my[t].p]

\* The mutexes of pages that a thread should have change with its own writes only.
LEMMA MutexStays ==
  ASSUME IInv, ~Overtaken, PoolConstants, NEW t \in Thread, Step(t), NEW u \in Thread,
         u # t \/ (~VictimDirty(t) /\ ~ReplaceOut(t) /\ ~LockPage(t) /\ ~Copy(t) /\ ~WriteOut(t)), NEW m
  PROVE  HasMutex(u, m)' <=> HasMutex(u, m)
<1>. TypeOK /\ my[u] \in Locals /\ LocalsOK(u)
  BY Parts
<1>1. CASE u # t
  <2>1. place'[u] = place[u] /\ my'[u] = my[u]
    BY <1>1, OthersStay
  <2>2. place[u] = "write" => cb'[my[u].f].old = cb[my[u].f].old
    BY <1>1, OwnedStays DEF Owning, Emptying
  <2>. QED
    BY <2>1, <2>2 DEF HasMutex, Writing
<1>2. CASE u = t
  <2>1. place[t] # "write" /\ place'[t] # "write" /\ place[t] # "copy" /\ place'[t] # "copy"
    BY <1>2, Goes DEF From
  <2>2. CASE my[t].copy > 0
    <3>1. place[t] \in {"unfix", "unlatch"}
      <4>1. place[t] # "flush"
        BY <1>2, Goes DEF From
      <4>. QED
        BY <1>2, <2>2, <4>1 DEF LocalsOK
    <3>2. Unpin(t) \/ Unlatch(t)
      BY <3>1, Goes DEF From
    <3>3. place'[t] # "out" /\ ~FoundAfterAll(t) /\ ~Copy(t) /\ ~Fix(t)
      BY <3>1, <3>2, <2>2, Leads DEF From
    <3>4. my'[t].copy = my[t].copy /\ my'[t].p = my[t].p
      BY <3>3, LocalsStay DEF Same, Returned
    <3>. QED
      BY <1>2, <2>1, <2>2, <3>4 DEF HasMutex, Writing
  <2>3. CASE ~(my[t].copy > 0)
    <3>1. my[t].copy = 0
      BY <1>2, <2>3 DEF Locals
    <3>2. my'[t].copy = 0
      BY <1>2, <3>1, LocalsStay, FoundLocals, ZenonT(40) DEF Same, Returned, NoLocals
    <3>. QED
      BY <1>2, <2>1, <3>1, <3>2 DEF HasMutex, Writing
  <2>. QED
    BY <2>2, <2>3
<1>. QED
  BY <1>1, <1>2
\* Who writes a page has its write mutex, and nobody else has it.
LEMMA PagesOwnedKept ==
  ASSUME IInv, ~Overtaken, PoolConstants, NEW t \in Thread, Step(t)
  PROVE  PagesOwned'
<1>. TypeOK /\ writer \in [Mutex -> Maybe(Thread)] /\ NoOne \notin Thread /\ place \in [Thread -> Steps]
     /\ my \in [Thread -> Locals] /\ cb \in [Frame -> Block] /\ my[t] \in Locals /\ LocalsOK(t)
  BY Parts DEF TypeOK, PoolConstants
<1>0. \A u \in Thread : \A m \in Mutex : writer[m] = u <=> HasMutex(u, m)
  BY DEF IInv, PagesOwned, HasMutex
<1>. SUFFICES ASSUME NEW m \in Mutex, NEW u \in Thread
              PROVE  writer'[m] = u <=> HasMutex(u, m)'
  BY DEF PagesOwned, HasMutex
<1>a. u # t => (HasMutex(u, m)' <=> HasMutex(u, m))
  BY MutexStays
\* The mutex n is taken, dropped, or neither.
<1>b. ASSUME NEW n \in Mutex, writer[n] = NoOne, writer' = [writer EXCEPT ![n] = t],
             HasMutex(t, m)' <=> m = n, ~HasMutex(t, m)
      PROVE  writer'[m] = u <=> HasMutex(u, m)'
  BY <1>0, <1>a, <1>b
<1>c. ASSUME NEW n \in Mutex, HasMutex(t, m) <=> m = n, writer' = [writer EXCEPT ![n] = NoOne], ~HasMutex(t, m)'
      PROVE  writer'[m] = u <=> HasMutex(u, m)'
  BY <1>0, <1>a, <1>c
<1>d. ASSUME HasMutex(t, m)' <=> HasMutex(t, m), writer' = writer
      PROVE  writer'[m] = u <=> HasMutex(u, m)'
  BY <1>0, <1>a, <1>d
<1>1. CASE VictimDirty(t)
  <2>. DEFINE n == WriteMutex[cb[my[t].f].pid]
  <2>1. /\ place[t] = "evicted" /\ writer[n] = NoOne /\ writer' = [writer EXCEPT ![n] = t]
        /\ cb' = cb /\ my' = my /\ place'[t] = "write"
    BY <1>1 DEF VictimDirty, StepTo
  <2>2. cb[my[t].f].old \in Page /\ cb[my[t].f].pid = cb[my[t].f].old
    BY <2>1, Parts DEF Leaving, Emptying
  <2>3. my[t].copy = 0
    BY <2>1 DEF LocalsOK, Locals
  <2>4. n \in Mutex
    BY <2>2, TransitTyped
  <2>5. HasMutex(t, m)' <=> m = n
    BY <2>1, <2>2, <2>3 DEF HasMutex, Writing
  <2>6. ~HasMutex(t, m)
    BY <2>1, <2>3 DEF HasMutex, Writing
  <2>. QED
    BY <1>b, <2>1, <2>4, <2>5, <2>6
<1>2. CASE ReplaceOut(t)
  <2>. DEFINE n == WriteMutex[cb[my[t].f].pid]
  <2>1. /\ place[t] = "write" /\ writer' = [writer EXCEPT ![n] = NoOne] /\ my' = my /\ place'[t] = "partial"
    BY <1>2 DEF ReplaceOut, StepTo
  <2>2. cb[my[t].f].old \in Page /\ cb[my[t].f].pid = cb[my[t].f].old
    BY <2>1, Parts DEF Leaving, Emptying
  <2>3. my[t].copy = 0
    BY <2>1 DEF LocalsOK, Locals
  <2>4. n \in Mutex
    BY <2>2, TransitTyped
  <2>5. HasMutex(t, m) <=> m = n
    BY <2>1, <2>2, <2>3 DEF HasMutex, Writing
  <2>6. ~HasMutex(t, m)'
    BY <2>1, <2>3 DEF HasMutex, Writing
  <2>. QED
    BY <1>c, <2>1, <2>4, <2>5, <2>6
<1>3. CASE LockPage(t)
  <2>. DEFINE n == WriteMutex[my[t].p]
  <2>1. /\ place[t] = "lock" /\ writer[n] = NoOne /\ writer' = [writer EXCEPT ![n] = t]
        /\ my' = my /\ place'[t] = "copy" /\ my[t].p \in Page
    BY <1>3 DEF LockPage, StepTo, LocalsOK
  <2>3. my[t].copy = 0
    BY <2>1 DEF LocalsOK, Locals
  <2>4. n \in Mutex
    BY <2>1, TransitTyped
  <2>5. HasMutex(t, m)' <=> m = n
    BY <2>1, <2>3 DEF HasMutex, Writing
  <2>6. ~HasMutex(t, m)
    BY <2>1, <2>3 DEF HasMutex, Writing
  <2>. QED
    BY <1>b, <2>1, <2>4, <2>5, <2>6
<1>4. CASE Copy(t)
  <2>. DEFINE n == WriteMutex[my[t].p]
  <2>1. place[t] = "copy" /\ place'[t] = "unfix" /\ my[t].p \in Page /\ my[t].f \in Frame
    BY <1>4 DEF Copy, StepTo, LocalsOK, Using, Reading
  <2>2. n \in Mutex
    BY <2>1, TransitTyped
  <2>3. my[t].copy = 0
    BY <2>1 DEF LocalsOK, Locals
  <2>4. HasMutex(t, m) <=> m = n
    BY <2>1 DEF HasMutex, Writing
  <2>5. CASE InTable(my[t].f) /\ cb[my[t].f].dirty
    <3>1. writer' = writer /\ my' = [my EXCEPT ![t].copy = cb[my[t].f].ver]
      BY <1>4, <2>5 DEF Copy, WhileWritten
    <3>2. my'[t].p = my[t].p /\ my'[t].copy = cb[my[t].f].ver
      BY <3>1 DEF Locals
    <3>3. cb[my[t].f].ver > 0
      BY <2>1, <2>5 DEF IInv, Positive
    <3>4. HasMutex(t, m)' <=> HasMutex(t, m)
      BY <2>1, <2>4, <3>2, <3>3 DEF HasMutex, Writing
    <3>. QED
      BY <1>d, <3>1, <3>4
  <2>6. CASE ~(InTable(my[t].f) /\ cb[my[t].f].dirty)
    <3>1. writer' = [writer EXCEPT ![n] = NoOne] /\ my' = my
      BY <1>4, <2>6 DEF Copy
    <3>2. ~HasMutex(t, m)'
      BY <2>1, <2>3, <3>1 DEF HasMutex, Writing
    <3>. QED
      BY <1>c, <2>2, <2>4, <3>1, <3>2
  <2>. QED
    BY <2>5, <2>6
<1>5. CASE WriteOut(t)
  <2>. DEFINE n == WriteMutex[my[t].p]
  <2>1. place[t] = "flush" /\ place'[t] = "out" /\ writer' = [writer EXCEPT ![n] = NoOne] /\ my[t].p \in Page /\ my[t].copy > 0
    BY <1>5 DEF WriteOut, ReturnFrom, StepTo, LocalsOK
  <2>2. n \in Mutex
    BY <2>1, TransitTyped
  <2>3. HasMutex(t, m) <=> m = n
    BY <2>1 DEF HasMutex, Writing
  <2>4. my'[t].copy = 0
    BY <2>1, Returns DEF Returned, NoLocals
  <2>5. ~HasMutex(t, m)'
    BY <2>1, <2>4 DEF HasMutex, Writing
  <2>. QED
    BY <1>c, <2>1, <2>2, <2>3, <2>5
<1>6. CASE ~VictimDirty(t) /\ ~ReplaceOut(t) /\ ~LockPage(t) /\ ~Copy(t) /\ ~WriteOut(t)
  <2>1. writer' = writer
    BY <1>6, LocksStay
  <2>2. HasMutex(t, m)' <=> HasMutex(t, m)
    BY <1>6, MutexStays
  <2>. QED
    BY <1>d, <2>1, <2>2
<1>. QED
  BY <1>1, <1>2, <1>3, <1>4, <1>5, <1>6

\* A page is not looked for by two threads.
LEMMA LooksAlone ==
  ASSUME IInv, NEW t \in Thread, NEW u \in Thread, place[t] \in Looking, place[u] \in Looking,
         Transit[my[t].p] = Transit[my[u].p]
  PROVE  t = u
<1>1. my[t].p \in Page
  BY Parts DEF LocalsOK, Looking
<1>2. Transit[my[t].p] \in TransitBucket
  BY <1>1, TransitTyped
<1>. QED
  BY <1>2 DEF IInv, BucketsOwned

\* A page that is looked for in grab is not in transit.
LEMMA SoughtKept ==
  ASSUME IInv, ~Overtaken, PoolConstants, NEW t \in Thread, Step(t), NEW u \in Thread
  PROVE  Sought(u)'
<1>. TypeOK /\ transit \in [TransitBucket -> SUBSET Page] /\ place \in [Thread -> Steps] /\ NoOne \notin Thread
  BY Parts DEF TypeOK, PoolConstants
<1>1. CASE AwaitTransit(t) /\ u = t
  BY <1>1 DEF AwaitTransit, NotInTransit, Sought
<1>2. CASE ~(AwaitTransit(t) /\ u = t) /\ place'[u] \in Looking
  <2>1. place[u] \in Looking /\ my'[u].p = my[u].p
    <3>1. CASE u # t
      BY <1>2, <3>1, OthersStay
    <3>2. CASE u = t
      <4>1. ~FoundAfterAll(t) /\ ~PutIn(t) /\ ~AwaitTransit(t)
        BY <1>2, <3>2, Leads DEF From, Looking
      <4>. QED
        BY <1>2, <3>2, <4>1, LookingStays
    <3>. QED
      BY <3>1, <3>2
  <2>2. my[u].p \notin transit[Transit[my[u].p]] /\ my[u].p \in Page
    BY <2>1, Parts DEF Sought, LocalsOK, Looking
  <2>3. Transit[my[u].p] \in TransitBucket /\ tb[Transit[my[u].p]] = u
    BY <2>1, <2>2, TransitTyped DEF IInv, BucketsOwned
  <2>4. my[u].p \notin transit'[Transit[my[u].p]]
    <3>1. CASE UNCHANGED transit
      BY <2>2, <3>1
    <3>2. CASE Evicts(t)
      <4>1. /\ tb[Transit[my[t].victim]] = NoOne /\ my[t].victim \in Page
            /\ \/ transit' = transit
               \/ transit' = [transit EXCEPT ![Transit[my[t].victim]] = @ \union {my[t].victim}]
        BY <3>2, EvictsForms
      <4>2. Transit[my[t].victim] # Transit[my[u].p]
        BY <2>3, <4>1
      <4>3. transit'[Transit[my[u].p]] = transit[Transit[my[u].p]]
        BY ONLY transit \in [TransitBucket -> SUBSET Page], <2>3, <4>1, <4>2
      <4>. QED
        BY <2>2, <4>3
    <3>3. CASE PublishPartial(t)
      <4>1. PICK p : transit' = [transit EXCEPT ![Transit[p]] = @ \ {p}]
        BY <3>3 DEF PublishPartial
      <4>2. transit'[Transit[my[u].p]] \subseteq transit[Transit[my[u].p]]
        <5>1. CASE Transit[p] = Transit[my[u].p]
          BY <2>3, <4>1, <5>1
        <5>2. CASE Transit[p] # Transit[my[u].p]
          BY <2>3, <4>1, <5>2
        <5>. QED
          BY <5>1, <5>2
      <4>. QED
        BY <2>2, <4>2
    <3>4. CASE Evict(t) /\ ~Evicts(t)
      BY <3>1, <3>4, EvictFails
    <3>. QED
      BY <3>1, <3>2, <3>3, <3>4, LocksStay
  <2>. QED
    BY <2>1, <2>4 DEF Sought
<1>. QED
  BY <1>1, <1>2 DEF Sought
\* A page is in a bucket because it was, because it came from its other bucket, or because
\* it has just been put in.
LEMMA HasStays ==
  ASSUME IInv, ~Overtaken, PoolConstants, NEW t \in Thread, Step(t), NEW b \in Bucket, NEW p, Has(b, p)'
  PROVE  \/ PutIn(t) /\ my[t].p = p
         \/ \E c \in Bucket : Has(c, p) /\ (\E h \in 1..2 : b = Hash[h][p]) /\ (\E h \in 1..2 : c = Hash[h][p])
<1>. TypeOK
  BY Parts
<1>1. PICK f : f \in Residents(b)' /\ cb'[f].pid = p
  BY DEF Has, Get
<1>2. InTable(f)'
  BY <1>1 DEF InTable
<1>3. CASE PutIn(t) /\ f = my[t].f
  <2>1. cb' = cb /\ cb[f].pid = my[t].p
    BY <1>3, InsertForms
  <2>. QED
    BY <1>1, <1>3, <2>1
<1>4. CASE ~(PutIn(t) /\ f = my[t].f)
  <2>1. InTable(f)
    BY <1>2, <1>4, InTableStays
  <2>2. PICK c \in Bucket : f \in Residents(c)
    BY <2>1 DEF InTable
  <2>3. f \in Frame /\ Has(c, cb[f].pid) /\ \E h \in 1..2 : c = Hash[h][cb[f].pid]
    BY <2>2, ResidentOK
  <2>4. cb[f].pid = p
    BY <1>1, <2>1, <2>3, ResidentName
  <2>5. \E h \in 1..2 : b = Hash[h][p]
    <3>1. SlotsFilled'
      BY SlotsKept
    <3>. QED
      BY <1>1, <3>1 DEF SlotsFilled, Slots, Residents
  <2>. QED
    BY <2>2, <2>3, <2>4, <2>5
<1>. QED
  BY <1>3, <1>4

\* A page that is not in the table comes there by insert only.
LEMMA AbsentStays ==
  ASSUME IInv, ~Overtaken, PoolConstants, NEW t \in Thread, Step(t), NEW p, Absent(p), ~(PutIn(t) /\ my[t].p = p)
  PROVE  Absent(p)'
<1>. TypeOK
  BY Parts
<1>. SUFFICES ASSUME NEW f \in Frame, InTable(f)', cb'[f].pid = p
              PROVE  FALSE
  BY DEF Absent
<1>1. PICK b \in Bucket : f \in Residents(b)'
  BY DEF InTable
<1>2. Has(b, p)'
  BY <1>1 DEF Has, Get
<1>3. PICK c \in Bucket : Has(c, p)
  BY <1>2, HasStays
<1>4. PICK g : g \in Residents(c) /\ cb[g].pid = p
  BY <1>3 DEF Has, Get
<1>5. g \in Frame /\ InTable(g)
  BY <1>4, ResidentOK
<1>. QED
  BY <1>4, <1>5 DEF Absent

\* Two rounds that found the same, and few moves between them: the page is not there.
LEMMA Settles ==
  ASSUME IInv, NEW t \in Thread, NotHere(t), place'[t] = "insert", FewMoves
  PROVE  Absent(my[t].p)
<1>. TypeOK /\ moved[t] \in [before : Nat, now : Nat] /\ Evades(t)
  BY Parts DEF TypeOK
<1>. DEFINE p == my[t].p
<1>1. /\ place[t] = "look" /\ ~Has(Here(t), p) /\ p \in Page /\ my[t].i = 2 /\ ~my[t].first
  BY NotHereForms
<1>. SUFFICES ASSUME NEW f \in Frame, InTable(f), cb[f].pid = p
              PROVE  FALSE
  BY DEF Absent
<1>2. PICK b \in Bucket : f \in Residents(b)
  BY DEF InTable
<1>3. Has(b, p)
  BY <1>2 DEF Has, Get
<1>4. b # Hash[2][p]
  BY <1>1, <1>3 DEF Here
<1>5. moved[t].before + moved[t].now >= 3
  BY <1>1, <1>3, <1>4 DEF Evades
<1>6. moved[t].before + moved[t].now <= 2
  BY <1>1 DEF FewMoves
<1>. QED
  BY <1>5, <1>6

\* A page that is about to be inserted is not in the table.
LEMMA MissingKept ==
  ASSUME IInv, ~Overtaken, PoolConstants, NEW t \in Thread, Step(t), FewMoves, NEW u \in Thread
  PROVE  Missing(u)'
<1>. TypeOK
  BY Parts
<1>. SUFFICES ASSUME place'[u] \in {"insert", "move"}, NEW p, p = my'[u].p, NEW f, f = my'[u].f
              PROVE  cb'[f].pid = p /\ Absent(p)'
  BY DEF Missing, Absent, InTable, Residents
<1>1. CASE u # t
  <2>1. place[u] \in {"insert", "move"} /\ p = my[u].p /\ f = my[u].f
    BY <1>1, OthersStay
  <2>2. cb[f].pid = p /\ Absent(p)
    BY <2>1, Parts DEF Missing
  <2>3. cb'[f].pid = cb[f].pid
    BY <1>1, <2>1, OwnedStays DEF Owning, Looking
  <2>4. ~(PutIn(t) /\ my[t].p = p)
    BY <1>1, <2>1, LooksAlone, Leads DEF From, Looking
  <2>. QED
    BY <2>2, <2>3, <2>4, AbsentStays
<1>2. CASE u = t
  <2>1. NotHere(t) \/ EnsureSpace(t) \/ Cuckold(t)
    BY <1>2, Goes DEF From
  <2>2. place[t] \in Looking /\ ~FoundAfterAll(t) /\ ~PutIn(t) /\ place'[t] # "out"
    BY <1>2, <2>1, Leads DEF From, Looking
  <2>3. p = my[t].p /\ f = my[t].f
    BY <1>2, <2>2, FrameStays DEF Owning
  <2>4. f \in Frame
    BY <2>2, <2>3, Parts DEF LocalsOK, Owning
  <2>5. CASE NotHere(t)
    <3>1. cb' = [cb EXCEPT ![f].pid = p]
      BY <1>2, <2>3, <2>5, NotHereForms
    <3>2. cb'[f].pid = p
      BY <2>4, <3>1 DEF TypeOK, Block
    <3>3. Absent(p)
      BY <1>2, <2>1, <2>3, <2>5, Settles, Leads DEF From
    <3>. QED
      BY <2>2, <3>2, <3>3, AbsentStays
  <2>6. CASE EnsureSpace(t) \/ Cuckold(t)
    <3>1. cb' = cb /\ place[t] \in {"insert", "move"}
      BY <2>6, EnsureForms, CuckoldForms, Zenon
    <3>2. cb[f].pid = p /\ Absent(p)
      BY <2>3, <3>1, Parts DEF Missing
    <3>. QED
      BY <2>2, <3>1, <3>2, AbsentStays
  <2>. QED
    BY <2>1, <2>5, <2>6
<1>. QED
  BY <1>1, <1>2
\* Where a page was before it is in a bucket now, when somebody looks for it.
LEMMA Moved ==
  ASSUME IInv, ~Overtaken, PoolConstants, NEW t \in Thread, Step(t), NEW u \in Thread, u # t, place[u] = "look",
         NEW p, p = my[u].p, NEW b \in Bucket, Has(b, p)'
  PROVE  \/ Has(b, p)
         \/ /\ HasMoved(p) /\ b \in {Hash[1][p], Hash[2][p]}
            /\ \E c \in Bucket \ {b} : Has(c, p) /\ c \in {Hash[1][p], Hash[2][p]}
<1>1. ~(PutIn(t) /\ my[t].p = p)
  <2>1. PutIn(t) => place[t] = "insert"
    BY DEF PutIn
  <2>. QED
    BY <2>1, LooksAlone DEF Looking
<1>2. PICK c \in Bucket : Has(c, p) /\ (\E h \in 1..2 : b = Hash[h][p]) /\ (\E h \in 1..2 : c = Hash[h][p])
  BY <1>1, HasStays
<1>3. CASE c # b
  <2>1. HasMoved(p)
    BY <1>2, <1>3 DEF HasMoved
  <2>2. b \in {Hash[1][p], Hash[2][p]} /\ c \in {Hash[1][p], Hash[2][p]}
    BY <1>2
  <2>. QED
    BY <1>2, <1>3, <2>1, <2>2
<1>. QED
  BY <1>2, <1>3

\* A page that was there and has not been found has been moved as often as that takes.
LEMMA EvadesKept ==
  ASSUME IInv, ~Overtaken, PoolConstants, NEW t \in Thread, Step(t), Count, NEW u \in Thread
  PROVE  Evades(u)'
<1>. TypeOK /\ moved[u] \in [before : Nat, now : Nat] /\ Evades(u) /\ my[u] \in Locals
  BY Parts DEF TypeOK
<1>. SUFFICES ASSUME place'[u] = "look", NEW p, p = my'[u].p, NEW b \in Bucket, Has(b, p)'
              PROVE  LET times == moved'[u].before + moved'[u].now
                     IN  /\ my'[u].i = 1 /\ ~my'[u].first => times >= IF b = Hash[1][p] THEN 1 ELSE 2
                         /\ my'[u].i = 2 /\ ~my'[u].first => times >= IF b = Hash[2][p] THEN 2 ELSE 3
                         /\ my'[u].i = 2 /\ b # Hash[2][p] => moved'[u].now >= 1
  BY Zenon DEF Evades, Has, Get, Residents
<1>1. CASE u # t
  <2>1. place[u] = "look" /\ my'[u] = my[u] /\ p = my[u].p
    BY <1>1, OthersStay
  <2>2. ~NextRound(u)
    BY <2>1 DEF NextRound
  <2>3. moved'[u] = IF HasMoved(p) THEN [moved[u] EXCEPT !.now = @ + 1] ELSE moved[u]
    BY <2>1, <2>2 DEF Count
  <2>4. /\ moved'[u].before = moved[u].before
        /\ moved'[u].now >= moved[u].now /\ moved'[u].now \in Nat
        /\ HasMoved(p) => moved'[u].now = moved[u].now + 1
    BY <2>3
  <2>5. moved[u].before \in Nat /\ moved[u].now \in Nat
    OBVIOUS
  <2>6. ASSUME NEW c \in Bucket, Has(c, p)
        PROVE  /\ my[u].i = 1 /\ ~my[u].first => moved[u].before + moved[u].now >= IF c = Hash[1][p] THEN 1 ELSE 2
               /\ my[u].i = 2 /\ ~my[u].first => moved[u].before + moved[u].now >= IF c = Hash[2][p] THEN 2 ELSE 3
               /\ my[u].i = 2 /\ c # Hash[2][p] => moved[u].now >= 1
    BY <2>1, <2>6 DEF Evades
  <2>7. CASE Has(b, p)
    BY ONLY <2>1, <2>4, <2>5, <2>6, <2>7, b \in Bucket
  <2>8. CASE ~Has(b, p)
    <3>1. PICK c \in Bucket \ {b} : Has(c, p) /\ c \in {Hash[1][p], Hash[2][p]} /\ b \in {Hash[1][p], Hash[2][p]} /\ HasMoved(p)
      BY <1>1, <2>1, <2>8, Moved
    <3>. QED
      BY ONLY <2>1, <2>4, <2>5, <2>6, <3>1, b \in Bucket
  <2>. QED
    BY <2>7, <2>8
<1>2. CASE u = t /\ AwaitTransit(t)
  <2>1. my'[u].i = 1 /\ my'[u].first
    BY <1>2, Parts DEF AwaitTransit, LocalsOK
  <2>. QED
    BY <2>1
<1>3. CASE u = t /\ NotHere(t)
  <2>1. /\ place[u] = "look" /\ ~Has(Here(u), p) /\ p = my[u].p /\ p \in Page /\ cb' = cb /\ UNCHANGED table
        /\ \/ my[u].i = 1 /\ my'[u].i = 2 /\ my'[u].first = my[u].first
           \/ my[u].i = 2 /\ my'[u].i = 1 /\ my'[u].first = FALSE
    <3>1. my'[u].p = my[u].p
      BY <1>3, ModeStays, Leads DEF From
    <3>2. place \in [Thread -> Steps] /\ place'[t] = "look" /\ p = my'[t].p /\ u = t
      BY <1>3 DEF TypeOK
    <3>3. ~(place' = [place EXCEPT ![t] = "insert"])
      BY ONLY <3>2
    <3>. QED
      BY ONLY IInv, t \in Thread, <1>3, <3>1, <3>2, <3>3, NotHereForms
  <2>2. Has(b, p) /\ b # Here(u)
    BY <2>1 DEF Has, Get, Residents
  <2>3. b \in {Hash[1][p], Hash[2][p]}
    <3>1. PICK f : f \in Residents(b) /\ cb[f].pid = p
      BY <2>2 DEF Has, Get
    <3>. QED
      BY <3>1, ResidentOK
  <2>4. CASE my[u].i = 1
    <3>1. b = Hash[2][p] /\ b # Hash[1][p] /\ my'[u].i = 2 /\ my'[u].first = my[u].first
      BY <2>1, <2>2, <2>3, <2>4 DEF Here
    <3>2. moved'[u].before + moved'[u].now >= moved[u].before + moved[u].now
      <4>1. ~NextRound(u)
        BY <2>4 DEF NextRound
      <4>2. moved'[u] = IF HasMoved(p) THEN [moved[u] EXCEPT !.now = @ + 1] ELSE moved[u]
        BY <2>1, <4>1 DEF Count
      <4>. QED
        BY <4>2
    <3>3. ~my[u].first => moved[u].before + moved[u].now >= 2
      BY <2>1, <2>2, <2>4, <3>1 DEF Evades
    <3>4. moved'[u].before + moved'[u].now \in Nat
      <4>1. moved' \in [Thread -> [before : Nat, now : Nat]]
        BY MovedTyped
      <4>. QED
        BY <4>1
    <3>. QED
      BY <3>1, <3>2, <3>3, <3>4
  <2>5. CASE my[u].i = 2
    <3>1. b = Hash[1][p] /\ b # Hash[2][p] /\ my'[u].i = 1 /\ my'[u].first = FALSE
      BY <2>1, <2>2, <2>3, <2>5 DEF Here
    <3>2. moved'[u] = [before |-> moved[u].now, now |-> 0]
      BY <2>1, <2>5, <3>1 DEF Count, NextRound
    <3>3. moved[u].now >= 1
      BY <2>1, <2>2, <2>5, <3>1 DEF Evades
    <3>. QED
      BY <3>1, <3>2, <3>3
  <2>. QED
    BY <2>1, <2>4, <2>5
<1>. QED
  <2>1. u = t => AwaitTransit(t) \/ NotHere(t)
    BY Goes DEF From
  <2>. QED
    BY <1>1, <1>2, <1>3, <2>1
-----------------------------------------------------------------------------
\* What replacement has emptied keeps its page's name until it is published.
LEMMA LeavesStays ==
  ASSUME IInv, ~Overtaken, PoolConstants, NEW t \in Thread, Step(t), NEW u \in Thread, place'[u] \in Emptying,
         NEW f, f = my'[u].f
  PROVE  \/ /\ place[u] \in Emptying /\ f = my[u].f /\ f \in Frame
            /\ cb'[f].old = cb[f].old /\ cb'[f].pid = cb[f].pid /\ cb'[f].page = cb[f].page /\ cb'[f].ver = cb[f].ver
            /\ cb'[f].dirty = cb[f].dirty \/ (u = t /\ ReplaceOut(t))
         \/ u = t /\ Evicts(t) /\ f = my[t].f
<1>. TypeOK
  BY Parts
<1>1. CASE u # t
  <2>1. place[u] \in Emptying /\ f = my[u].f
    BY <1>1, OthersStay
  <2>2. place[u] \in Owning
    BY <2>1 DEF Owning
  <2>. QED
    BY <1>1, <2>1, <2>2, OwnedStays
<1>2. CASE u = t /\ ~Evict(t)
  <2>1. VictimClean(t) \/ VictimDirty(t) \/ ReplaceOut(t)
    BY <1>2, Goes DEF From, Emptying
  <2>2. place[t] \in Emptying /\ place'[t] # "out" /\ ~FoundAfterAll(t) /\ place[t] \in Owning
    BY <2>1, Leads DEF From, Emptying, Owning
  <2>3. f = my[t].f /\ f \in Frame
    BY <1>2, <2>2, FrameStays, Parts DEF LocalsOK
  <2>4. cb'[f].old = cb[f].old
    BY <1>2, <2>1, <2>3, OldStays, Leads DEF From
  <2>5. cb'[f].pid = cb[f].pid
    BY <2>1, <2>3, PidStays, Leads DEF From
  <2>6. cb'[f].page = cb[f].page /\ cb'[f].ver = cb[f].ver
    BY <2>1, <2>3, PageStays, Leads DEF From
  <2>7. cb'[f].dirty = cb[f].dirty \/ ReplaceOut(t)
    BY <2>1, <2>3, DirtyStays, Leads DEF From
  <2>. QED
    BY <1>2, <2>2, <2>3, <2>4, <2>5, <2>6, <2>7
<1>3. CASE u = t /\ Evict(t)
  <2>1. Evicts(t)
    BY <1>3, EvictFails DEF Emptying
  <2>. QED
    BY <1>3, <2>1, EvictsForms
<1>. QED
  BY <1>1, <1>2, <1>3

\* A page that is being updated, or written by a cleaner, is in the table.
LEMMA UsedPage ==
  ASSUME IInv, NEW t \in Thread, place[t] \in Using
  PROVE  my[t].f \in Frame /\ InTable(my[t].f) /\ cb[my[t].f].pid = my[t].p /\ my[t].p \in Page /\ ~Absent(my[t].p)
BY Parts DEF Used, LocalsOK, Using, Reading, Absent

\* An update makes the next version of a page in the table, and makes it dirty.
LEMMA UpdateForms ==
  ASSUME IInv, NEW t \in Thread, Update(t), NEW f, f = my[t].f
  PROVE  /\ place[t] = "fixed" /\ f \in Frame /\ InTable(f) /\ cb[f].pid = my[t].p /\ my[t].p \in Page /\ UNCHANGED table
         /\ latest' = [latest EXCEPT ![my[t].p] = cb[f].ver + 1] /\ disk' = disk
         /\ cb'[f].ver = cb[f].ver + 1 /\ cb'[f].dirty = TRUE /\ cb'[f].page = cb[f].page
         /\ latest'[my[t].p] = cb[f].ver + 1
<1>. TypeOK /\ cb \in [Frame -> Block] /\ latest \in [Page -> Nat]
  BY Parts DEF TypeOK
<1>1. /\ place[t] = "fixed" /\ latest' = [latest EXCEPT ![my[t].p] = cb[f].ver + 1] /\ disk' = disk
      /\ cb' = [cb EXCEPT ![f].ver = @ + 1, ![f].dirty = TRUE] /\ table' = table
  BY DEF Update
<1>2. f \in Frame /\ InTable(f) /\ cb[f].pid = my[t].p /\ my[t].p \in Page
  BY <1>1, UsedPage DEF Using, Reading
<1>3. cb[f] \in Block
  BY <1>2
<1>. QED
  BY <1>1, <1>2, <1>3 DEF Block

\* A page that is not in the table is not updated.
LEMMA LatestStays ==
  ASSUME IInv, NEW t \in Thread, Step(t), NEW p \in Page, Absent(p)
  PROVE  latest'[p] = latest[p]
<1>1. CASE Update(t)
  <2>1. latest' = [latest EXCEPT ![my[t].p] = cb[my[t].f].ver + 1] /\ my[t].p # p
    <3>1. place[t] = "fixed" /\ latest' = [latest EXCEPT ![my[t].p] = cb[my[t].f].ver + 1]
      BY <1>1 DEF Update
    <3>2. ~Absent(my[t].p)
      BY <3>1, UsedPage DEF Using, Reading
    <3>. QED
      BY <3>1, <3>2
  <2>. latest \in [Page -> Nat]
    BY Parts DEF TypeOK
  <2>. QED
    BY <2>1
<1>. QED
  BY <1>1, StoreStays

\* A dirty page that leaves stays in transit until it is written, if nobody else takes it out.
LEMMA TransitStays ==
  ASSUME IInv, ~Overtaken, PoolConstants, NEW t \in Thread, Step(t), NEW u \in Thread, Leaves(u), OwnTransit,
         NEW p, p = cb[my[u].f].old
  PROVE  p \in transit'[Transit[p]]
<1>. TypeOK /\ transit \in [TransitBucket -> SUBSET Page] /\ Leaving(u)
  BY Parts DEF TypeOK
<1>1. p \in Page /\ p \in transit[Transit[p]]
  BY DEF Leaving, Leaves, Emptying
<1>2. Transit[p] \in TransitBucket
  BY <1>1, TransitTyped
<1>3. CASE Evicts(t)
  <2>1. \/ transit' = transit
        \/ transit' = [transit EXCEPT ![Transit[my[t].victim]] = @ \union {my[t].victim}]
    BY <1>3, EvictsForms
  <2>. QED
    BY ONLY <2>1, <1>1, <1>2, transit \in [TransitBucket -> SUBSET Page]
<1>4. CASE PublishPartial(t)
  <2>1. t # u /\ Publishes(t)
    BY <1>4, Leads DEF From, Publishes, Leaves
  <2>2. cb[my[t].f].old # p
    BY <2>1 DEF OwnTransit
  <2>3. transit' = [transit EXCEPT ![Transit[cb[my[t].f].old]] = @ \ {cb[my[t].f].old}]
    BY <1>4 DEF PublishPartial
  <2>. QED
    BY ONLY <2>2, <2>3, <1>1, <1>2, transit \in [TransitBucket -> SUBSET Page]
<1>5. CASE Evict(t) /\ ~Evicts(t)
  BY <1>1, <1>5, EvictFails
<1>. QED
  BY <1>1, <1>3, <1>4, <1>5, LocksStay

\* What leaves is the last version, in transit, and not in the table, until it is written.
LEMMA LeavingKept ==
  ASSUME IInv, ~Overtaken, PoolConstants, NEW t \in Thread, Step(t), OwnTransit, NEW u \in Thread
  PROVE  Leaving(u)'
<1>. TypeOK
  BY Parts
<1>. SUFFICES ASSUME NEW f, f = my'[u].f, NEW o, o = cb'[f].old, place'[u] \in Emptying
              PROVE  /\ o \in Page /\ cb'[f].pid = o
                     /\ place'[u] = "write" => cb'[f].dirty
                     /\ place'[u] \in {"evicted", "write"} /\ cb'[f].dirty =>
                          /\ cb'[f].page = o /\ cb'[f].ver = latest'[o]
                          /\ o \in transit'[Transit[o]] /\ Absent(o)'
  BY DEF Leaving, Leaves, Absent, InTable, Residents, Emptying
<1>1. CASE place[u] \in Emptying /\ f = my[u].f /\ ~(u = t /\ Evicts(t))
  <2>1. /\ f \in Frame /\ o = cb[f].old /\ cb'[f].pid = cb[f].pid /\ cb'[f].page = cb[f].page /\ cb'[f].ver = cb[f].ver
        /\ cb'[f].dirty = cb[f].dirty \/ (u = t /\ ReplaceOut(t))
    BY <1>1, LeavesStays
  <2>2. o \in Page /\ cb'[f].pid = o
    BY <1>1, <2>1, Parts DEF Leaving
  <2>3. ReplaceOut(t) /\ u = t => place'[u] = "partial"
    BY Leads DEF From
  <2>4. place'[u] = "write" => cb'[f].dirty
    <3>1. CASE u # t
      BY <1>1, <2>1, <3>1, OthersStay, Parts DEF Leaving
    <3>2. CASE u = t /\ place'[t] = "write"
      <4>1. VictimDirty(t)
        BY <3>2, Goes DEF From
      <4>. QED
        BY <1>1, <3>2, <4>1 DEF VictimDirty
    <3>. QED
      BY <3>1, <3>2
  <2>5. ASSUME place'[u] \in {"evicted", "write"}, cb'[f].dirty
        PROVE  cb'[f].page = o /\ cb'[f].ver = latest'[o] /\ o \in transit'[Transit[o]] /\ Absent(o)'
    <3>1. place[u] \in {"evicted", "write"}
      BY <1>1, <2>5, OthersStay, Goes DEF From, Emptying
    <3>2. Leaves(u)
      BY <1>1, <2>1, <2>3, <2>5, <3>1 DEF Leaves
    <3>3. cb[f].page = o /\ cb[f].ver = latest[o] /\ o \in transit[Transit[o]] /\ Absent(o)
      BY <1>1, <2>1, <3>2, Parts DEF Leaving
    <3>4. o \in transit'[Transit[o]]
      BY <1>1, <2>1, <3>2, TransitStays
    <3>5. ~(PutIn(t) /\ my[t].p = o)
      <4>1. PutIn(t) => place[t] = "insert"
        BY DEF PutIn
      <4>. QED
        BY <3>3, <4>1, Parts DEF Sought, Looking
    <3>6. Absent(o)'
      BY <3>3, <3>5, AbsentStays
    <3>. QED
      BY <2>1, <2>2, <3>3, <3>4, <3>6, LatestStays
  <2>. QED
    BY <2>2, <2>4, <2>5
<1>2. CASE u = t /\ Evicts(t)
  <2>. PICK v : v = my[t].victim
    OBVIOUS
  <2>1. /\ f \in Frame /\ v \in Page /\ f = my[t].f /\ InTable(f) /\ cb[f].pid = v /\ cb[f].pin = 0
        /\ cb' = [cb EXCEPT ![f].held[t] = "EX", ![f].old = v] /\ place'[t] = "evicted"
        /\ transit' = IF cb[f].dirty THEN [transit EXCEPT ![Transit[v]] = @ \union {v}] ELSE transit
        /\ \A g : InTable(g)' <=> InTable(g) /\ g # f
        /\ latest' = latest
    BY <1>2, EvictsForms DEF store, Evicts
  <2>2. o = v /\ cb'[f].pid = v /\ cb'[f].page = cb[f].page /\ cb'[f].ver = cb[f].ver /\ cb'[f].dirty = cb[f].dirty
    <3>1. cb[f] \in Block /\ cb \in [Frame -> Block]
      BY <2>1 DEF TypeOK
    <3>. QED
      BY <2>1, <3>1 DEF Block
  <2>3. ~IsRead(f)
    BY <2>1, PinCounts DEF IsRead, Pinning
  <2>4. cb[f].page = v /\ cb[f].ver = latest[v]
    BY <2>1, <2>3 DEF IInv, Current
  <2>5. cb[f].dirty => v \in transit'[Transit[v]]
    <3>1. Transit[v] \in TransitBucket /\ transit \in [TransitBucket -> SUBSET Page]
      BY <2>1, TransitTyped DEF TypeOK
    <3>. QED
      BY <2>1, <3>1
  <2>6. Absent(v)'
    <3>. SUFFICES ASSUME NEW g \in Frame, InTable(g)', cb'[g].pid = v
                  PROVE  FALSE
      BY DEF Absent
    <3>1. InTable(g) /\ g # f
      BY <2>1
    <3>2. cb[g].pid = v
      BY <3>1, ResidentName
    <3>. QED
      BY <2>1, <3>1, <3>2, ResidentOnce DEF InTable
  <2>. QED
    BY <1>2, <2>1, <2>2, <2>4, <2>5, <2>6, Zenon
<1>. QED
  BY <1>1, <1>2, LeavesStays
\* No page leaves from two frames at once.
LEMMA LeavesOnceKept ==
  ASSUME IInv, ~Overtaken, PoolConstants, NEW t \in Thread, Step(t)
  PROVE  LeavesOnce'
<1>. TypeOK
  BY Parts
<1>. SUFFICES ASSUME NEW u \in Thread, NEW v \in Thread, Leaves(u)', Leaves(v)',
                     NEW f, f = my'[u].f, NEW g, g = my'[v].f, cb'[f].old = cb'[g].old, u # v
              PROVE  FALSE
  BY DEF LeavesOnce, Leaves
\* Who leaves already, and who leaves now.
<1>1. ASSUME NEW w \in Thread, NEW h, h = my'[w].f, Leaves(w)', ~(w = t /\ Evicts(t))
      PROVE  Leaves(w) /\ h = my[w].f /\ cb'[h].old = cb[h].old
  <2>1. place'[w] \in {"evicted", "write"} /\ cb'[h].dirty
    BY <1>1 DEF Leaves
  <2>2. /\ place[w] \in Emptying /\ h = my[w].f /\ cb'[h].old = cb[h].old
        /\ cb'[h].dirty = cb[h].dirty \/ (w = t /\ ReplaceOut(t))
    <3>1. place'[w] \in Emptying
      BY <2>1 DEF Emptying
    <3>. QED
      BY <1>1, <3>1, LeavesStays
  <2>3. ~(w = t /\ ReplaceOut(t))
    BY <2>1, Leads DEF From
  <2>4. place[w] # "partial"
    BY <2>1, OthersStay, Goes DEF From
  <2>. QED
    BY <2>1, <2>2, <2>3, <2>4 DEF Leaves, Emptying
<1>2. ASSUME NEW w \in Thread, w = t, Evicts(t), NEW h, h = my'[w].f, Leaves(w)', NEW x \in Thread, x # t, Leaves(x)',
             NEW k, k = my'[x].f, cb'[k].old = cb'[h].old
      PROVE  FALSE
  <2>1. Leaves(x) /\ k = my[x].f /\ cb'[k].old = cb[k].old
    BY <1>1, <1>2
  <2>2. PICK p : p = my[t].victim
    OBVIOUS
  <2>3. /\ h \in Frame /\ p \in Page /\ h = my[t].f
        /\ (cb[h].dirty => transit[Transit[p]] = {})
        /\ cb' = [cb EXCEPT ![h].held[t] = "EX", ![h].old = p]
    BY <1>2, <2>2, EvictsForms
  <2>4. cb'[h].old = p /\ cb'[h].dirty = cb[h].dirty
    <3>1. cb[h] \in Block /\ cb \in [Frame -> Block]
      BY <2>3 DEF TypeOK
    <3>. QED
      BY <2>3, <3>1 DEF Block
  <2>5. cb[h].dirty
    BY <1>2, <2>4 DEF Leaves
  <2>6. p \in transit[Transit[p]]
    BY <1>2, <2>1, <2>4, Parts DEF Leaving
  <2>. QED
    BY <2>3, <2>5, <2>6
<1>3. CASE u = t /\ Evicts(t)
  BY <1>2, <1>3
<1>4. CASE v = t /\ Evicts(t)
  BY <1>2, <1>4
<1>5. CASE ~(u = t /\ Evicts(t)) /\ ~(v = t /\ Evicts(t))
  <2>1. Leaves(u) /\ f = my[u].f /\ cb'[f].old = cb[f].old
    BY <1>1, <1>5
  <2>2. Leaves(v) /\ g = my[v].f /\ cb'[g].old = cb[g].old
    BY <1>1, <1>5
  <2>. QED
    BY <2>1, <2>2 DEF IInv, LeavesOnce
<1>. QED
  BY <1>3, <1>4, <1>5

\* The cleaner writes its copy of a page in the table, which is the last version unless the page is
\* dirty again.
LEMMA WriteOutForms ==
  ASSUME IInv, NEW t \in Thread, WriteOut(t), NEW f, f = my[t].f
  PROVE  /\ place[t] = "flush" /\ f \in Frame /\ InTable(f) /\ cb[f].pid = my[t].p /\ my[t].p \in Page
         /\ disk' = [disk EXCEPT ![my[t].p] = my[t].copy] /\ disk'[my[t].p] = my[t].copy /\ latest' = latest
         /\ cb[f].writing /\ (~cb[f].dirty => my[t].copy = cb[f].ver)
         /\ cb'[f].writing = FALSE /\ UNCHANGED table
<1>. TypeOK /\ cb \in [Frame -> Block] /\ disk \in [Page -> Nat]
  BY Parts DEF TypeOK
<1>1. /\ place[t] = "flush" /\ disk' = [disk EXCEPT ![my[t].p] = my[t].copy] /\ latest' = latest /\ table' = table
      /\ cb' = [cb EXCEPT ![f].writing = FALSE]
  BY DEF WriteOut
<1>2. f \in Frame /\ InTable(f) /\ cb[f].pid = my[t].p /\ my[t].p \in Page
  BY <1>1, UsedPage DEF Using
<1>3. my[t].copy > 0
  BY <1>1, Parts DEF LocalsOK
<1>4. cb[f].writing /\ (~cb[f].dirty => my[t].copy = cb[f].ver)
  BY <1>3, Parts DEF Copied
<1>5. cb[f] \in Block
  BY <1>2
<1>. QED
  BY <1>1, <1>2, <1>4, <1>5 DEF Block

\* _replace_out writes the last version of a page that is in transit.
LEMMA ReplaceOutForms ==
  ASSUME IInv, NEW t \in Thread, ReplaceOut(t), NEW f, f = my[t].f, NEW o, o = cb[f].old
  PROVE  /\ Leaves(t) /\ f \in Frame /\ o \in Page /\ Absent(o) /\ UNCHANGED table
         /\ disk' = [disk EXCEPT ![o] = latest[o]] /\ disk'[o] = latest[o] /\ latest' = latest
         /\ ~InTable(f) /\ o \in transit[Transit[o]]
<1>. TypeOK /\ disk \in [Page -> Nat]
  BY Parts DEF TypeOK
<1>1. place[t] = "write" /\ disk' = [disk EXCEPT ![cb[f].page] = cb[f].ver] /\ latest' = latest /\ table' = table
  BY DEF ReplaceOut
<1>2. Leaves(t) /\ o \in Page
  BY <1>1, Parts DEF Leaving, Leaves, Emptying
<1>3. cb[f].page = o /\ cb[f].ver = latest[o] /\ Absent(o) /\ o \in transit[Transit[o]]
  BY <1>2, Parts DEF Leaving
<1>4. f \in Frame /\ ~InTable(f)
  BY <1>1, Parts DEF LocalsOK, Owned, Owning, Emptying
<1>. QED
  BY <1>1, <1>2, <1>3, <1>4

\* Of a page in the table, nobody but its frame's cleaner writes, and nobody but its fixer makes, a version.
LEMMA VersionsStay ==
  ASSUME IInv, ~Overtaken, PoolConstants, NEW t \in Thread, Step(t), NEW f \in Frame, InTable(f), NEW p, p = cb[f].pid
  PROVE  /\ p \in Page
         /\ disk'[p] = disk[p] \/ (WriteOut(t) /\ f = my[t].f)
         /\ latest'[p] = latest[p] \/ (Update(t) /\ f = my[t].f)
<1>. TypeOK /\ disk \in [Page -> Nat] /\ latest \in [Page -> Nat]
  BY Parts DEF TypeOK
<1>1. PICK b \in Bucket : f \in Residents(b)
  BY DEF InTable
<1>2. p \in Page
  BY <1>1, ResidentOK
<1>3. ASSUME NEW g \in Frame, InTable(g), cb[g].pid = p
      PROVE  g = f
  BY <1>1, <1>3, ResidentOnce DEF InTable
<1>4. disk'[p] = disk[p] \/ (WriteOut(t) /\ f = my[t].f)
  <2>1. CASE WriteOut(t)
    <3>1. PICK g, q : g = my[t].f /\ q = my[t].p
      OBVIOUS
    <3>2. place[t] \in Using /\ disk' = [disk EXCEPT ![q] = my[t].copy]
      BY <2>1, <3>1 DEF WriteOut, Using
    <3>3. g \in Frame /\ InTable(g) /\ cb[g].pid = q
      BY <3>1, <3>2, UsedPage
    <3>. QED
      BY <1>2, <1>3, <2>1, <3>1, <3>2, <3>3
  <2>2. CASE ReplaceOut(t)
    <3>1. PICK o : o = cb[my[t].f].old
      OBVIOUS
    <3>2. Absent(o) /\ disk' = [disk EXCEPT ![o] = latest[o]]
      BY <2>2, <3>1, ReplaceOutForms
    <3>3. o # p
      BY <3>2 DEF Absent
    <3>. QED
      BY <1>2, <3>2, <3>3
  <2>. QED
    BY <2>1, <2>2, StoreStays
<1>5. latest'[p] = latest[p] \/ (Update(t) /\ f = my[t].f)
  <2>1. CASE Update(t)
    <3>1. PICK g, q : g = my[t].f /\ q = my[t].p
      OBVIOUS
    <3>2. place[t] \in Using /\ latest' = [latest EXCEPT ![q] = cb[g].ver + 1]
      BY <2>1, <3>1 DEF Update, Using, Reading
    <3>3. g \in Frame /\ InTable(g) /\ cb[g].pid = q
      BY <3>1, <3>2, UsedPage
    <3>. QED
      BY <1>2, <1>3, <2>1, <3>1, <3>2, <3>3
  <2>. QED
    BY <2>1, StoreStays
<1>. QED
  BY <1>2, <1>4, <1>5
-----------------------------------------------------------------------------
\* get_page reads a page into its frame in the table.
LEMMA ReadForms ==
  ASSUME IInv, NEW t \in Thread, Read(t), NEW f, f = my[t].f
  PROVE  /\ place[t] = "read" /\ f \in Frame /\ InTable(f) /\ cb[f].pid = my[t].p /\ my[t].p \in Page
         /\ cb'[f].page = my[t].p /\ cb'[f].ver = disk[my[t].p] /\ UNCHANGED store
<1>. TypeOK /\ cb \in [Frame -> Block] /\ disk \in [Page -> Nat]
  BY Parts DEF TypeOK
<1>1. place[t] = "read" /\ UNCHANGED store
  BY DEF Read
<1>2. f \in Frame /\ InTable(f) /\ cb[f].pid = my[t].p /\ my[t].p \in Page
  BY <1>1, UsedPage DEF Using
<1>3. cb' = [cb EXCEPT ![f].page = my[t].p, ![f].ver = disk[my[t].p], ![f].held[t] = my[t].mode]
  BY DEF Read
<1>4. cb[f] \in Block
  BY <1>2
<1>. QED
  BY <1>1, <1>2, <1>3, <1>4 DEF Block

\* The cleaner takes a copy and marks the page clean, or finds it clean already.
LEMMA CopyForms ==
  ASSUME IInv, NEW t \in Thread, Copy(t), NEW f, f = my[t].f
  PROVE  /\ place[t] = "copy" /\ f \in Frame /\ InTable(f) /\ UNCHANGED store
         /\ \/ /\ cb[f].dirty /\ cb'[f].writing = TRUE /\ cb'[f].dirty = FALSE /\ cb'[f].ver = cb[f].ver
               /\ my'[t].copy = cb[f].ver /\ my'[t].f = f
            \/ cb' = cb /\ my' = my
<1>. TypeOK /\ cb \in [Frame -> Block] /\ my \in [Thread -> Locals] /\ my[t] \in Locals
  BY Parts DEF TypeOK
<1>1. place[t] = "copy" /\ UNCHANGED store
  BY DEF Copy, store
<1>2. f \in Frame /\ InTable(f)
  BY <1>1, UsedPage DEF Using, Reading
<1>3. \/ cb[f].dirty /\ cb' = [cb EXCEPT ![f].writing = TRUE, ![f].dirty = FALSE] /\ my' = [my EXCEPT ![t].copy = cb[f].ver]
      \/ cb' = cb /\ my' = my
  BY DEF Copy
<1>4. cb[f] \in Block
  BY <1>2
<1>5. CASE cb' = cb /\ my' = my
  BY <1>1, <1>2, <1>5
<1>6. CASE cb[f].dirty /\ cb' = [cb EXCEPT ![f].writing = TRUE, ![f].dirty = FALSE] /\ my' = [my EXCEPT ![t].copy = cb[f].ver]
  <2>1. cb'[f].writing = TRUE /\ cb'[f].dirty = FALSE /\ cb'[f].ver = cb[f].ver
    BY <1>2, <1>4, <1>6 DEF Block
  <2>2. my'[t] = [my[t] EXCEPT !.copy = cb[f].ver]
    BY <1>6
  <2>3. my'[t].copy = cb[f].ver /\ my'[t].f = f
    BY <2>2 DEF Locals
  <2>. QED
    BY <1>1, <1>2, <1>6, <2>1, <2>2, <2>3
<1>. QED
  BY <1>3, <1>5, <1>6

\* The name of the page, and the version, of what is in the table stay; or it is read, or updated.
LEMMA CurrentKept ==
  ASSUME IInv, ~Overtaken, PoolConstants, NEW t \in Thread, Step(t)
  PROVE  Current'
<1>. TypeOK /\ disk \in [Page -> Nat] /\ latest \in [Page -> Nat] /\ cb \in [Frame -> Block]
  BY Parts DEF TypeOK
<1>. SUFFICES ASSUME NEW f \in Frame, InTable(f)', ~IsRead(f)', NEW p, p = cb'[f].pid
              PROVE  cb'[f].page = p /\ cb'[f].ver = latest'[p]
                     /\ (cb'[f].dirty \/ cb'[f].writing \/ disk'[p] = latest'[p])
  BY DEF Current, IsRead, InTable, Residents
<1>1. InTable(f)
  <2>1. ~(PutIn(t) /\ f = my[t].f)
    <3>. SUFFICES ASSUME PutIn(t), f = my[t].f PROVE FALSE
      OBVIOUS
    <3>1. place'[t] = "read" /\ my'[t].f = f
      BY Leads, InsertForms DEF From
    <3>. QED
      BY <3>1 DEF IsRead
  <2>. QED
    BY <2>1, InTableStays
<1>2. p = cb[f].pid
  BY <1>1, ResidentName
<1>3. p \in Page /\ (disk'[p] = disk[p] \/ (WriteOut(t) /\ f = my[t].f)) /\ (latest'[p] = latest[p] \/ (Update(t) /\ f = my[t].f))
  BY <1>1, <1>2, VersionsStay
<1>4. CASE IsRead(f)
  <2>1. PICK u \in Thread : place[u] = "read" /\ my[u].f = f
    BY <1>4 DEF IsRead
  <2>2. u = t /\ Read(t)
    <3>1. u = t
      BY <2>1, OthersStay DEF IsRead
    <3>. QED
      BY <2>1, <3>1, Goes DEF From
  <2>3. cb[f].pid = my[t].p /\ cb'[f].page = my[t].p /\ cb'[f].ver = disk[my[t].p] /\ UNCHANGED store
    BY <2>1, <2>2, ReadForms
  <2>4. disk[p] = latest[p]
    BY <1>2, <2>1, <2>2, <2>3, Parts DEF Fetched
  <2>. QED
    BY <1>2, <2>3, <2>4 DEF store
<1>5. CASE ~IsRead(f)
  <2>1. cb[f].page = p /\ cb[f].ver = latest[p] /\ (cb[f].dirty \/ cb[f].writing \/ disk[p] = latest[p])
    BY <1>1, <1>2, <1>5 DEF IInv, Current
  <2>2. CASE Update(t) /\ f = my[t].f
    <3>2. cb[f].pid = my[t].p /\ cb'[f].ver = cb[f].ver + 1 /\ cb'[f].dirty = TRUE /\ cb'[f].page = cb[f].page /\ latest'[my[t].p] = cb[f].ver + 1
      BY <2>2, UpdateForms
    <3>. QED
      BY <1>2, <2>1, <3>2
  <2>3. CASE WriteOut(t) /\ f = my[t].f
    <3>2. cb[f].pid = my[t].p /\ disk'[my[t].p] = my[t].copy /\ latest' = latest /\ (~cb[f].dirty => my[t].copy = cb[f].ver)
      BY <2>3, WriteOutForms
    <3>3. cb'[f].page = cb[f].page /\ cb'[f].ver = cb[f].ver /\ cb'[f].dirty = cb[f].dirty
      BY <1>1, <2>3, PageStays, DirtyStays, Leads DEF From, IInv, Unused
    <3>. QED
      BY <1>2, <2>1, <3>2, <3>3
  <2>4. CASE Copy(t) /\ f = my[t].f
    <3>1. cb'[f].page = cb[f].page /\ cb'[f].ver = cb[f].ver
      BY <2>4, PageStays, Leads DEF From
    <3>2. disk'[p] = disk[p] /\ latest'[p] = latest[p]
      BY <2>4, CopyForms DEF store
    <3>3. cb'[f].writing = TRUE \/ cb' = cb
      BY <2>4, CopyForms
    <3>. QED
      BY <2>1, <3>1, <3>2, <3>3
  <2>5. CASE ~(f = my[t].f /\ (Update(t) \/ WriteOut(t) \/ Copy(t)))
    <3>1. ~(Read(t) /\ f = my[t].f)
      BY <1>5, Leads DEF From, IsRead
    <3>2. cb'[f].page = cb[f].page /\ cb'[f].ver = cb[f].ver
      BY <2>5, <3>1, PageStays
    <3>3. f \notin unused /\ ~(ReplaceOut(t) /\ f = my[t].f)
      BY <1>1, ReplaceOutForms DEF IInv, Unused
    <3>4. cb'[f].dirty = cb[f].dirty
      BY <2>5, <3>3, DirtyStays
    <3>5. cb'[f].writing = cb[f].writing
      BY <2>5, WritingStays
    <3>. QED
      BY <1>3, <2>1, <2>5, <3>2, <3>4, <3>5
  <2>. QED
    BY <2>2, <2>3, <2>4, <2>5
<1>. QED
  BY <1>4, <1>5

\* A page that is to be read in has its last version on disk.
LEMMA FetchedKept ==
  ASSUME IInv, ~Overtaken, PoolConstants, NEW t \in Thread, Step(t), NEW u \in Thread
  PROVE  Fetched(u)'
<1>. TypeOK
  BY Parts
<1>. SUFFICES ASSUME place'[u] = "read", NEW f, f = my'[u].f, NEW p, p = my'[u].p
              PROVE  disk'[p] = latest'[p] /\ ~cb'[f].writing
  BY DEF Fetched
<1>1. CASE u # t
  <2>1. place[u] = "read" /\ f = my[u].f /\ p = my[u].p
    BY <1>1, OthersStay
  <2>2. disk[p] = latest[p] /\ ~cb[f].writing
    BY <2>1, Parts DEF Fetched
  <2>3. f \in Frame /\ InTable(f) /\ cb[f].pid = p
    BY <2>1, UsedPage DEF Using
  <2>4. f = my[t].f => place[t] \notin Owning \union Reading
    BY <1>1, <2>1, Alone
  <2>5. ~((Copy(t) \/ Update(t)) /\ f = my[t].f)
    BY <2>4, Leads DEF From, Reading
  <2>6. ~(WriteOut(t) /\ f = my[t].f)
    BY <2>2, WriteOutForms
  <2>7. disk'[p] = disk[p] /\ latest'[p] = latest[p]
    BY <2>3, <2>5, <2>6, VersionsStay
  <2>8. cb'[f].writing = cb[f].writing
    BY <2>3, <2>5, <2>6, WritingStays
  <2>. QED
    BY <2>2, <2>7, <2>8
<1>2. CASE u = t
  <2>1. PutIn(t)
    BY <1>2, Goes DEF From
  <2>2. /\ place[t] = "insert" /\ f = my[t].f /\ p = my[t].p /\ p \in Page /\ cb' = cb /\ disk' = disk /\ latest' = latest
        /\ Absent(p)
    BY <1>2, <2>1, InsertForms DEF store
  <2>3. ~cb[f].writing
    BY <2>2, Parts DEF Owned, Owning, Looking
  <2>4. p \notin transit[Transit[p]]
    BY <2>2, Parts DEF Sought, Looking
  <2>5. \A v \in Thread : Leaves(v) => cb[my[v].f].old # p
    BY <2>4, Parts DEF Leaving
  <2>6. disk[p] = latest[p]
    BY <2>2, <2>5 DEF IInv, OnDisk
  <2>. QED
    BY <2>2, <2>3, <2>6
<1>. QED
  BY <1>1, <1>2

\* A frame that is to get another page is clean.
LEMMA ClearedKept ==
  ASSUME IInv, ~Overtaken, PoolConstants, NEW t \in Thread, Step(t), NEW u \in Thread
  PROVE  Cleared(u)'
<1>. TypeOK /\ cb \in [Frame -> Block]
  BY Parts DEF TypeOK
<1>. DEFINE Clean == (Owning \ {"evicted", "write"}) \union {"read"}
<1>. SUFFICES ASSUME place'[u] \in Clean, NEW f, f = my'[u].f
              PROVE  ~cb'[f].dirty
  BY DEF Cleared
<1>1. CASE u # t
  <2>1. place[u] \in Clean /\ f = my[u].f
    BY <1>1, OthersStay
  <2>2. ~cb[f].dirty
    BY <2>1, Parts DEF Cleared
  <2>3. CASE place[u] = "read"
    <3>1. f \in Frame /\ InTable(f)
      BY <2>1, <2>3, UsedPage DEF Using
    <3>2. f = my[t].f => place[t] \notin Owning \union Reading
      BY <1>1, <2>1, <2>3, Alone
    <3>3. ~((ReplaceOut(t) \/ Copy(t) \/ Update(t)) /\ f = my[t].f)
      BY <3>2, Leads DEF From, Reading, Owning, Emptying
    <3>4. f \notin unused
      BY <3>1 DEF IInv, Unused
    <3>. QED
      BY <2>2, <3>1, <3>3, <3>4, DirtyStays
  <2>4. CASE place[u] \in Owning
    BY <1>1, <2>1, <2>2, <2>4, OwnedStays
  <2>. QED
    BY <2>1, <2>3, <2>4
<1>2. CASE u = t
  <2>1. CASE TakeFree(t)
    <3>1. f \in Frame /\ cb' = [cb EXCEPT ![f].pin = 0, ![f].old = NoOne, ![f].dirty = FALSE, ![f].held[t] = "EX"]
      BY <1>2, <2>1, TakenForms, ZenonT(40)
    <3>2. cb[f] \in Block
      BY <3>1
    <3>. QED
      BY <3>1, <3>2 DEF Block
  <2>2. CASE ReplaceOut(t)
    <3>1. f = my[t].f /\ f \in Frame /\ cb' = [cb EXCEPT ![f].dirty = FALSE]
      <4>1. f = my[t].f
        BY <1>2, <2>2 DEF ReplaceOut
      <4>. QED
        BY <2>2, <4>1, ReplaceOutForms DEF ReplaceOut
    <3>2. cb[f] \in Block
      BY <3>1
    <3>. QED
      BY <3>1, <3>2 DEF Block
  <2>3. CASE VictimClean(t)
    BY <1>2, <2>3 DEF VictimClean
  <2>4. CASE ~TakeFree(t) /\ ~ReplaceOut(t) /\ ~VictimClean(t)
    <3>1. /\ place[t] \in Clean /\ place[t] \in Owning /\ place'[t] # "out"
          /\ ~FoundAfterAll(t) /\ ~Update(t) /\ ~Copy(t)
      BY <1>2, <2>4, Goes, Leads DEF From, Owning, Emptying, Looking
    <3>2. f = my[t].f /\ f \in Frame
      BY <1>2, <3>1, FrameStays, Parts DEF LocalsOK
    <3>3. ~cb[f].dirty
      BY <3>1, <3>2, Parts DEF Cleared
    <3>4. cb'[f].dirty = cb[f].dirty
      BY <2>4, <3>1, <3>2, DirtyStays
    <3>. QED
      BY <3>3, <3>4
  <2>. QED
    BY <2>1, <2>2, <2>3, <2>4
<1>. QED
  BY <1>1, <1>2
-----------------------------------------------------------------------------
\* A page that is neither in the table nor leaving is on disk.
LEMMA OnDiskKept ==
  ASSUME IInv, ~Overtaken, PoolConstants, NEW t \in Thread, Step(t)
  PROVE  OnDisk'
<1>. TypeOK /\ disk \in [Page -> Nat] /\ latest \in [Page -> Nat] /\ cb \in [Frame -> Block]
  BY Parts DEF TypeOK
<1>. SUFFICES ASSUME NEW p \in Page, Absent(p)', \A u \in Thread : Leaves(u)' => cb'[my'[u].f].old # p
              PROVE  disk'[p] = latest'[p]
  BY DEF OnDisk, Leaves, Absent, InTable, Residents
<1>1. CASE ~Absent(p)
  <2>1. PICK f \in Frame : InTable(f) /\ cb[f].pid = p
    BY <1>1 DEF Absent
  <2>2. ~InTable(f)'
    <3>1. cb'[f].pid = p
      BY <2>1, ResidentName
    <3>. QED
      BY <3>1 DEF Absent
  <2>3. Evicts(t) /\ f = my[t].f
    BY <2>1, <2>2, InTableStays
  <2>4. /\ cb[f].pin = 0 /\ ~cb[f].writing /\ my'[t].f = f /\ UNCHANGED store /\ place'[t] = "evicted"
        /\ my[t].victim = p /\ cb' = [cb EXCEPT ![f].held[t] = "EX", ![f].old = my[t].victim]
    BY <2>1, <2>3, EvictsForms DEF Evicts
  <2>5. cb'[f].old = p /\ cb'[f].dirty = cb[f].dirty
    <3>1. cb[f] \in Block
      BY <2>1
    <3>. QED
      BY <2>1, <2>4, <3>1 DEF Block
  <2>6. ~cb[f].dirty
    BY <2>4, <2>5 DEF Leaves
  <2>7. ~IsRead(f)
    BY <2>4, PinCounts DEF IsRead, Pinning
  <2>8. disk[p] = latest[p]
    BY <2>1, <2>4, <2>6, <2>7 DEF IInv, Current
  <2>. QED
    BY <2>4, <2>8 DEF store
<1>2. ASSUME Absent(p), NEW u \in Thread, NEW f, f = my[u].f, Leaves(u), cb[f].old = p
      PROVE  disk'[p] = latest'[p]
  <2>1. ReplaceOut(t) /\ u = t
    <3>1. f \in Frame /\ place[u] \in {"evicted", "write"} /\ cb[f].dirty /\ place[u] \in Owning /\ cb[f].old = p
      BY <1>2, Parts DEF Leaves, LocalsOK, Owning, Emptying
    <3>2. ~Leaves(u)' \/ cb'[my'[u].f].old # p
      BY <1>2
    <3>3. CASE u # t
      <4>0. cb'[f].old = cb[f].old
        BY <1>2, <3>1, <3>3, OwnedStays
      <4>a. place[u] \in Owning
        BY <3>1
      <4>1. cb'[f].dirty = cb[f].dirty
        BY ONLY IInv, ~Overtaken, PoolConstants, t \in Thread, Step(t), u \in Thread, <1>2, <3>3, <4>a, OwnedStays
      <4>2. place'[u] = place[u] /\ my'[u].f = f
        BY <1>2, <3>3, OthersStay
      <4>. QED
        BY ONLY <3>1, <3>2, <4>0, <4>1, <4>2 DEF Leaves
    <3>4. CASE u = t /\ ~ReplaceOut(t)
      <4>1. VictimDirty(t)
        BY <1>2, <3>1, <3>4, Goes DEF From, VictimClean
      <4>2. cb' = cb /\ my' = my /\ place'[t] = "write"
        BY <4>1, Leads DEF VictimDirty, From
      <4>. QED
        BY ONLY <1>2, <3>1, <3>2, <3>4, <4>2 DEF Leaves
    <3>. QED
      BY <3>3, <3>4
  <2>2. PICK o, g : g = my[t].f /\ o = cb[g].old
    OBVIOUS
  <2>3. disk'[o] = latest[o] /\ latest' = latest
    BY <2>1, <2>2, ReplaceOutForms
  <2>. QED
    BY <1>2, <2>1, <2>2, <2>3
<1>3. ASSUME Absent(p), \A u \in Thread : Leaves(u) => cb[my[u].f].old # p
      PROVE  disk'[p] = latest'[p]
  <2>1. disk[p] = latest[p]
    BY <1>3 DEF IInv, OnDisk
  <2>2. latest'[p] = latest[p]
    BY <1>3, LatestStays
  <2>3. disk'[p] = disk[p]
    <3>1. CASE WriteOut(t)
      <4>1. place[t] \in Using /\ disk' = [disk EXCEPT ![my[t].p] = my[t].copy]
        BY <3>1 DEF WriteOut, Using
      <4>2. ~Absent(my[t].p)
        BY <4>1, UsedPage
      <4>. QED
        BY <1>3, <4>1, <4>2
    <3>2. CASE ReplaceOut(t)
      <4>1. PICK o, f : f = my[t].f /\ o = cb[f].old
        OBVIOUS
      <4>2. Leaves(t) /\ disk' = [disk EXCEPT ![o] = latest[o]]
        BY <3>2, <4>1, ReplaceOutForms
      <4>3. o # p
        BY <1>3, <4>1, <4>2
      <4>. QED
        BY <4>2, <4>3
    <3>. QED
      BY <3>1, <3>2, StoreStays
  <2>. QED
    BY <2>1, <2>2, <2>3
<1>. QED
  BY <1>1, <1>2, <1>3

\* A dirty page has been updated.
LEMMA PositiveKept ==
  ASSUME IInv, ~Overtaken, PoolConstants, NEW t \in Thread, Step(t)
  PROVE  Positive'
<1>. TypeOK /\ cb \in [Frame -> Block]
  BY Parts DEF TypeOK
<1>. SUFFICES ASSUME NEW f \in Frame, cb'[f].dirty
              PROVE  cb'[f].ver > 0
  BY DEF Positive
<1>. cb[f] \in Block /\ cb[f].ver \in Nat
  BY DEF Block
<1>1. CASE Update(t) /\ f = my[t].f
  <2>1. cb'[f].ver = cb[f].ver + 1
    BY <1>1, UpdateForms
  <2>. QED
    BY <2>1
<1>2. CASE ~(Update(t) /\ f = my[t].f)
  <2>1. cb[f].dirty
    <3>1. CASE TakeFree(t) /\ f \in unused
      <4>1. PICK g \in Frame : cb' = [cb EXCEPT ![g].pin = 0, ![g].old = NoOne, ![g].dirty = FALSE, ![g].held[t] = "EX"]
        BY <3>1, TakenForms, Zenon
      <4>. QED
        BY <4>1 DEF Block
    <3>2. CASE ReplaceOut(t) /\ f = my[t].f
      <4>1. cb' = [cb EXCEPT ![f].dirty = FALSE]
        BY <3>2 DEF ReplaceOut
      <4>. QED
        BY <4>1 DEF Block
    <3>3. CASE Copy(t) /\ f = my[t].f
      BY <3>3, CopyForms
    <3>. QED
      BY <1>2, <3>1, <3>2, <3>3, DirtyStays
  <2>2. cb[f].ver > 0
    BY <2>1 DEF IInv, Positive
  <2>3. ~(Read(t) /\ f = my[t].f)
    <3>. SUFFICES ASSUME Read(t), f = my[t].f PROVE FALSE
      OBVIOUS
    <3>1. place[t] = "read"
      BY ReadForms
    <3>. QED
      BY <2>1, <3>1, Parts DEF Cleared
  <2>. QED
    BY <1>2, <2>2, <2>3, PageStays
<1>. QED
  BY <1>1, <1>2

\* A thread with a copy to write unfixes the frame and then writes it.
LEMMA CopyStays ==
  ASSUME IInv, NEW t \in Thread, Step(t), my[t].copy > 0
  PROVE  \/ WriteOut(t)
         \/ (Unpin(t) \/ Unlatch(t)) /\ my'[t].copy = my[t].copy /\ my'[t].f = my[t].f
<1>. TypeOK /\ LocalsOK(t)
  BY Parts
<1>1. place[t] \in {"unfix", "unlatch", "flush"}
  BY DEF LocalsOK
<1>2. Unpin(t) \/ Unlatch(t) \/ WriteOut(t)
  BY <1>1, Goes DEF From
<1>3. ASSUME Unpin(t) \/ Unlatch(t)
      PROVE  my'[t].copy = my[t].copy /\ my'[t].f = my[t].f
  <2>1. place'[t] # "out" /\ ~FoundAfterAll(t) /\ ~Copy(t) /\ place[t] \in Using
    BY <1>1, <1>3, Leads DEF From, Using, Reading
  <2>2. my'[t].f = my[t].f
    BY <2>1, FrameStays
  <2>3. my'[t].copy = my[t].copy
    BY <2>1, LocalsStay DEF Same, Returned
  <2>. QED
    BY <2>2, <2>3
<1>. QED
  BY <1>2, <1>3

\* No two threads write copies of the same frame.
LEMMA CopyOnce ==
  ASSUME IInv, NEW t \in Thread, NEW u \in Thread, t # u, my[u].copy > 0, my[t].f = my[u].f
  PROVE  ~Copy(t) /\ ~WriteOut(t)
<1>. SUFFICES ASSUME Copy(t) \/ WriteOut(t) PROVE FALSE
  OBVIOUS
<1>. TypeOK
  BY Parts
<1>1. Writing(t) /\ place[t] \in Using
  BY Leads, Parts DEF From, Writing, LocalsOK, Using, Reading
<1>2. Writing(u) /\ place[u] \in Using
  BY Parts DEF Writing, LocalsOK, Using, Reading
<1>3. my[t].p = my[u].p /\ my[t].p \in Page
  BY <1>1, <1>2, UsedPage
<1>4. WriteMutex[my[t].p] \in Mutex
  BY <1>3, TransitTyped
<1>5. writer[WriteMutex[my[t].p]] = t /\ writer[WriteMutex[my[t].p]] = u
  BY <1>1, <1>2, <1>3, <1>4 DEF IInv, PagesOwned
<1>. QED
  BY <1>5

\* A copy that is to be written is the last version unless the page is dirty again.
LEMMA CopiedKept ==
  ASSUME IInv, ~Overtaken, PoolConstants, NEW t \in Thread, Step(t), NEW u \in Thread
  PROVE  Copied(u)'
<1>. TypeOK /\ cb \in [Frame -> Block]
  BY Parts DEF TypeOK
<1>. SUFFICES ASSUME my'[u].copy > 0, NEW f, f = my'[u].f
              PROVE  cb'[f].writing /\ (~cb'[f].dirty => my'[u].copy = cb'[f].ver)
  BY DEF Copied
<1>1. CASE u = t /\ Copy(t)
  <2>1. place[t] = "copy"
    BY <1>1, CopyForms
  <2>2. my[t].copy = 0
    BY <2>1, Parts DEF LocalsOK, Locals
  <2>3. ASSUME NEW g, g = my[t].f
        PROVE  my'[t].f = g /\ cb'[g].writing = TRUE /\ my'[t].copy = cb'[g].ver
    <3>1. my'[t].copy > 0
      BY <1>1
    <3>2. ~(my' = my)
      BY <2>2, <3>1
    <3>3. my'[t].f = g
      BY <1>1, <2>3, <3>2, CopyForms
    <3>4. cb'[g].writing = TRUE
      BY <1>1, <2>3, <3>2, CopyForms
    <3>5. my'[t].copy = cb[g].ver
      BY <1>1, <2>3, <3>2, CopyForms, ZenonT(40)
    <3>6. cb'[g].ver = cb[g].ver
      BY <1>1, <2>3, <3>2, CopyForms, Zenon
    <3>. QED
      BY <3>3, <3>4, <3>5, <3>6
  <2>. QED
    BY <1>1, <2>3
<1>2. CASE ~(u = t /\ Copy(t))
  <2>1. my[u].copy > 0 /\ my[u].copy = my'[u].copy /\ f = my[u].f /\ ~(u = t /\ WriteOut(t))
    <3>1. CASE u # t
      BY <3>1, OthersStay
    <3>2. CASE u = t
      <4>1. my'[t].copy # 0
        BY <3>2
      <4>2. my'[t].copy = my[t].copy
        BY <1>2, <3>2, <4>1, LocalsStay, FoundLocals DEF Same, Returned, NoLocals
      <4>3. ~WriteOut(t)
        BY <4>1, Returns, Leads DEF From, Returned, NoLocals
      <4>. QED
        BY <3>2, <4>2, <4>3, CopyStays
    <3>. QED
      BY <3>1, <3>2
  <2>2. cb[f].writing /\ (~cb[f].dirty => my[u].copy = cb[f].ver)
    BY <2>1, Parts DEF Copied
  <2>3. f \in Frame /\ InTable(f) /\ place[u] \in Using
    <3>1. place[u] \in Using
      BY <2>1, Parts DEF LocalsOK, Using, Reading
    <3>. QED
      BY <2>1, <3>1, UsedPage
  <2>4. f = my[t].f => ~Copy(t) /\ ~WriteOut(t)
    BY <1>2, <2>1, CopyOnce
  <2>5. cb'[f].writing
    BY <2>2, <2>3, <2>4, WritingStays
  <2>6. CASE Update(t) /\ f = my[t].f
    BY <2>5, <2>6, UpdateForms
  <2>7. CASE ~(Update(t) /\ f = my[t].f)
    <3>1. ~(Read(t) /\ f = my[t].f)
      BY <2>2, Leads, Parts DEF From, Fetched
    <3>2. cb'[f].ver = cb[f].ver
      BY <2>3, <2>7, <3>1, PageStays
    <3>3. f \notin unused /\ ~(ReplaceOut(t) /\ f = my[t].f)
      BY <2>3, ReplaceOutForms DEF IInv, Unused
    <3>4. cb'[f].dirty = cb[f].dirty
      BY <2>3, <2>4, <2>7, <3>3, DirtyStays
    <3>. QED
      BY <2>1, <2>2, <2>5, <3>2, <3>4
  <2>. QED
    BY <2>6, <2>7
<1>. QED
  BY <1>1, <1>2

\* A frame that is marked as being written has somebody who will write it.
LEMMA CleanedKept ==
  ASSUME IInv, ~Overtaken, PoolConstants, NEW t \in Thread, Step(t)
  PROVE  Cleaned'
<1>. TypeOK /\ cb \in [Frame -> Block] /\ my \in [Thread -> Locals]
  BY Parts DEF TypeOK
<1>. SUFFICES ASSUME NEW f \in Frame, cb'[f].writing
              PROVE  \E u \in Thread : my'[u].copy > 0 /\ my'[u].f = f
  BY DEF Cleaned
<1>1. CASE cb[f].writing
  <2>1. PICK u \in Thread : my[u].copy > 0 /\ my[u].f = f
    BY <1>1 DEF IInv, Cleaned
  <2>2. CASE u # t
    BY <2>1, <2>2, OthersStay
  <2>3. CASE u = t
    <3>1. ~WriteOut(t)
      BY <2>1, <2>3, WriteOutForms
    <3>. QED
      BY <2>1, <2>3, <3>1, CopyStays
  <2>. QED
    BY <2>2, <2>3
<1>2. CASE ~cb[f].writing
  <2>1. f = my[t].f /\ (Copy(t) \/ WriteOut(t))
    BY <1>2, WritingStays
  <2>2. Copy(t)
    BY <2>1, WriteOutForms
  <2>3. cb[f].dirty /\ my'[t].copy = cb[f].ver /\ my'[t].f = f
    <3>1. cb' # cb
      BY <1>2
    <3>. QED
      BY ONLY IInv, t \in Thread, <2>1, <2>2, <3>1, CopyForms
  <2>4. cb[f].ver > 0
    BY <2>3 DEF IInv, Positive
  <2>. QED
    BY <2>3, <2>4
<1>. QED
  BY <1>1, <1>2
-----------------------------------------------------------------------------
\* The parts of the invariant that are about one thread are kept.
LEMMA EachKept ==
  ASSUME IInv, ~Overtaken, PoolConstants, NEW t \in Thread, Step(t), Count, FewMoves, OwnTransit, NEW u \in Thread
  PROVE  EachOK(u)'
<1>1. LocalsOK(u)'
  BY LocalsKept
<1>2. Owned(u)'
  BY OwnedKept
<1>3. Used(u)'
  BY UsedKept
<1>4. Probed(u)'
  BY ProbedKept
<1>5. Moves(u)'
  BY MovesKept
<1>6. Sought(u)'
  BY SoughtKept
<1>7. Missing(u)'
  BY MissingKept
<1>8. Evades(u)'
  BY EvadesKept
<1>9. Leaving(u)'
  BY LeavingKept
<1>10. Fetched(u)'
  BY FetchedKept
<1>11. Cleared(u)'
  BY ClearedKept
<1>12. Copied(u)'
  BY CopiedKept
<1>. QED
  BY ONLY <1>1, <1>2, <1>3, <1>4, <1>5, <1>6, <1>7, <1>8, <1>9, <1>10, <1>11, <1>12 DEF EachOK

\* So are all of them, by a step of any thread,
LEMMA StepKeeps ==
  ASSUME IInv, ~Overtaken, PoolConstants, NEW t \in Thread, Step(t), Count, FewMoves, OwnTransit
  PROVE  IInv'
<1>1. TypeOK'
  BY TypeKept
<1>2. (\A u \in Thread : EachOK(u))'
  BY EachKept
<1>3. Latched' /\ Excluded' /\ PinsCounted'
  BY LatchedKept, ExcludedKept, PinsKept
<1>4. SlotsFilled' /\ SlotsDiffer'
  BY SlotsKept
<1>5. Unused' /\ OneMover'
  BY UnusedKept, OneMoverKept
<1>6. BucketsOwned' /\ PagesOwned'
  BY BucketsOwnedKept, PagesOwnedKept
<1>7. LeavesOnce' /\ Current'
  BY LeavesOnceKept, CurrentKept
<1>8. OnDisk' /\ Positive' /\ Cleaned'
  BY OnDiskKept, PositiveKept, CleanedKept
<1>. QED
  BY ONLY <1>1, <1>2, <1>3, <1>4, <1>5, <1>6, <1>7, <1>8 DEF IInv

\* by a step that changes nothing but the count of moves of a thread that looks for no page,
LEMMA StutterKeeps ==
  ASSUME IInv, UNCHANGED poolVars, moved' \in [Thread -> [before : Nat, now : Nat]],
         moved' = moved \/ \A t \in Thread : place[t] # "look"
  PROVE  IInv'
<1>. /\ cb' = cb /\ table' = table /\ unused' = unused /\ transit' = transit /\ tb' = tb /\ writer' = writer
     /\ disk' = disk /\ latest' = latest /\ may' = may /\ place' = place /\ my' = my
  BY DEF poolVars
<1>1. TypeOK'
  <2>1. TypeOK
    BY DEF IInv
  <2>. QED
    BY <2>1 DEF TypeOK
<1>2. ASSUME NEW u \in Thread PROVE EachOK(u)'
  <2>1. EachOK(u)
    BY DEF IInv
  <2>2. LocalsOK(u)' <=> LocalsOK(u)
    BY DEF LocalsOK, Cleans
  <2>3. Owned(u)' <=> Owned(u)
    BY DEF Owned, InTable, Residents
  <2>4. Used(u)' <=> Used(u)
    BY DEF Used, InTable, Residents
  <2>5. Probed(u)' <=> Probed(u)
    BY DEF Probed, InTable, Residents, Here
  <2>6. Moves(u)' <=> Moves(u)
    BY DEF Moves, Slots
  <2>7. Sought(u)' <=> Sought(u)
    BY DEF Sought
  <2>8. Missing(u)' <=> Missing(u)
    BY DEF Missing, Absent, InTable, Residents
  <2>9. Evades(u) => Evades(u)'
    <3>1. CASE moved' = moved
      BY <3>1 DEF Evades, Has, Get, Residents
    <3>2. CASE place[u] # "look"
      BY <3>2 DEF Evades
    <3>. QED
      BY <3>1, <3>2
  <2>10. Leaving(u)' <=> Leaving(u)
    BY DEF Leaving, Leaves, Absent, InTable, Residents
  <2>11. Fetched(u)' <=> Fetched(u)
    BY DEF Fetched
  <2>12. Cleared(u)' <=> Cleared(u)
    BY DEF Cleared
  <2>13. Copied(u)' <=> Copied(u)
    BY DEF Copied
  <2>. QED
    BY ONLY <2>1, <2>2, <2>3, <2>4, <2>5, <2>6, <2>7, <2>8, <2>9, <2>10, <2>11, <2>12, <2>13 DEF EachOK
<1>3. Latched' <=> Latched
  BY DEF Latched, LatchOf, Mode, Cleans
<1>4. Excluded' <=> Excluded
  BY DEF Excluded
<1>5. PinsCounted' <=> PinsCounted
  BY DEF PinsCounted, Pinners
<1>6. SlotsFilled' <=> SlotsFilled
  BY DEF SlotsFilled, Slots
<1>7. SlotsDiffer' <=> SlotsDiffer
  BY DEF SlotsDiffer, Slots
<1>8. Unused' <=> Unused
  BY DEF Unused, InTable, Residents
<1>9. OneMover' <=> OneMover
  BY DEF OneMover
<1>10. BucketsOwned' <=> BucketsOwned
  BY DEF BucketsOwned
<1>11. PagesOwned' <=> PagesOwned
  BY DEF PagesOwned, Writing
<1>12. LeavesOnce' <=> LeavesOnce
  BY DEF LeavesOnce, Leaves
<1>13. Current' <=> Current
  BY DEF Current, InTable, Residents, IsRead
<1>14. OnDisk' <=> OnDisk
  BY DEF OnDisk, Absent, InTable, Residents, Leaves
<1>15. Positive' <=> Positive
  BY DEF Positive
<1>16. Cleaned' <=> Cleaned
  BY DEF Cleaned
<1>. QED
  BY ONLY IInv, <1>1, <1>2, <1>3, <1>4, <1>5, <1>6, <1>7, <1>8, <1>9, <1>10, <1>11, <1>12, <1>13, <1>14, <1>15, <1>16 DEF IInv

\* and so by every step of the specification.
LEMMA NextKeeps ==
  ASSUME IInv, ~Overtaken, PoolConstants, [SparedNext]_hvars
  PROVE  IInv'
<1>1. CASE Done /\ Count
  <2>1. \A t \in Thread : place[t] # "look"
    BY <1>1 DEF Done
  <2>. QED
    BY <1>1, <2>1, MovedTyped, StutterKeeps DEF Done
<1>2. CASE UNCHANGED hvars
  BY <1>2, StutterKeeps DEF hvars, IInv, TypeOK
<1>3. CASE SparedNext /\ ~Done
  BY <1>3, StepKeeps DEF SparedNext, PoolNext
<1>. QED
  BY <1>1, <1>2, <1>3 DEF SparedNext

\* What the invariant says of the slots is that a page is there once.
LEMMA OnceInPool ==
  ASSUME IInv
  PROVE  OneFrame
BY DEF IInv, SlotsFilled, SlotsDiffer, Slots, OneFrame

\* Who has fixed a page has pinned a frame of the table that is not being read.
LEMMA RightWhenFixed ==
  ASSUME IInv
  PROVE  FixedRight
<1>. SUFFICES ASSUME NEW t \in Thread, place[t] \in {"fixed", "unfix"}, NEW f, f = my[t].f
              PROVE  cb[f].page = my[t].p /\ cb[f].ver = latest[my[t].p]
  BY DEF FixedRight
<1>1. f \in Frame /\ InTable(f) /\ cb[f].pid = my[t].p
  BY UsedPage DEF Using, Reading
<1>2. ~IsRead(f)
  <2>. SUFFICES ASSUME NEW u \in Thread, place[u] = "read", my[u].f = f PROVE FALSE
    BY DEF IsRead
  <2>. QED
    BY Alone DEF Reading
<1>. QED
  BY <1>1, <1>2 DEF IInv, Current

\* A page is in the table, leaving, or on disk.
LEMMA LastVersionKept ==
  ASSUME IInv
  PROVE  NothingLost
<1>. SUFFICES ASSUME NEW p \in Page, disk[p] # latest[p]
              PROVE  \E f \in Frame : cb[f].page = p /\ cb[f].ver = latest[p] /\ (cb[f].dirty \/ cb[f].writing)
  BY DEF NothingLost
<1>1. CASE ~Absent(p)
  <2>1. PICK f \in Frame : InTable(f) /\ cb[f].pid = p
    BY <1>1 DEF Absent
  <2>2. ~IsRead(f)
    <3>. SUFFICES ASSUME NEW u \in Thread, place[u] = "read", my[u].f = f PROVE FALSE
      BY DEF IsRead
    <3>1. my[u].p = p
      BY <2>1, UsedPage DEF Using
    <3>. QED
      BY <3>1, Parts DEF Fetched
  <2>. QED
    BY <2>1, <2>2 DEF IInv, Current
<1>2. CASE Absent(p)
  <2>1. PICK u \in Thread : Leaves(u) /\ cb[my[u].f].old = p
    BY <1>2 DEF IInv, OnDisk
  <2>2. my[u].f \in Frame /\ cb[my[u].f].dirty
    BY <2>1, Parts DEF Leaves, LocalsOK, Owning, Emptying
  <2>3. cb[my[u].f].page = p /\ cb[my[u].f].ver = latest[p]
    BY <2>1, Parts DEF Leaving
  <2>. QED
    BY <2>2, <2>3
<1>. QED
  BY <1>1, <1>2
-----------------------------------------------------------------------------
\* What a load puts into a bucket at first.
Loaded(load, b) == {f \in Frame : load.hot[f] # NoOne /\ Hash[1][load.hot[f]] = b}

\* A load puts at most one frame into a bucket.
LEMMA LoadedOnce ==
  ASSUME PoolConstants, NEW load \in Loads, NEW b, NEW f \in Loaded(load, b)
  PROVE  /\ Loaded(load, b) = {f} /\ Cardinality(Loaded(load, b)) = 1
         /\ (CHOOSE g \in Loaded(load, b) : TRUE) = f
         /\ f \in Frame /\ load.hot[f] \in Page /\ Hash[1][load.hot[f]] = b
<1>1. f \in Frame /\ load.hot[f] # NoOne /\ Hash[1][load.hot[f]] = b /\ load.hot[f] \in Page
  BY DEF Loaded, PoolConstants
<1>2. ASSUME NEW g \in Loaded(load, b) PROVE g = f
  BY <1>1, <1>2 DEF Loaded, PoolConstants
<1>3. Loaded(load, b) = {f}
  BY <1>2
<1>. QED
  BY <1>1, <1>3, FS_Singleton

\* What the pool is at first.
LEMMA InitForms ==
  ASSUME PoolConstants, PoolInit
  PROVE  \E load \in Loads :
           /\ cb = [f \in Frame |->
                      [pid |-> load.hot[f], old |-> NoOne, pin |-> 0, held |-> Unlatched,
                       dirty |-> load.hot[f] # NoOne, writing |-> FALSE, page |-> load.hot[f], ver |-> 1]]
           /\ table = [b \in Bucket |->
                         [slot |-> [i \in 1..SlotCount |->
                                      IF i = 1 /\ Loaded(load, b) # {} THEN CHOOSE f \in Loaded(load, b) : TRUE ELSE NoOne],
                          count |-> Cardinality(Loaded(load, b))]]
           /\ unused = load.free
           /\ transit = [b \in TransitBucket |-> {}] /\ tb = [b \in TransitBucket |-> NoOne]
           /\ writer = [m \in Mutex |-> NoOne]
           /\ disk = [p \in Page |-> 0]
           /\ latest = [p \in Page |-> IF p \in {load.hot[f] : f \in Frame} \ {NoOne} THEN 1 ELSE 0]
           /\ may = load.may
           /\ place = [t \in Thread |-> "out"]
           /\ my = [t \in Thread |-> [NoLocals EXCEPT !.todo = load.todo[t]]]
BY DEF PoolInit, Loaded, TransitBucket, Mutex

\* The invariant holds of the pool at first.
LEMMA InitKeeps ==
  ASSUME PoolConstants, SparedInit
  PROVE  IInv
<1>1. PICK load \in Loads :
        /\ cb = [f \in Frame |->
                   [pid |-> load.hot[f], old |-> NoOne, pin |-> 0, held |-> Unlatched,
                    dirty |-> load.hot[f] # NoOne, writing |-> FALSE, page |-> load.hot[f], ver |-> 1]]
        /\ table = [b \in Bucket |->
                      [slot |-> [i \in 1..SlotCount |->
                                   IF i = 1 /\ Loaded(load, b) # {} THEN CHOOSE f \in Loaded(load, b) : TRUE ELSE NoOne],
                       count |-> Cardinality(Loaded(load, b))]]
        /\ unused = load.free
        /\ transit = [b \in TransitBucket |-> {}] /\ tb = [b \in TransitBucket |-> NoOne]
        /\ writer = [m \in Mutex |-> NoOne]
        /\ disk = [p \in Page |-> 0]
        /\ latest = [p \in Page |-> IF p \in {load.hot[f] : f \in Frame} \ {NoOne} THEN 1 ELSE 0]
        /\ may = load.may
        /\ place = [t \in Thread |-> "out"]
        /\ my = [t \in Thread |-> [NoLocals EXCEPT !.todo = load.todo[t]]]
  BY InitForms DEF SparedInit
<1>2. /\ load.hot \in [Frame -> Maybe(Page)] /\ load.free \in SUBSET Frame
      /\ \A f \in load.free : load.hot[f] = NoOne
      /\ load.todo \in [Thread -> Nat] /\ load.may \in [Thread -> SUBSET Calls]
      /\ SlotCount \in Nat \ {0} /\ NoOne \notin Thread \union Frame \union Page
  BY DEF PoolConstants, Maybe, Calls
<1>3. ASSUME NEW f \in Frame
      PROVE  /\ cb[f].pid = load.hot[f] /\ cb[f].old = NoOne /\ cb[f].pin = 0 /\ cb[f].held = Unlatched
             /\ (cb[f].dirty <=> load.hot[f] # NoOne) /\ cb[f].writing = FALSE /\ cb[f].page = load.hot[f] /\ cb[f].ver = 1
             /\ load.hot[f] \in Maybe(Page)
  BY <1>1, <1>2
<1>4. ASSUME NEW t \in Thread
      PROVE  /\ place[t] = "out" /\ my[t] = [NoLocals EXCEPT !.todo = load.todo[t]] /\ my[t] \in Locals
             /\ my[t].f = NoOne /\ my[t].first = TRUE /\ my[t].same = 0 /\ my[t].copy = 0 /\ my[t].mode = "NL"
  <2>1. place[t] = "out" /\ my[t] = [NoLocals EXCEPT !.todo = load.todo[t]] /\ load.todo[t] \in Nat
    BY <1>1, <1>2
  <2>2. <<0, 0>> \in [{1, 2} -> Nat]
    OBVIOUS
  <2>3. my[t] = [p |-> NoOne, mode |-> "NL", i |-> 1, s |-> 1, f |-> NoOne, b |-> NoOne, to |-> NoOne, victim |-> NoOne,
                 first |-> TRUE, residents |-> <<0, 0>>, same |-> 0, copy |-> 0, todo |-> load.todo[t]]
    BY <2>1 DEF NoLocals
  <2>4. my[t] \in Locals
    <3>1. NoOne \in Maybe(Page) /\ NoOne \in Maybe(Frame) /\ NoOne \in Maybe(Bucket)
      BY DEF Maybe
    <3>2. "NL" \in Modes \union {"clean"} /\ 1 \in {1, 2} /\ 1 \in Nat \ {0} /\ 0 \in Nat /\ TRUE \in BOOLEAN
      BY DEF Modes
    <3>3. load.todo[t] \in Nat
      BY <2>1
    <3>. QED
      BY ONLY <2>2, <2>3, <3>1, <3>2, <3>3 DEF Locals
  <2>5. my[t].f = NoOne /\ my[t].first = TRUE /\ my[t].same = 0 /\ my[t].copy = 0 /\ my[t].mode = "NL"
    BY ONLY <2>3
  <2>. QED
    BY <2>1, <2>4, <2>5
\* A bucket is empty, or has one frame in its first slot.
<1>5. ASSUME NEW b \in Bucket
      PROVE  \/ table[b].count = 0 /\ Slots(b) = {} /\ Residents(b) = {} /\ Loaded(load, b) = {}
             \/ \E f \in Frame : /\ table[b].count = 1 /\ Slots(b) = {1} /\ table[b].slot[1] = f /\ Residents(b) = {f}
                                 /\ load.hot[f] \in Page /\ b = Hash[1][load.hot[f]]
  <2>1. table[b].count = Cardinality(Loaded(load, b))
    BY <1>1
  <2>2. 1 \in 1..SlotCount
    BY <1>2
  <2>3. table[b].slot[1] = IF Loaded(load, b) # {} THEN CHOOSE f \in Loaded(load, b) : TRUE ELSE NoOne
    <3>1. table[b].slot = [i \in 1..SlotCount |->
                             IF i = 1 /\ Loaded(load, b) # {} THEN CHOOSE f \in Loaded(load, b) : TRUE ELSE NoOne]
      BY <1>1
    <3>. QED
      BY ONLY <2>2, <3>1
  <2>4. CASE Loaded(load, b) = {}
    <3>1. table[b].count = 0
      BY <2>1, <2>4, FS_EmptySet
    <3>. QED
      BY <2>4, <3>1 DEF Slots, Residents
  <2>5. CASE Loaded(load, b) # {}
    <3>1. PICK f : f \in Loaded(load, b)
      BY <2>5
    <3>2. /\ Cardinality(Loaded(load, b)) = 1 /\ (CHOOSE g \in Loaded(load, b) : TRUE) = f
          /\ f \in Frame /\ load.hot[f] \in Page /\ Hash[1][load.hot[f]] = b
      BY <3>1, LoadedOnce
    <3>3. table[b].count = 1 /\ table[b].slot[1] = f
      BY <2>1, <2>3, <2>5, <3>2
    <3>4. Slots(b) = {1} /\ Residents(b) = {f}
      BY <3>3 DEF Slots, Residents
    <3>. QED
      BY <3>2, <3>3, <3>4
  <2>. QED
    BY <2>4, <2>5
<1>6. ASSUME NEW f, InTable(f)
      PROVE  f \in Frame /\ load.hot[f] \in Page
  BY <1>5, <1>6 DEF InTable
<1>7. TypeOK
  <2>1. cb \in [Frame -> Block]
    <3>1. Unlatched \in [Thread -> Modes]
      BY DEF Unlatched, Modes
    <3>. SUFFICES ASSUME NEW f \in Frame PROVE cb[f] \in Block
      BY <1>1
    <3>2. load.hot[f] \in Maybe(Page) /\ NoOne \in Maybe(Page) /\ (load.hot[f] # NoOne) \in BOOLEAN
      BY <1>3 DEF Maybe
    <3>3. cb[f] = [pid |-> load.hot[f], old |-> NoOne, pin |-> 0, held |-> Unlatched,
                   dirty |-> load.hot[f] # NoOne, writing |-> FALSE, page |-> load.hot[f], ver |-> 1]
      BY <1>1
    <3>. QED
      BY <3>1, <3>2, <3>3 DEF Block
  <2>2. table \in [Bucket -> Chain]
    <3>. SUFFICES ASSUME NEW b \in Bucket PROVE table[b] \in Chain
      BY <1>1
    <3>1. table[b] = [slot |-> [i \in 1..SlotCount |->
                        IF i = 1 /\ Loaded(load, b) # {} THEN CHOOSE f \in Loaded(load, b) : TRUE ELSE NoOne],
                      count |-> Cardinality(Loaded(load, b))]
      BY <1>1
    <3>2. Cardinality(Loaded(load, b)) \in 0..SlotCount
      BY <1>2, <1>5, <3>1
    <3>3. Loaded(load, b) # {} => (CHOOSE f \in Loaded(load, b) : TRUE) \in Frame
      BY LoadedOnce
    <3>4. [i \in 1..SlotCount |-> IF i = 1 /\ Loaded(load, b) # {} THEN CHOOSE f \in Loaded(load, b) : TRUE ELSE NoOne]
            \in [1..SlotCount -> Maybe(Frame)]
      BY <3>3 DEF Maybe
    <3>. QED
      BY <3>1, <3>2, <3>4 DEF Chain
  <2>3. unused \in SUBSET Frame /\ transit \in [TransitBucket -> SUBSET Page]
    BY <1>1, <1>2
  <2>4. tb \in [TransitBucket -> Maybe(Thread)] /\ writer \in [Mutex -> Maybe(Thread)]
    BY <1>1 DEF Maybe
  <2>5. disk \in [Page -> Nat] /\ latest \in [Page -> Nat] /\ may \in [Thread -> SUBSET Calls]
    BY <1>1, <1>2
  <2>6. place \in [Thread -> Steps]
    BY <1>1 DEF Steps
  <2>7. my \in [Thread -> Locals]
    BY <1>1, <1>4
  <2>8. moved \in [Thread -> [before : Nat, now : Nat]]
    BY DEF SparedInit
  <2>. QED
    BY <2>1, <2>2, <2>3, <2>4, <2>5, <2>6, <2>7, <2>8 DEF TypeOK
<1>8. ASSUME NEW t \in Thread PROVE EachOK(t)
  <2>1. place[t] = "out" /\ my[t].first = TRUE /\ my[t].same = 0 /\ my[t].copy = 0 /\ my[t].mode = "NL"
    BY <1>4
  <2>2. LocalsOK(t)
    BY ONLY <2>1 DEF LocalsOK, Cleans, Owning, Emptying, Looking, Using, Reading
  <2>3. Owned(t) /\ Used(t) /\ Probed(t) /\ Moves(t) /\ Sought(t) /\ Missing(t)
    BY ONLY <2>1 DEF Owned, Used, Probed, Moves, Sought, Missing, Owning, Emptying, Looking, Using, Reading
  <2>4. Evades(t) /\ Leaving(t) /\ Fetched(t) /\ Cleared(t) /\ Copied(t)
    BY ONLY <2>1 DEF Evades, Leaving, Leaves, Fetched, Cleared, Copied, Owning, Emptying, Looking
  <2>. QED
    BY ONLY <2>2, <2>3, <2>4 DEF EachOK
<1>9. Latched
  <2>. SUFFICES ASSUME NEW f \in Frame, NEW t \in Thread PROVE cb[f].held[t] = "NL" /\ LatchOf(t) = "NL"
    BY DEF Latched
  <2>1. cb[f].held = Unlatched /\ place[t] = "out"
    BY <1>3, <1>4
  <2>. QED
    BY ONLY <2>1, t \in Thread DEF Unlatched, LatchOf, Owning, Emptying, Looking, Reading
<1>10. Excluded
  BY <1>3 DEF Excluded, Unlatched
<1>11. PinsCounted
  <2>. SUFFICES ASSUME NEW f \in Frame PROVE Pinners(f) = {}
    BY <1>3, FS_EmptySet DEF PinsCounted
  <2>. QED
    BY <1>4 DEF Pinners, Pinning, Looking, Reading
<1>12. SlotsFilled
  <2>. SUFFICES ASSUME NEW b \in Bucket, NEW i \in Slots(b)
                PROVE  LET f == table[b].slot[i]
                       IN  f \in Frame /\ cb[f].pid \in Page /\ \E h \in 1..2 : b = Hash[h][cb[f].pid]
    BY DEF SlotsFilled
  <2>1. PICK f \in Frame : Slots(b) = {1} /\ table[b].slot[1] = f /\ load.hot[f] \in Page /\ b = Hash[1][load.hot[f]]
    BY <1>5
  <2>2. cb[f].pid = load.hot[f]
    BY <1>3
  <2>3. table[b].slot[i] = f
    BY <2>1
  <2>4. b = Hash[1][cb[f].pid] /\ cb[f].pid \in Page
    BY <2>1, <2>2
  <2>5. \E h \in 1..2 : b = Hash[h][cb[f].pid]
    BY <2>4
  <2>. QED
    BY ONLY <2>3, <2>4, <2>5, f \in Frame
<1>13. SlotsDiffer
  <2>. SUFFICES ASSUME NEW b \in Bucket, NEW c \in Bucket, NEW i \in Slots(b), NEW j \in Slots(c),
                       cb[table[b].slot[i]].pid = cb[table[c].slot[j]].pid
                PROVE  b = c /\ i = j
    BY DEF SlotsDiffer
  <2>1. PICK f \in Frame : Slots(b) = {1} /\ table[b].slot[1] = f /\ b = Hash[1][load.hot[f]]
    BY <1>5
  <2>2. PICK g \in Frame : Slots(c) = {1} /\ table[c].slot[1] = g /\ c = Hash[1][load.hot[g]]
    BY <1>5
  <2>3. i = 1 /\ j = 1 /\ table[b].slot[i] = f /\ table[c].slot[j] = g
    BY <2>1, <2>2, Zenon
  <2>4. load.hot[f] = load.hot[g]
    BY <1>3, <2>3
  <2>. QED
    BY ONLY <2>1, <2>2, <2>3, <2>4
<1>14. Unused
  <2>. SUFFICES ASSUME NEW f \in unused PROVE ~InTable(f) /\ ~cb[f].dirty /\ ~cb[f].writing
    BY DEF Unused
  <2>1. f \in Frame /\ load.hot[f] = NoOne
    BY <1>1, <1>2
  <2>. QED
    BY <1>2, <1>3, <1>6, <2>1
<1>15. OneMover /\ LeavesOnce
  BY <1>4 DEF OneMover, LeavesOnce, Leaves
<1>16. BucketsOwned
  BY <1>1, <1>2, <1>4 DEF BucketsOwned, Looking
<1>17. PagesOwned
  <2>. SUFFICES ASSUME NEW m \in Mutex, NEW t \in Thread
                PROVE  writer[m] # t /\ place[t] # "write" /\ ~Writing(t)
    BY DEF PagesOwned
  <2>1. place[t] = "out" /\ my[t].copy = 0 /\ writer[m] = NoOne
    BY <1>1, <1>4
  <2>. QED
    BY <1>2, <2>1 DEF Writing
<1>18. Current
  <2>. SUFFICES ASSUME NEW f \in Frame, InTable(f)
                PROVE  cb[f].page = cb[f].pid /\ cb[f].ver = latest[cb[f].pid] /\ cb[f].dirty
    BY DEF Current
  <2>1. load.hot[f] \in Page /\ load.hot[f] # NoOne
    BY <1>2, <1>6
  <2>2. latest[load.hot[f]] = 1
    BY <1>1, <2>1
  <2>. QED
    BY <1>3, <2>1, <2>2
<1>19. OnDisk
  <2>. SUFFICES ASSUME NEW p \in Page, Absent(p) PROVE disk[p] = latest[p]
    BY DEF OnDisk
  <2>1. ASSUME NEW f \in Frame, load.hot[f] = p PROVE FALSE
    <3>1. PICK b : b = Hash[1][p]
      OBVIOUS
    <3>2. b \in Bucket
      BY <3>1, HashInBucket
    <3>3. f \in Loaded(load, b)
      BY <1>2, <2>1, <3>1 DEF Loaded
    <3>4. PICK g \in Frame : Residents(b) = {g} /\ load.hot[g] \in Page /\ b = Hash[1][load.hot[g]]
      BY <1>5, <3>2, <3>3
    <3>5. g \in Loaded(load, b)
      BY <1>2, <3>4 DEF Loaded
    <3>6. g = f
      BY <3>3, <3>5, LoadedOnce
    <3>7. InTable(f)
      BY <3>2, <3>4, <3>6 DEF InTable
    <3>. QED
      BY <1>3, <2>1, <3>7 DEF Absent
  <2>. QED
    BY <1>1, <2>1
<1>20. Positive /\ Cleaned
  <2>1. \A f \in Frame : cb[f].ver = 1 /\ cb[f].writing = FALSE
    BY <1>3
  <2>. QED
    BY ONLY <2>1 DEF Positive, Cleaned
<1>. QED
  BY ONLY <1>7, <1>8, <1>9, <1>10, <1>11, <1>12, <1>13, <1>14, <1>15, <1>16, <1>17, <1>18, <1>19, <1>20 DEF IInv
-----------------------------------------------------------------------------
\* A page is in the table once: one frame, in one slot, of one of its two buckets, though it is
\* searched without locks and moved by others meanwhile.
THEOREM PoolOneFrame ==
  ASSUME PoolConstants, ~Overtaken
  PROVE  SparedSpec => []OneFrame
<1>1. SparedInit => IInv
  BY InitKeeps
<1>2. IInv /\ [SparedNext]_hvars => IInv'
  BY NextKeeps
<1>3. IInv => OneFrame
  BY OnceInPool
<1>. QED
  BY <1>1, <1>2, <1>3, PTL DEF SparedSpec

\* Who has fixed a page has that page, in its last version, though frames are replaced and cleaned
\* meanwhile.
THEOREM PoolFixedRight ==
  ASSUME PoolConstants, ~Overtaken
  PROVE  SparedSpec => []FixedRight
<1>1. SparedInit => IInv
  BY InitKeeps
<1>2. IInv /\ [SparedNext]_hvars => IInv'
  BY NextKeeps
<1>3. IInv => FixedRight
  BY RightWhenFixed
<1>. QED
  BY <1>1, <1>2, <1>3, PTL DEF SparedSpec

\* The last version of a page is on disk, or in a frame that is dirty or being written: no update is
\* lost by replacement or cleaning.
THEOREM PoolNothingLost ==
  ASSUME PoolConstants, ~Overtaken
  PROVE  SparedSpec => []NothingLost
<1>1. SparedInit => IInv
  BY InitKeeps
<1>2. IInv /\ [SparedNext]_hvars => IInv'
  BY NextKeeps
<1>3. IInv => NothingLost
  BY LastVersionKept
<1>. QED
  BY <1>1, <1>2, <1>3, PTL DEF SparedSpec

\* A pin count is the number of the threads that have pinned the frame, and an EX latch excludes all
\* others.
THEOREM PoolPinned ==
  ASSUME PoolConstants, ~Overtaken
  PROVE  SparedSpec => [](PinsCounted /\ Excluded)
<1>1. SparedInit => IInv
  BY InitKeeps
<1>2. IInv /\ [SparedNext]_hvars => IInv'
  BY NextKeeps
<1>3. IInv => PinsCounted /\ Excluded
  BY DEF IInv
<1>. QED
  BY <1>1, <1>2, <1>3, PTL DEF SparedSpec
=============================================================================
