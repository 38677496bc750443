----------------------------- MODULE BufferPool -----------------------------
(***************************************************************************)
(* The buffer pool: finding a page, replacing another by it, and cleaning. *)
(*                                                                         *)
(* The table of the pages that are in the pool is a cuckoo hash table.  It *)
(* is searched without locks, so that a search may miss a page that is     *)
(* moved meanwhile; who finds nothing takes a frame, from the free list or *)
(* from another page, and looks again, with the mutex of the page's        *)
(* transit bucket, before he puts his page in.  A dirty page that leaves   *)
(* is written without being in the table, and its transit bucket keeps     *)
(* others from reading it until then.                                      *)
(*                                                                         *)
(* A frame's pin count keeps it in the table, its latch guards what is in  *)
(* it.  A count that is zero is raised only with the lock of the bucket.   *)
(*                                                                         *)
(* The cleaner copies a dirty page, marks it clean and writes the copy     *)
(* later; the page's write mutex goes with it.                             *)
(***************************************************************************)
EXTENDS Integers, FiniteSets, Threads

CONSTANTS
  Frame, Page,
  Hash,            \* the two hash functions: <<page -> bucket, page -> bucket>>
  SlotCount,       \* SLOT_COUNT
  Transit,         \* page -> its transit bucket
  WriteMutex,      \* page -> its page_write_mutex
  Overtaken,       \* whether a slot may have another page by the time of the pin, or the move, for
                   \* which it was read
  Loads,           \* what to start with, see PoolInit
  NoOne

VARIABLES
  cb,        \* frame -> its control block; held is the latch, thread -> mode
  table,     \* bucket -> [slot, count], _htab
  unused,    \* _unused
  transit,   \* transit bucket -> pages in transit
  tb,        \* transit bucket -> who has its mutex
  writer,    \* write mutex -> who has it
  disk,      \* page -> the version on disk
  latest,    \* page -> the last version anybody made
  may,       \* thread -> what it may call: <<page, mode>>, the mode of fix or "clean"
  place, my  \* thread -> where it is, and its locals

poolVars == <<cb, table, unused, transit, tb, writer, disk, latest, may, place, my>>
store == <<disk, latest, may>>
locks == <<transit, tb, writer>>

Bucket == {Hash[i][p] : i \in 1..2, p \in Page}

NoLocals == [p |-> NoOne, mode |-> "NL", i |-> 1, s |-> 1, f |-> NoOne, b |-> NoOne, to |-> NoOne, victim |-> NoOne,
             first |-> TRUE, residents |-> <<0, 0>>, same |-> 0, copy |-> 0, todo |-> 0]
Unlatched == [t \in Thread |-> "NL"]

\* The constants that the code can have, and the loads that PoolInit can make a pool of: what is in
\* the pool at first is in the first bucket of its page, alone.
PoolConstants ==
  /\ IsFiniteSet(Thread) /\ NoOne \notin Thread \union Frame \union Page
  /\ SlotCount \in Nat \ {0}
  /\ Overtaken \in BOOLEAN
  /\ \A load \in Loads :
       /\ load.hot \in [Frame -> Page \union {NoOne}]
       /\ load.free \in SUBSET {f \in Frame : load.hot[f] = NoOne}
       /\ load.todo \in [Thread -> Nat]
       /\ load.may \in [Thread -> SUBSET (Page \X {"SH", "EX", "clean"})]
       /\ \A f, g \in Frame : f # g /\ NoOne \notin {load.hot[f], load.hot[g]} =>
            Hash[1][load.hot[f]] # Hash[1][load.hot[g]]

\* A load: what is in the pool, updated and not yet written, the free frames, and the calls
\* that each thread may make and their number.
PoolInit ==
  \E load \in Loads :
    LET In(b) == {f \in Frame : load.hot[f] # NoOne /\ Hash[1][load.hot[f]] = b}
        hot   == {load.hot[f] : f \in Frame} \ {NoOne}
    IN  /\ cb = [f \in Frame |->
                   [pid |-> load.hot[f], old |-> NoOne, pin |-> 0, held |-> Unlatched,
                    dirty |-> load.hot[f] # NoOne, writing |-> FALSE, page |-> load.hot[f], ver |-> 1]]
        /\ table = [b \in Bucket |->
                      [slot |-> [i \in 1..SlotCount |->
                                   IF i = 1 /\ In(b) # {} THEN CHOOSE f \in In(b) : TRUE ELSE NoOne],
                       count |-> Cardinality(In(b))]]
        /\ unused = load.free
        /\ transit = [b \in {Transit[p] : p \in Page} |-> {}]
        /\ tb = [b \in {Transit[p] : p \in Page} |-> NoOne]
        /\ writer = [m \in {WriteMutex[p] : p \in Page} |-> NoOne]
        /\ disk = [p \in Page |-> 0]
        /\ latest = [p \in Page |-> IF p \in hot THEN 1 ELSE 0]
        /\ may = load.may
        /\ place = [t \in Thread |-> "out"]
        /\ my = [t \in Thread |-> [NoLocals EXCEPT !.todo = load.todo[t]]]

StepTo(t, where) == place' = [place EXCEPT ![t] = where]
ReturnFrom(t) == StepTo(t, "out") /\ my' = [my EXCEPT ![t] = [NoLocals EXCEPT !.todo = my[t].todo]]

\* The slots in use, and the frame in them that has the page.
Residents(b) == {table[b].slot[i] : i \in 1..table[b].count}
Get(b, p) == {f \in Residents(b) : cb[f].pid = p}
InTable(f) == \E b \in Bucket : f \in Residents(b)
HasRoom(b) == table[b].count < SlotCount

\* The buckets after f has been put into b, has left it, or has moved from one to another.
\* (The last slot keeps what was in it, unless that is what left.)
Put(T, b, f) ==
  [T EXCEPT ![b].slot[T[b].count + 1] = f, ![b].count = @ + 1]

Remove(T, b, f) ==
  LET k == CHOOSE i \in 1..T[b].count : T[b].slot[i] = f
      n == T[b].count
  IN  [T EXCEPT ![b].slot = [i \in 1..SlotCount |-> IF i < k \/ i > n THEN @[i]
                                                    ELSE IF i < n THEN @[i + 1]
                                                    ELSE IF k = n THEN NoOne ELSE @[n]],
                ![b].count = n - 1]

Move(T, b, k, to) ==
  Put([T EXCEPT ![b].slot[k] = T[b].slot[T[b].count], ![b].count = @ - 1], to, T[b].slot[k])

Compatible(f, t, mode) ==
  \A u \in Thread \ {t} : cb[f].held[u] = "NL" \/ (cb[f].held[u] = "SH" /\ mode = "SH")
Nobody(f) == \A t \in Thread : cb[f].held[t] = "NL"
-----------------------------------------------------------------------------
(***************************************************************************)
(* bf_core_m::find and htab::lookup.                                       *)
(***************************************************************************)

\* bf_m::fix in a mode, or a page of _clean_segment's list.
Fix(t) ==
  /\ place[t] = "out" /\ my[t].todo > 0
  /\ \E call \in may[t] :
       my' = [my EXCEPT ![t].p = call[1], ![t].mode = call[2], ![t].todo = @ - 1]
  /\ StepTo(t, "search")
  /\ UNCHANGED <<cb, table, unused, locks, store>>

Cleans(t) == my[t].mode = "clean"
Mode(t) == IF Cleans(t) THEN "SH" ELSE my[t].mode
Here(t) == Hash[my[t].i][my[t].p]

\* All slots of the first bucket are looked at; then those of the second.  _lookup_harsh, which
\* is to look again, never does: its loops end when there is no result yet.
NextBucket(t) ==
  /\ place[t] = "search" /\ my[t].s > table[Here(t)].count
  /\ IF my[t].i = 1
       THEN my' = [my EXCEPT ![t].i = 2, ![t].s = 1] /\ UNCHANGED place
     ELSE IF ~Cleans(t)
       THEN StepTo(t, "take") /\ UNCHANGED my
       ELSE ReturnFrom(t)
  /\ UNCHANGED <<cb, table, unused, locks, store>>

Found(t, f) == my' = [my EXCEPT ![t].f = f] /\ StepTo(t, "latch")
Pinned(f) == [cb EXCEPT ![f].pin = @ + 1]
NextSlot(t) == my' = [my EXCEPT ![t].s = @ + 1] /\ StepTo(t, "search") /\ UNCHANGED cb

\* A frame that is pinned is pinned once more, and unpinned if it has another page; one that is
\* not is read again and pinned with the lock of the bucket.
Pin(t, f) ==
  IF cb[f].pin > 0
    THEN IF cb[f].pid = my[t].p THEN cb' = Pinned(f) /\ Found(t, f) ELSE NextSlot(t)
    ELSE LET g == table[Here(t)].slot[my[t].s]
         IN  IF g # NoOne /\ cb[g].pid = my[t].p THEN cb' = Pinned(g) /\ Found(t, g) ELSE NextSlot(t)

ReadSlot(t) ==
  /\ place[t] = "search" /\ my[t].s <= table[Here(t)].count
  /\ my' = [my EXCEPT ![t].f = table[Here(t)].slot[my[t].s]]
  /\ StepTo(t, "probe")
  /\ UNCHANGED <<cb, table, unused, locks, store>>

Probe(t) ==
  /\ place[t] = "probe"
  /\ Pin(t, my[t].f)
  /\ UNCHANGED <<table, unused, locks, store>>

\* What was found is pinned and may be waited for.  _fix then gives the frame the page's name.
Latch(t) ==
  LET f == my[t].f
  IN  /\ place[t] = "latch" /\ Compatible(f, t, Mode(t))
      /\ cb' = [cb EXCEPT ![f].held[t] = Mode(t), ![f].pid = IF ~Cleans(t) THEN my[t].p ELSE @]
      /\ StepTo(t, IF ~Cleans(t) THEN "fixed" ELSE "clean")
      /\ UNCHANGED <<table, unused, locks, store, my>>

\* The cleaner may not wait for a latch (WAIT_IMMEDIATE).
LatchFails(t) ==
  /\ place[t] = "latch" /\ Cleans(t) /\ ~Compatible(my[t].f, t, Mode(t))
  /\ cb' = [cb EXCEPT ![my[t].f].pin = @ - 1]
  /\ ReturnFrom(t)
  /\ UNCHANGED <<table, unused, locks, store>>
-----------------------------------------------------------------------------
(***************************************************************************)
(* bf_core_m::replacement.                                                 *)
(***************************************************************************)
TakeFree(t) ==
  /\ place[t] = "take"
  /\ \E f \in unused :
       /\ unused' = unused \ {f}
       /\ cb' = [cb EXCEPT ![f].pin = 0, ![f].old = NoOne, ![f].dirty = FALSE, ![f].held[t] = "EX"]
       /\ my' = [my EXCEPT ![t].f = f]
  /\ StepTo(t, "grab")
  /\ UNCHANGED <<table, locks, store>>

\* In the table, not pinned and not being written; and a dirty page needs its transit bucket.
CanReplace(f) ==
  /\ InTable(f) /\ cb[f].pin = 0 /\ ~cb[f].writing
  /\ cb[f].dirty => transit[Transit[cb[f].pid]] = {}

\* The clock stops at a frame, and lets its mutex go.
Choose(t) ==
  /\ \/ place[t] = "take" /\ unused = {}
     \/ place[t] = "clock"
  /\ \E f \in Frame, b \in Bucket :
       /\ CanReplace(f) /\ f \in Residents(b)
       /\ my' = [my EXCEPT ![t].f = f, ![t].b = b, ![t].victim = cb[f].pid]
  /\ StepTo(t, "evict")
  /\ UNCHANGED <<cb, table, unused, locks, store>>

\* fcFULL.
NoFrame(t) ==
  /\ \/ place[t] = "take" /\ unused = {}
     \/ place[t] = "clock"
  /\ \A f \in Frame : ~CanReplace(f)
  /\ ReturnFrom(t)
  /\ UNCHANGED <<cb, table, unused, locks, store>>

\* Nobody is between reading a slot and the pin or the move that relies on it.
NothingRead == \A u \in Thread : place[u] \notin {"probe", "move"}

\* With the mutex of the transit bucket and the lock of the bucket, and without waiting for
\* the latch and the write mutex.
Evict(t) ==
  LET f == my[t].f
      v == my[t].victim
  IN  /\ place[t] = "evict" /\ tb[Transit[v]] = NoOne
      /\ ~Overtaken => NothingRead
      /\ IF Nobody(f) /\ writer[WriteMutex[v]] = NoOne /\ f \in Get(my[t].b, v) /\ CanReplace(f)
           THEN /\ cb' = [cb EXCEPT ![f].held[t] = "EX", ![f].old = cb[f].pid]
                /\ table' = Remove(table, my[t].b, f)
                /\ transit' = IF cb[f].dirty THEN [transit EXCEPT ![Transit[v]] = @ \union {v}] ELSE transit
                /\ StepTo(t, "evicted")
           ELSE UNCHANGED <<cb, table, transit>> /\ StepTo(t, "clock")
      /\ my' = [my EXCEPT ![t].b = NoOne, ![t].victim = NoOne]
      /\ UNCHANGED <<unused, tb, writer, store>>

\* _fix waits for a cleaner that writes the page, or writes it itself: _replace_out.
VictimClean(t) ==
  LET c == cb[my[t].f]
  IN  /\ place[t] = "evicted" /\ ~c.dirty
      /\ c.writing => writer[WriteMutex[c.pid]] = NoOne
      /\ StepTo(t, "partial")
      /\ UNCHANGED <<cb, table, unused, locks, store, my>>

VictimDirty(t) ==
  LET m == WriteMutex[cb[my[t].f].pid]
  IN  /\ place[t] = "evicted" /\ cb[my[t].f].dirty /\ writer[m] = NoOne
      /\ writer' = [writer EXCEPT ![m] = t]
      /\ StepTo(t, "write")
      /\ UNCHANGED <<cb, table, unused, transit, tb, store, my>>

ReplaceOut(t) ==
  LET c == cb[my[t].f]
  IN  /\ place[t] = "write"
      /\ disk' = [disk EXCEPT ![c.page] = c.ver]
      /\ cb' = [cb EXCEPT ![my[t].f].dirty = FALSE]
      /\ writer' = [writer EXCEPT ![WriteMutex[c.pid]] = NoOne]
      /\ StepTo(t, "partial")
      /\ UNCHANGED <<table, unused, transit, tb, latest, may, my>>

\* publish_partial: the old page may be read again.
PublishPartial(t) ==
  LET p == cb[my[t].f].old
  IN  /\ place[t] = "partial" /\ tb[Transit[p]] = NoOne
      /\ transit' = [transit EXCEPT ![Transit[p]] = @ \ {p}]
      /\ cb' = [cb EXCEPT ![my[t].f].old = NoOne]
      /\ StepTo(t, "grab")
      /\ UNCHANGED <<table, unused, tb, writer, store, my>>
-----------------------------------------------------------------------------
(***************************************************************************)
(* bf_core_m::grab, with the frame in my.f, latched.                       *)
(***************************************************************************)
Grab(t) ==
  /\ place[t] = "grab"
  /\ cb' = Pinned(my[t].f)
  /\ my' = [my EXCEPT ![t].i = 1, ![t].s = 1]
  /\ StepTo(t, "transit")
  /\ UNCHANGED <<table, unused, locks, store>>

\* Slip: nobody waits for a page in transit.
NotInTransit_Never(p) == TRUE

NotInTransit(p) == p \notin transit[Transit[p]]

AwaitTransit(t) ==
  LET b == Transit[my[t].p]
  IN  /\ place[t] = "transit" /\ tb[b] = NoOne /\ NotInTransit(my[t].p)
      /\ tb' = [tb EXCEPT ![b] = t]
      /\ StepTo(t, "look")
      /\ UNCHANGED <<cb, table, unused, transit, writer, store, my>>

\* Slip: one look at each bucket is enough.
Settled_AtOnce(same) == TRUE

\* A round in which no bucket's count has changed.
Settled(same) == same = 2

\* The page is not in the bucket.  After the second bucket another round, until the counts of
\* both have stayed the same.
NotHere(t) ==
  LET i     == my[t].i
      count == table[Here(t)].count
      same  == IF my[t].first \/ my[t].residents[i] # count THEN my[t].same ELSE my[t].same + 1
      seen  == [my[t] EXCEPT !.residents[i] = count, !.same = same, !.i = 3 - i]
  IN  /\ place[t] = "look" /\ Get(Here(t), my[t].p) = {}
      /\ IF i = 1
           THEN my' = [my EXCEPT ![t] = seen] /\ UNCHANGED <<cb, place>>
         ELSE IF Settled(same)
           THEN /\ my' = [my EXCEPT ![t].i = 1, ![t].first = TRUE, ![t].residents = <<0, 0>>, ![t].same = 0]
                /\ cb' = [cb EXCEPT ![my[t].f].pid = my[t].p]
                /\ StepTo(t, "insert")
           ELSE /\ my' = [my EXCEPT ![t] = [seen EXCEPT !.first = FALSE, !.same = 0]]
                /\ UNCHANGED <<cb, place>>
      /\ UNCHANGED <<table, unused, locks, store>>

\* Somebody else has brought it in: this frame is free.
FoundAfterAll(t) ==
  LET f == my[t].f
  IN  /\ place[t] = "look"
      /\ \E g \in Get(Here(t), my[t].p) :
           /\ cb' = [cb EXCEPT ![f].held[t] = "NL", ![f].pin = @ - 1, ![g].pin = @ + 1]
           /\ my' = [my EXCEPT ![t] = [NoLocals EXCEPT !.p = my[t].p, !.mode = my[t].mode, !.todo = my[t].todo, !.f = g]]
      /\ unused' = unused \union {f}
      /\ tb' = [tb EXCEPT ![Transit[my[t].p]] = NoOne]
      /\ StepTo(t, "latch")
      /\ UNCHANGED <<table, transit, writer, store>>

\* htab::insert, into the first bucket with room, or the one where room was made.
PutIn(t) ==
  /\ place[t] = "insert"
  /\ \E i \in 1..2 :
       /\ HasRoom(Hash[i][my[t].p])
       /\ table' = Put(table, Hash[i][my[t].p], my[t].f)
  /\ tb' = [tb EXCEPT ![Transit[my[t].p]] = NoOne]
  /\ StepTo(t, "read")
  /\ UNCHANGED <<cb, unused, transit, writer, store, my>>

\* ensure_space: a resident of a full bucket moves to its other one; if those are full, one of
\* them is made to have room first.
Others(b) == {Hash[j][cb[g].pid] : g \in Residents(b), j \in 1..2} \ {b}
Movable(b) == \E to \in Others(b) : HasRoom(to)
Emptied(p) ==
  LET Try(b) == IF Movable(b) THEN {b} ELSE {c \in Others(b) : Movable(c)}
      first  == Try(Hash[1][p])
  IN  IF first # {} THEN first ELSE Try(Hash[2][p])

\* Which slot, and where its page belongs, is read without locks.
EnsureSpace(t) ==
  LET p == my[t].p
  IN  /\ place[t] = "insert" /\ ~HasRoom(Hash[1][p]) /\ ~HasRoom(Hash[2][p])
      /\ ~Overtaken => NothingRead
      /\ \E b \in Emptied(p) : \E k \in 1..table[b].count, j \in 1..2 :
           LET to == Hash[j][cb[table[b].slot[k]].pid]
           IN  /\ to # b /\ HasRoom(to)
               /\ my' = [my EXCEPT ![t].b = b, ![t].s = k, ![t].to = to]
      /\ StepTo(t, "move")
      /\ UNCHANGED <<cb, table, unused, locks, store>>

\* cuckold: the two buckets are locked, and their counts read again.
Cuckold(t) ==
  LET m == my[t]
  IN  /\ place[t] = "move"
      /\ table' = IF ~HasRoom(m.b) /\ HasRoom(m.to) THEN Move(table, m.b, m.s, m.to) ELSE table
      /\ my' = [my EXCEPT ![t].b = NoOne, ![t].s = 1, ![t].to = NoOne]
      /\ StepTo(t, "insert")
      /\ UNCHANGED <<cb, unused, locks, store>>

\* get_page and publish.
Read(t) ==
  LET p == my[t].p
  IN  /\ place[t] = "read"
      /\ cb' = [cb EXCEPT ![my[t].f].page = p, ![my[t].f].ver = disk[p], ![my[t].f].held[t] = my[t].mode]
      /\ StepTo(t, "fixed")
      /\ UNCHANGED <<table, unused, locks, store, my>>
-----------------------------------------------------------------------------
(***************************************************************************)
(* A page that is fixed, and unfix.                                        *)
(***************************************************************************)
Update(t) ==
  LET f == my[t].f
  IN  /\ place[t] = "fixed" /\ my[t].mode = "EX"
      /\ cb' = [cb EXCEPT ![f].ver = @ + 1, ![f].dirty = TRUE]
      /\ latest' = [latest EXCEPT ![my[t].p] = cb[f].ver + 1]
      /\ StepTo(t, "unfix")
      /\ UNCHANGED <<table, unused, locks, disk, may, my>>

\* Unpinned first, then unlatched.
Unpin(t) ==
  /\ place[t] \in {"fixed", "unfix"}
  /\ cb' = [cb EXCEPT ![my[t].f].pin = @ - 1]
  /\ StepTo(t, "unlatch")
  /\ UNCHANGED <<table, unused, locks, store, my>>

Unlatch(t) ==
  /\ place[t] = "unlatch"
  /\ cb' = [cb EXCEPT ![my[t].f].held[t] = "NL"]
  /\ IF my[t].copy > 0 THEN StepTo(t, "flush") /\ UNCHANGED my ELSE ReturnFrom(t)
  /\ UNCHANGED <<table, unused, locks, store>>
-----------------------------------------------------------------------------
(***************************************************************************)
(* _clean_segment, of one page at a time.                                  *)
(***************************************************************************)
TestDirty(t) ==
  /\ place[t] = "clean"
  /\ StepTo(t, IF cb[my[t].f].dirty THEN "lock" ELSE "unfix")
  /\ UNCHANGED <<cb, table, unused, locks, store, my>>

LockPage(t) ==
  LET m == WriteMutex[my[t].p]
  IN  /\ place[t] = "lock" /\ writer[m] = NoOne
      /\ writer' = [writer EXCEPT ![m] = t]
      /\ StepTo(t, "copy")
      /\ UNCHANGED <<cb, table, unused, transit, tb, store, my>>

\* Slip: the write mutex is let go before the copy is written.
WhileWritten_Free(m) == [writer EXCEPT ![m] = NoOne]

\* The write mutex is kept until the copy is written.
WhileWritten(m) == writer

\* Still dirty: the copy is taken and the page marked clean.
Copy(t) ==
  LET f == my[t].f
      m == WriteMutex[my[t].p]
  IN  /\ place[t] = "copy"
      /\ IF InTable(f) /\ cb[f].dirty
           THEN /\ cb' = [cb EXCEPT ![f].writing = TRUE, ![f].dirty = FALSE]
                /\ my' = [my EXCEPT ![t].copy = cb[f].ver]
                /\ writer' = WhileWritten(m)
           ELSE /\ writer' = [writer EXCEPT ![m] = NoOne]
                /\ UNCHANGED <<cb, my>>
      /\ StepTo(t, "unfix")
      /\ UNCHANGED <<table, unused, transit, tb, store>>

\* _write_out, and the page is no longer being written.
WriteOut(t) ==
  /\ place[t] = "flush"
  /\ disk' = [disk EXCEPT ![my[t].p] = my[t].copy]
  /\ cb' = [cb EXCEPT ![my[t].f].writing = FALSE]
  /\ writer' = [writer EXCEPT ![WriteMutex[my[t].p]] = NoOne]
  /\ ReturnFrom(t)
  /\ UNCHANGED <<table, unused, transit, tb, latest, may>>
-----------------------------------------------------------------------------
Step(t) ==
  \/ Fix(t) \/ Update(t)
  \/ NextBucket(t) \/ ReadSlot(t) \/ Probe(t) \/ Latch(t) \/ LatchFails(t)
  \/ TakeFree(t) \/ Choose(t) \/ NoFrame(t) \/ Evict(t)
  \/ VictimClean(t) \/ VictimDirty(t) \/ ReplaceOut(t) \/ PublishPartial(t)
  \/ Grab(t) \/ AwaitTransit(t) \/ NotHere(t) \/ FoundAfterAll(t)
  \/ PutIn(t) \/ EnsureSpace(t) \/ Cuckold(t) \/ Read(t)
  \/ Unpin(t) \/ Unlatch(t)
  \/ TestDirty(t) \/ LockPage(t) \/ Copy(t) \/ WriteOut(t)

Done ==
  /\ \A t \in Thread : place[t] = "out" /\ my[t].todo = 0
  /\ UNCHANGED poolVars

PoolNext == (\E t \in Thread : Step(t)) \/ Done

PoolSpec == PoolInit /\ [][PoolNext]_poolVars
-----------------------------------------------------------------------------
\* A page is in the table once: one frame, in one slot, of one of its two buckets.
OneFrame ==
  \A b, c \in Bucket : \A i \in 1..table[b].count, j \in 1..table[c].count :
    LET f == table[b].slot[i]
    IN  /\ \E h \in 1..2 : b = Hash[h][cb[f].pid]
        /\ cb[f].pid = cb[table[c].slot[j]].pid => b = c /\ i = j

\* Who has fixed a page has that page, in its last version.
FixedRight ==
  \A t \in Thread : place[t] \in {"fixed", "unfix"} /\ ~Cleans(t) =>
    LET c == cb[my[t].f]
    IN  c.page = my[t].p /\ c.ver = latest[my[t].p]

\* The last version of a page is on disk, or in a frame that is dirty or being written.
NothingLost ==
  \A p \in Page : disk[p] = latest[p] \/
    \E f \in Frame : cb[f].page = p /\ cb[f].ver = latest[p] /\ (cb[f].dirty \/ cb[f].writing)
=============================================================================
