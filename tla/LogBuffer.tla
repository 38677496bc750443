----------------------------- MODULE LogBuffer -----------------------------
(***************************************************************************)
(* The log buffer: inserts in groups, copies outside the insert lock, and  *)
(* the flush daemon.                                                       *)
(*                                                                         *)
(* Threads that insert at the same time join a slot; the first of them     *)
(* takes the insert lock and space in the buffer for all, and gives the    *)
(* lock back before any of them copies.  The last one out of a group       *)
(* exposes it to the daemon, in the order of the log: by waiting for the   *)
(* group before, or by leaving the job to that group's last one.           *)
(*                                                                         *)
(* The daemon flushes what the epochs say: the current one, and the one    *)
(* before it when the buffer wrapped or a partition was full.              *)
(*                                                                         *)
(* The unit of length is what records are aligned to.  The features are    *)
(* those the code is compiled with, cdme.  mcs_lock is taken for what      *)
(* McsLock shows of it, a first-come first-served lock.                    *)
(***************************************************************************)
EXTENDS Integers, Sequences, FiniteSets

CONSTANTS
  Thread,
  Block,        \* BLOCK_SIZE
  Seg,          \* _segsize, the length of the buffer
  Data,         \* _partition_data_size, a multiple of Seg
  Loads,        \* what to start with, see Init
  Slots,        \* SLOT_ARRAY_SIZE
  Active        \* SLOT_ACTIVE_COUNT

VARIABLES
  slots,     \* _slots
  info,      \* the insert_infos of _slot_array
  turn,      \* queue of _insert_lock
  expose,    \* queue of _expose_lock
  buf,       \* _buf_epoch
  cur, old,  \* _cur_epoch, _old_epoch
  tail,      \* _curr_lsn
  start, end,
  bytes,     \* _buf: offset -> the lsn of what is there
  clr,       \* lsns of the records that compensate() changed in _buf
  flag,      \* [space, flush |-> BOOLEAN], _waiting_for_space and _waiting_for_flush
  pc, my,    \* thread -> where it is, and its locals
  dpc, fl,   \* the same for the daemon
  flushing,  \* _flush_lsn
  durable,   \* _durable_lsn
  kept,      \* the records of clr that are so on disk
  world      \* what is outside: [full |-> whether the rest of a partition may be refused,
             \* waits |-> whether transactions wait for log space, commit |-> who flushes,
             \* size |-> the lengths of the records]

group == <<slots, info, turn, expose>>
ends == <<buf, tail, end>>
epochs == <<cur, old>>
disk == <<flushing, durable, start, kept>>
vars == <<group, ends, epochs, bytes, clr, flag, pc, my, dpc, fl, disk, world>>

Slot == 0..(Slots - 1)

\* An lsn is a partition and an offset.  A partition has a block more than its data.
LsnAt(file, lo) == file * (Data + Block) + lo
file(lsn) == lsn \div (Data + Block)
lo(lsn) == lsn % (Data + Block)
first_lsn(f) == LsnAt(f, 0)

Where(lsn) == lo(lsn) % Seg
Epoch(lsn, base, s, e) == [lsn |-> lsn, base |-> base, start |-> s, end |-> e]
Empty(e) == e.start = e.end

\* A slot: joined is what its members asked for so far, left what they have not copied yet.
NewInfo(count) ==
  [count |-> count, joined |-> 0, left |-> 0, error |-> FALSE, lsn |-> 0, oldEnd |-> 0,
   startPos |-> 0, pos |-> 0, newEnd |-> 0, newBase |-> -1, state |-> "none"]

NoLocals == [n |-> 0, idx |-> 0, slot |-> 0, pos |-> 0, lsn |-> -1, size |-> 0, todo |-> 0]
Returned(m, lsn, size) == [NoLocals EXCEPT !.lsn = lsn, !.size = size, !.todo = m.todo]
NoFlush == [lsn |-> 0, start1 |-> 0, end1 |-> 0, start2 |-> 0, end2 |-> 0,
            upto |-> 0, newStart |-> 0, success |-> FALSE]

\* A load: where the log ends at startup, how many records each thread will insert, the world.
Init ==
  /\ slots = [i \in 0..(Active - 1) |-> i]
  /\ info = [s \in Slot |-> NewInfo(IF s < Active THEN "available" ELSE "unused")]
  /\ turn = <<>> /\ expose = <<>>
  /\ \E load \in Loads :
       LET next   == load.at
           offset == next % Seg
           base   == next - offset
       IN  /\ tail = next /\ flushing = next /\ durable = next
           /\ start = next /\ end = next
           /\ cur = Epoch(base, base, offset, offset)
           /\ bytes = [p \in 0..(Seg - 1) |->
                         IF p < offset /\ offset - (next % Block) <= p THEN base + p ELSE -1]
           /\ my = [t \in Thread |-> [NoLocals EXCEPT !.todo = load.todo[t]]]
           /\ world = load.world
  /\ buf = cur /\ old = Epoch(0, 0, 0, 0)
  /\ clr = {} /\ kept = {}
  /\ flag = [space |-> FALSE, flush |-> FALSE]
  /\ pc = [t \in Thread |-> "out"]
  /\ dpc = "top" /\ fl = NoFlush

Go(t, p) == pc' = [pc EXCEPT ![t] = p]

\* pthread_cond_signal(&_flush_cond), and a broadcast on _wait_cond.
SignalDaemon == dpc' = IF dpc = "asleep" THEN "work" ELSE dpc
Broadcast ==
  pc' = [t \in Thread |-> IF pc[t] = "space asleep" THEN "space wait"
                          ELSE IF pc[t] = "flush asleep" THEN "flush wait" ELSE pc[t]]
-----------------------------------------------------------------------------
(***************************************************************************)
(* The consolidation array.                                                *)
(***************************************************************************)

\* insert, with the slot that the thread's id hashes to.
Insert(t) ==
  /\ pc[t] = "out" /\ my[t].todo > 0
  /\ \E n \in world.size, i \in 0..(Active - 1) :
       my' = [my EXCEPT ![t].n = n, ![t].idx = i, ![t].slot = slots[i], ![t].todo = @ - 1]
  /\ Go(t, "join")
  /\ UNCHANGED <<group, ends, epochs, bytes, clr, flag, dpc, fl, disk, world>>

\* The slot has been closed since it was read.
NextSlot(t) ==
  LET i == (my[t].idx + 1) % Active
  IN  /\ pc[t] = "join" /\ info[my[t].slot].count # "available"
      /\ my' = [my EXCEPT ![t].idx = i, ![t].slot = slots[i]]
      /\ UNCHANGED <<group, ends, epochs, bytes, clr, flag, pc, dpc, fl, disk, world>>

\* Slip: every member starts where the group starts.
Join_First(t) ==
  LET s == my[t].slot
  IN  /\ pc[t] = "join" /\ info[s].count = "available"
      /\ my' = [my EXCEPT ![t].pos = 0]
      /\ info' = [info EXCEPT ![s].joined = @ + my[t].n]
      /\ IF info[s].joined = 0 THEN turn' = Append(turn, t) /\ Go(t, "first")
                               ELSE UNCHANGED turn /\ Go(t, "copy")
      /\ UNCHANGED <<slots, expose, ends, epochs, bytes, clr, flag, dpc, fl, disk, world>>

\* The compare-and-swap that adds the size.  The first one queues for the insert lock.
Join(t) ==
  LET s == my[t].slot
  IN  /\ pc[t] = "join" /\ info[s].count = "available"
      /\ my' = [my EXCEPT ![t].pos = info[s].joined]
      /\ info' = [info EXCEPT ![s].joined = @ + my[t].n]
      /\ IF info[s].joined = 0 THEN turn' = Append(turn, t) /\ Go(t, "first")
                               ELSE UNCHANGED turn /\ Go(t, "copy")
      /\ UNCHANGED <<slots, expose, ends, epochs, bytes, clr, flag, dpc, fl, disk, world>>

\* With the insert lock: a fresh slot for those who come next, this one is closed.
Close(t) ==
  LET s == my[t].slot
  IN  /\ pc[t] = "first" /\ Head(turn) = t
      /\ \E fresh \in Slot :
           /\ info[fresh].count = "unused"
           /\ slots' = [slots EXCEPT ![my[t].idx] = fresh]
           /\ info' = [info EXCEPT ![fresh] = NewInfo("available"), ![s].count = "pending"]
      /\ Go(t, "space")
      /\ UNCHANGED <<turn, expose, ends, epochs, bytes, clr, flag, my, dpc, fl, disk, world>>
-----------------------------------------------------------------------------
(***************************************************************************)
(* _acquire_buffer_space.                                                  *)
(***************************************************************************)
Wanted(t) == info[my[t].slot].joined
\* Slip: without the two blocks, one of which may be in use from its start, the other be left
\* out at the end of a partition.
Room_Whole(n) == end - start + n <= Seg

Room(n) == end - start + n <= Seg - 2 * Block

\* The insert lock goes; then a look under _wait_flush_lock.
NoSpace(t) ==
  /\ pc[t] = "space" /\ Head(turn) = t
  /\ flag.space \/ ~Room(Wanted(t))
  /\ turn' = Tail(turn)
  /\ Go(t, "space wait")
  /\ UNCHANGED <<slots, info, expose, ends, epochs, bytes, clr, flag, my, dpc, fl, disk, world>>

AwaitSpace(t) ==
  /\ pc[t] = "space wait" /\ ~Room(Wanted(t))
  /\ flag' = [flag EXCEPT !.space = TRUE]
  /\ SignalDaemon
  /\ Go(t, "space asleep")
  /\ UNCHANGED <<group, ends, epochs, bytes, clr, my, fl, disk, world>>

SpaceCame(t) ==
  /\ pc[t] = "space wait" /\ Room(Wanted(t))
  /\ turn' = Append(turn, t)
  /\ Go(t, "space")
  /\ UNCHANGED <<slots, info, expose, ends, epochs, bytes, clr, flag, my, dpc, fl, disk, world>>

\* The group gets its piece of the log: at the end of the buffer, around it, or at the start
\* of the next partition.  It queues up to be exposed, the insert lock goes, the members hear.
Allocated(t, e, lsn, newBase, startPos) ==
  LET s == my[t].slot
      n == info[s].joined
  IN  /\ buf' = e
      /\ tail' = lsn + n
      /\ end' = e.base + e.end
      /\ info' = [info EXCEPT ![s] =
           [@ EXCEPT !.count = "finished", !.left = n, !.lsn = lsn, !.oldEnd = buf.base + buf.end,
                     !.startPos = startPos, !.pos = startPos + n, !.newEnd = e.end,
                     !.newBase = newBase, !.state = IF expose = <<>> THEN "go" ELSE "waiting"]]
      /\ expose' = Append(expose, s)

Allocate(t) ==
  LET n     == Wanted(t)
      spill == buf.end + n - Seg
      next  == lo(buf.lsn) + buf.end + n
  IN  /\ pc[t] = "space" /\ Head(turn) = t
      /\ ~flag.space /\ Room(n)
      /\ \/ /\ spill <= 0
            /\ Allocated(t, [buf EXCEPT !.end = @ + n], tail, -1, buf.end)
         \/ /\ spill > 0 /\ next <= Data
            /\ Allocated(t, Epoch(buf.lsn + Seg, buf.base + Seg, 0, spill), tail, -1, buf.end)
         \/ /\ spill > 0 /\ next > Data
            /\ LET first == first_lsn(file(tail) + 1)
               IN  Allocated(t, Epoch(first, buf.base + Seg, 0, n), first, buf.base + Seg, 0)
      /\ turn' = Tail(turn)
      /\ Go(t, "copy")
      /\ UNCHANGED <<slots, epochs, bytes, clr, flag, my, dpc, fl, disk, world>>

\* The rest of the full partition cannot be had: nobody in the group gets anything.
OutOfLogSpace(t) ==
  LET s == my[t].slot
  IN  /\ world.full
      /\ pc[t] = "space" /\ Head(turn) = t
      /\ ~flag.space /\ Room(Wanted(t))
      /\ buf.end + Wanted(t) > Seg /\ lo(buf.lsn) + buf.end + Wanted(t) > Data
      /\ lo(tail) < Data
      /\ info' = [info EXCEPT ![s].count = "finished", ![s].left = info[s].joined, ![s].error = TRUE]
      /\ turn' = Tail(turn)
      /\ Go(t, "copy")
      /\ UNCHANGED <<slots, expose, ends, epochs, bytes, clr, flag, my, dpc, fl, disk, world>>
-----------------------------------------------------------------------------
(***************************************************************************)
(* _copy_to_buffer, and the last one to leave.                             *)
(***************************************************************************)

LastOut(t, s) == info[s].left = my[t].n /\ ~info[s].error

\* Where in the buffer a member's i-th byte goes, and its lsn.
Place(t, i) == (info[my[t].slot].startPos + my[t].pos + i) % Seg
Lsn(t) == info[my[t].slot].lsn + my[t].pos

Leaves(t, s) ==
  /\ info' = [info EXCEPT ![s].left = @ - my[t].n]
  /\ Go(t, IF LastOut(t, s) THEN "expose" ELSE "out")

Copy(t) ==
  LET s == my[t].slot
  IN  /\ pc[t] = "copy" /\ info[s].count = "finished" /\ ~info[s].error
      /\ bytes' = [p \in DOMAIN bytes |->
                     IF \E i \in 0..(my[t].n - 1) : Place(t, i) = p
                       THEN Lsn(t) + CHOOSE i \in 0..(my[t].n - 1) : Place(t, i) = p
                       ELSE bytes[p]]
      /\ my' = [my EXCEPT ![t] = IF LastOut(t, s) THEN [@ EXCEPT !.lsn = Lsn(t), !.size = my[t].n]
                                                  ELSE Returned(@, Lsn(t), my[t].n)]
      /\ Leaves(t, s)
      /\ UNCHANGED <<slots, turn, expose, ends, epochs, clr, flag, dpc, fl, disk, world>>

\* eOUTOFLOGSPACE.  The slot of the group does not come back.
Fail(t) ==
  LET s == my[t].slot
  IN  /\ pc[t] = "copy" /\ info[s].count = "finished" /\ info[s].error
      /\ my' = [my EXCEPT ![t] = Returned(@, @.lsn, @.size)]
      /\ Leaves(t, s)
      /\ UNCHANGED <<slots, turn, expose, ends, epochs, bytes, clr, flag, dpc, fl, disk, world>>
-----------------------------------------------------------------------------
(***************************************************************************)
(* _update_epochs.                                                         *)
(***************************************************************************)

\* One slot in 32 does not leave its job to the group before, so that nobody has to do it
\* for all.
Patient(s) == s % 32 = 0

Abandon(t) ==
  LET s == my[t].slot
  IN  /\ pc[t] = "expose" /\ info[s].state = "waiting" /\ ~Patient(s)
      /\ info' = [info EXCEPT ![s].state = "abort"]
      /\ my' = [my EXCEPT ![t] = Returned(@, @.lsn, @.size)]
      /\ Go(t, "out")
      /\ UNCHANGED <<slots, turn, expose, ends, epochs, bytes, clr, flag, dpc, fl, disk, world>>

\* A new partition, a wrap, or just a new end.
ToEpochs(i) ==
  IF i.newBase > 0
    THEN old' = cur /\ cur' = Epoch(i.lsn, i.newBase, 0, i.newEnd)
  ELSE IF i.pos > Seg
    THEN old' = [cur EXCEPT !.end = Seg] /\ cur' = Epoch(cur.lsn + Seg, cur.base + Seg, 0, i.newEnd)
    ELSE UNCHANGED old /\ cur' = [cur EXCEPT !.end = i.newEnd]

\* Slip: who has copied exposes the group at once.
Update_AtOnce(t) ==
  LET s == my[t].slot
  IN  /\ pc[t] = "update" \/ pc[t] = "expose"
      /\ ToEpochs(info[s])
      /\ Go(t, "hand over")
      /\ UNCHANGED <<group, ends, bytes, clr, flag, my, dpc, fl, disk, world>>

Update(t) ==
  LET s == my[t].slot
  IN  /\ pc[t] = "update" \/ (pc[t] = "expose" /\ info[s].state = "go")
      /\ ToEpochs(info[s])
      /\ Go(t, "hand over")
      /\ UNCHANGED <<group, ends, bytes, clr, flag, my, dpc, fl, disk, world>>

\* The next one in the queue is let go, or its job is taken over.
Next_in_line == IF Len(expose) > 1 THEN {expose[2]} ELSE {}

HandOver(t) ==
  LET s == my[t].slot
  IN  /\ pc[t] = "hand over"
      /\ expose' = Tail(expose)
      /\ IF \E n \in Next_in_line : info[n].state = "abort"
           THEN /\ info' = [info EXCEPT ![s] = NewInfo("unused")]
                /\ my' = [my EXCEPT ![t].slot = expose[2]]
                /\ Go(t, "update")
           ELSE /\ info' = [i \in Slot |-> IF i = s THEN NewInfo("unused")
                                           ELSE IF i \in Next_in_line
                                             THEN [info[i] EXCEPT !.state = "go"] ELSE info[i]]
                /\ Go(t, "out")
                /\ my' = [my EXCEPT ![t] = Returned(@, @.lsn, @.size)]
      /\ UNCHANGED <<slots, turn, ends, epochs, bytes, clr, flag, dpc, fl, disk, world>>
-----------------------------------------------------------------------------
(***************************************************************************)
(* flush and compensate, of the thread's own last record.                  *)
(***************************************************************************)
HasLogged(t) == t \in world.commit /\ pc[t] = "out" /\ my[t].lsn >= 0

\* Slip: a record that starts where the log ends on disk counts as durable.
Durable_Equal(lsn) == lsn <= durable

Durable(lsn) == lsn < durable

FlushNow(t) ==
  /\ HasLogged(t) /\ ~Durable(my[t].lsn)
  /\ Go(t, "flush wait")
  /\ UNCHANGED <<group, ends, epochs, bytes, clr, flag, my, dpc, fl, disk, world>>

AwaitFlush(t) ==
  /\ pc[t] = "flush wait" /\ ~Durable(my[t].lsn)
  /\ flag' = [flag EXCEPT !.flush = TRUE]
  /\ SignalDaemon
  /\ Go(t, "flush asleep")
  /\ UNCHANGED <<group, ends, epochs, bytes, clr, my, fl, disk, world>>

Flushed(t) ==
  /\ pc[t] = "flush wait" /\ Durable(my[t].lsn)
  /\ Go(t, "out")
  /\ UNCHANGED <<group, ends, epochs, bytes, clr, flag, my, dpc, fl, disk, world>>

\* Slip: a record that is being flushed, or was, is compensated.
Compensable_Flushed(t) ==
  LET lsn == my[t].lsn
  IN  HasLogged(t) /\ Where(lsn) + my[t].size <= Seg

\* With _comp_lock.  A record that is on its way to the disk, or split, is left alone, and
\* so is one that is not where it should be.
Compensable(t) ==
  LET lsn == my[t].lsn
  IN  HasLogged(t) /\ lsn >= flushing /\ Where(lsn) + my[t].size <= Seg

compensate(t) ==
  /\ Compensable(t) /\ bytes[Where(my[t].lsn)] = my[t].lsn
  /\ clr' = clr \union {my[t].lsn}
  /\ UNCHANGED <<group, ends, epochs, bytes, flag, pc, my, dpc, fl, disk, world>>
-----------------------------------------------------------------------------
(***************************************************************************)
(* flush_daemon.                                                           *)
(***************************************************************************)
\* Slip: the flags stay up.
DaemonTop_FlagsUp ==
  /\ dpc = "top"
  /\ IF fl.success /\ (flag.space \/ flag.flush)
       THEN UNCHANGED flag /\ Broadcast
       ELSE UNCHANGED <<flag, pc>>
  /\ dpc' = IF ~fl.success /\ ~flag.space /\ ~flag.flush THEN "asleep" ELSE "work"
  /\ UNCHANGED <<group, ends, epochs, bytes, clr, my, fl, disk, world>>

DaemonTop ==
  /\ dpc = "top"
  /\ IF fl.success /\ (flag.space \/ flag.flush)
       THEN flag' = [space |-> FALSE, flush |-> FALSE] /\ Broadcast
       ELSE UNCHANGED <<flag, pc>>
  /\ dpc' = IF ~fl.success /\ ~flag.space /\ ~flag.flush THEN "asleep" ELSE "work"
  /\ UNCHANGED <<group, ends, epochs, bytes, clr, my, fl, disk, world>>

\* Slip: the flush starts with the newer epoch.
ToFlush_Newer(lsn, s1, e1, s2, e2, upto) ==
  fl' = [fl EXCEPT !.lsn = cur.lsn + s2, !.start1 = s1, !.end1 = e1, !.start2 = s2, !.end2 = e2,
                   !.upto = upto, !.newStart = cur.base + e2]

\* What there is to flush, under _flush_lock: of one partition, or with a wrap of both epochs.
ToFlush(lsn, s1, e1, s2, e2, upto) ==
  fl' = [fl EXCEPT !.lsn = lsn, !.start1 = s1, !.end1 = e1, !.start2 = s2, !.end2 = e2,
                   !.upto = upto, !.newStart = cur.base + e2]

NothingToFlush ==
  /\ dpc = "work" /\ Empty(old) /\ Empty(cur)
  /\ fl' = [fl EXCEPT !.success = FALSE]
  /\ dpc' = "top"
  /\ UNCHANGED <<group, ends, epochs, bytes, clr, flag, pc, my, disk, world>>

ChooseFlush ==
  /\ dpc = "work"
  /\ \/ /\ Empty(old) /\ ~Empty(cur)
        /\ ToFlush(cur.lsn + cur.start, cur.start, cur.start, cur.start, cur.end, cur.lsn + cur.end)
        /\ cur' = [cur EXCEPT !.start = cur.end]
        /\ UNCHANGED old
     \/ /\ ~Empty(old) /\ file(old.lsn) = file(cur.lsn)
        /\ ToFlush(old.lsn + old.start, old.start, old.end, cur.start, cur.end, cur.lsn + cur.end)
        /\ cur' = [cur EXCEPT !.start = cur.end]
        /\ old' = [old EXCEPT !.start = old.end]
     \/ /\ ~Empty(old) /\ file(old.lsn) # file(cur.lsn)
        /\ ToFlush(old.lsn + old.start, old.start, old.end, 0, 0, cur.lsn)
        /\ old' = [old EXCEPT !.start = old.end]
        /\ UNCHANGED cur
  /\ dpc' = "comp"
  /\ UNCHANGED <<group, ends, bytes, clr, flag, pc, my, disk, world>>

\* From here on nobody changes what is flushed.
NoMoreCompensation ==
  /\ dpc = "comp"
  /\ flushing' = fl.upto
  /\ dpc' = "write"
  /\ UNCHANGED <<group, ends, epochs, bytes, clr, flag, pc, my, fl, durable, start, kept, world>>

\* partition_t::flush reads the buffer, from the start of the block.
Write ==
  /\ dpc = "write"
  /\ kept' = kept \union {lsn \in clr : fl.lsn <= lsn /\ lsn < fl.upto}
  /\ durable' = fl.upto
  /\ dpc' = "durable"
  /\ UNCHANGED <<group, ends, epochs, bytes, clr, flag, pc, my, fl, flushing, start, world>>

NowFree ==
  /\ dpc = "durable"
  /\ start' = fl.newStart
  /\ fl' = [NoFlush EXCEPT !.success = TRUE]
  /\ dpc' = "top"
  /\ UNCHANGED <<group, ends, epochs, bytes, clr, flag, pc, my, flushing, durable, kept, world>>

-----------------------------------------------------------------------------
\* wait_for_space and release_space, which have the flag in common with the buffer: it is set
\* by who gets in line for log space, and reset by who finds the line empty.
WaitForLogSpace ==
  /\ world.waits /\ ~flag.space
  /\ flag' = [flag EXCEPT !.space = TRUE]
  /\ UNCHANGED <<group, ends, epochs, bytes, clr, pc, my, dpc, fl, disk, world>>

ReleaseSpace ==
  /\ world.waits /\ flag.space
  /\ flag' = [flag EXCEPT !.space = FALSE]
  /\ UNCHANGED <<group, ends, epochs, bytes, clr, pc, my, dpc, fl, disk, world>>

Inserting(t) ==
  \/ NextSlot(t) \/ Join(t) \/ Close(t)
  \/ NoSpace(t) \/ AwaitSpace(t) \/ SpaceCame(t) \/ Allocate(t) \/ OutOfLogSpace(t)
  \/ Copy(t) \/ Fail(t) \/ Abandon(t) \/ Update(t) \/ HandOver(t)

Flushing(t) == AwaitFlush(t) \/ Flushed(t)

Progress(t) == Inserting(t) \/ Flushing(t)

Daemon ==
  \/ DaemonTop \/ NothingToFlush \/ ChooseFlush
  \/ NoMoreCompensation \/ Write \/ NowFree

\* All that were to be inserted are.
Done ==
  /\ \A t \in Thread : pc[t] = "out" /\ my[t].todo = 0
  /\ UNCHANGED vars

Next ==
  \/ \E t \in Thread :
       Insert(t) \/ FlushNow(t) \/ compensate(t) \/ Progress(t)
  \/ Daemon
  \/ WaitForLogSpace \/ ReleaseSpace
  \/ Done

Spec == Init /\ [][Next]_vars

\* The instances and loads that the code can have: a buffer of whole blocks, a partition of whole
\* buffers, and a log that ends in the first partition, before the end of its data.
BufferConstants ==
  /\ Block \in Nat \ {0} /\ Seg \in Nat \ {0} /\ Data \in Nat \ {0}
  /\ Seg % Block = 0 /\ Data % Seg = 0
  /\ Slots \in Nat /\ Active \in 1..Slots
  /\ \A load \in Loads :
       /\ load.at \in 0..(Data - 1) /\ load.todo \in [Thread -> Nat]
       /\ load.world.size \subseteq Nat \ {0}

\* What the space check is for: an insert ends before it comes around to the block in which the
\* part of the buffer that is not on disk yet begins.  Of a group that stays in its partition Room
\* sees to that; one that opens a partition takes the rest of the segment too.
KeepsOff == end' # end => end' - (start - (start % Block)) <= Seg

SparedSpec == Init /\ [][Next /\ KeepsOff]_vars

\* Threads run, and so does the daemon.
LiveSpec ==
  /\ Spec
  /\ \A t \in Thread : WF_vars(Progress(t))
  /\ WF_vars(Daemon)
-----------------------------------------------------------------------------
\* What a flush reads: offset -> the lsn that should be there.
Flushes ==
  LET delta == lo(fl.lsn) % Block
      one   == (fl.start1 - delta)..(fl.end1 - 1)
      two   == fl.start2..(fl.end2 - 1)
      Right(p) == IF p \in one THEN fl.lsn + p - fl.start1
                               ELSE fl.lsn + fl.end1 - fl.start1 + p - fl.start2
  IN  [p \in one \union two |-> Right(p)]

\* What goes to the disk is what was inserted, to the last byte, and stays so while it is
\* read: no insert that is not complete is flushed, and none overwrites what is.
FlushStable == dpc = "write" => \A p \in DOMAIN Flushes : bytes[p] = Flushes[p]

\* Flushes leave nothing out: each starts where the one before ended, except that it leaves
\* the end of a partition in which nothing was inserted.
Unbroken ==
  dpc = "write" =>
    /\ fl.lsn = durable \/ (lo(fl.lsn) = 0 /\ \A p \in DOMAIN bytes : ~(durable <= bytes[p] /\ bytes[p] < fl.lsn))

\* The space check of an insert keeps it off what is not on disk yet.
NoOverwrite ==
  [][bytes' # bytes => \A p \in DOMAIN bytes : bytes'[p] # bytes[p] => bytes[p] < durable]_vars

\* The epochs move in the order of the log, whoever moves them: _cur_epoch ends where the
\* group was allocated, and the old one is flushed when there is to be another.
EpochsInOrder ==
  \A t \in Thread :
    (pc[t] = "update" \/ (pc[t] = "expose" /\ info[my[t].slot].state = "go")) =>
      LET i == info[my[t].slot]
      IN  /\ cur.base + cur.end = i.oldEnd
          /\ i.newBase > 0 \/ i.pos > Seg => Empty(old)
          /\ Head(expose) = my[t].slot

\* flush returns when the record is durable, all of it on the disk.
FlushKept ==
  [][pc' # pc => \A t \in Thread :
       pc[t] = "flush wait" /\ pc'[t] = "out" => my[t].lsn + my[t].size <= durable]_vars

\* A record that may be compensated is where compensate looks for it, and one that was
\* compensated is so on disk.
CompensationKept ==
  /\ \A t \in Thread : Compensable(t) => bytes[Where(my[t].lsn)] = my[t].lsn
  /\ \A lsn \in clr : lsn < durable => lsn \in kept

\* Every insert ends and every flush returns, unless the flag is used by others too.  (There
\* are so many calls, and no more.)
CallsEnd == []<>(world.waits \/ \A t \in Thread : pc[t] = "out")

\* The daemon does not sleep while somebody sleeps until it has flushed.
NobodyLeftAsleep ==
  dpc = "asleep" => \A t \in Thread : pc[t] \notin {"space asleep", "flush asleep"}
=============================================================================
