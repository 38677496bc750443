# A TLA+ model of the Shore-MT storage manager

Shore-MT is a multi-threaded transactional storage manager: pages on volumes,
a buffer pool, a write-ahead log, hierarchical locks, B-trees, R-trees and files
of records, and ARIES recovery.  Its difficulty lies where threads meet: the
lock table, the log buffer, latches, the buffer pool, checkpoints and restart.
This directory models those parts, checks the models with TLC on small
instances, and proves what matters most with TLAPS for every instance.

Run everything from this directory:

    tlc -workers 2 -config LockCore_safety.cfg MCLockCore
    tlapm LockCoreProofs.tla          (and every other *Proofs module)

`PROJECT.json` lists the components, the runs, the mutants that show that each
property can fail, the source lines that each definition stands for, the
disagreements found between code and comments, and the hazards of the code.

## 1. Inventory

The layers, from the bottom up, with the state each keeps, its operations, its
neighbours, what is hard about it, and what makes it correct.  Paths are under
`src/src/`.

**Locks of the thread package** (`sthread/srwlock.*`, `mcs_lock.h`).
`mcs_rwlock` packs the number of readers and a writer bit into one word,
`_holders`, behind a queue lock that serializes those who arrive.  Operations:
attempt, acquire and release for reading and writing, upgrade without blocking,
downgrade.  Hard: a writer sets its bit while readers are still inside; an
upgrade races with arriving readers.  Correct: a writer is alone; nobody waits
for ever.

**Threads** (`sthread/sthread.*`, `sm/smthread.*`).  `block` and `unblock` with
a condition variable, a flag and a return code.  Callers: lock core, checkpoint.
Hard: an unblock before the block, a timeout racing an unblock, spurious
wakeups.  Correct: whoever is unblocked for a reason learns the reason.

**Latches** (`common/latch.*`).  An `mcs_rwlock` plus, per thread, the mode and
the number of times the thread holds the latch.  Operations: acquire (also
recursively and conditionally), upgrade, downgrade, release.  Users: buffer
pool, B-tree.  Correct: exclusion across recursive acquires and upgrades; the
counts are those of the holders.

**Lock core** (`sm/lock_core.*`, `lock_x.h`, `lock_s.h`).  A hash table of lock
heads; each has a queue of requests, the group mode, the flag that somebody
waits, and a queue-based mutex.  Each transaction has an `xct_lock_info_t`: its
requests, the one it waits with, and its wait map, the fingerprint of the
transactions it waits for, directly or not (the Dreadlocks scheme).  Operations:
`acquire_lock` (grant, conversion, wait in naps of 10 ms, denial),
`release_lock`, `wakeup_waiters`, `_check_deadlock`, `set_nonblocking`, quarks,
and speculative lock inheritance (SLI), which passes a lock from a transaction
to the next one of the same thread.  Hard: nearly everything; see section 3.

**Lock manager** (`sm/lock.*`, `lock_cache.h`).  Walks from volume to store to
page to record and takes intention locks on the way; escalates when a
transaction holds too many children; keeps a cache of what is held.  Correct: a
lock is covered by intention locks or by an ancestor; the cache tells the truth.

**Log** (`sm/log.*`, `log_core.*`, `partition.*`).  A circular buffer with two
epochs, before and after the wrap; inserters claim space (in groups, through the
consolidation array), copy concurrently and release in order; a daemon writes
the copied prefix and syncs it.  Space in the log is reserved for rollback
(`_space_available`, `_space_rsvd_for_chkpt`) and waited for in a queue.
Partitions are opened, closed and recycled.  Hard: the wrap, the hand-over
between inserters and daemon, one flag shared by two kinds of waiters, timeouts
of waiters.  Correct: durable means written and synced, lsns are dense, no
reservation is lost or spent twice, nobody waits while there is room.

**Transactions** (`sm/xct.*`).  Begin, attached threads, save points, rollback,
commit, chaining, prepare.  Correct: the log reservation covers the rollback;
locks go only when the commit record is durable (or with early lock release,
when readers cannot commit before it).

**Checkpoint and restart** (`sm/chkpt.*`, `chkpt_serial.*`, `restart.*`).  The
fuzzy checkpoint logs dirty pages, mounted volumes, transactions; restart
analyses, redoes, undoes.  Hard: transactions that end, pages that get dirty or
clean while the checkpoint is taken; crashes anywhere.  Correct: after restart
the pages hold exactly the committed updates.

**Buffer pool** (`sm/bf*.{cpp,h}`).  Frames with latches and pin counts, a
cuckoo hash table with a lock per bucket, lists of the pages in transit, a clock,
cleaners.  Hard: a lookup racing with a move in the hash table, a page
fixed again while it is written out or evicted, the recovery lsn of a page that
is dirtied while it is cleaned.  Correct: one frame per page, no lost update,
the recovery lsn bounds the first update not on disk.

**Volumes, extents and stores** (`sm/vol.*`, `pmap.*`, `sm_io.*`, `dir.*`).
Extents linked into stores with a bitmap of pages each; stores freed at commit.
Correct: an extent belongs to one store; freed space is not reused before the
transaction that freed it ends.

**Pages, B-tree, R-tree, files, large records, scans, sort** (`sm/page.*`,
`btree*`, `rtree.*`, `file.*`, `lgrec.*`, `scan.*`, `sort*`, `newsort.cpp`).
Slotted pages with space reserved for rollback; B-trees with latch coupling, SM
bits and key-value locks.  Hard: splits and merges racing with traversals, space
freed by a transaction and needed again by its rollback.

**Foundation** (`fc/`, `common/`, `atomic_ops/`).  Return codes, lists, vectors
and a block allocator with lock-free lists.
## 2. Plan

In the order of what a mistake would cost, and of what the next model needs:

1. `LockModes`, `LockCore`, `LockService`: tables, lock core, what callers are
   promised; proofs of type correctness, of every invariant and action property
   that the runs check, and of the refinement.  *Done.*
2. `McsLock`, `McsRwLock`, `Latch`, `OccRwLock`: exclusion and progress of the
   locks that the rest stands on; refinement of abstract locks, with proofs of
   all of it but progress.  *Done.*
3. `LogSpace` and `ChkptSpace`: reservations and waiters of `log.cpp`,
   `log_core.cpp`, `xct.cpp`, `chkpt.cpp`.  *Done*, with proofs of all their
   invariants.
4. `RestartRules`, `Recovery`, `Store`: crashes between any two steps;
   refinement of a store that holds what was committed.  *Done but for the
   parts named in section 8.*
5. `LogBuffer`: claim, copy, release, flush, wrap, with the consolidation
   array.  *Done*, with proofs of all its properties but progress, *but for* the
   refinement of a log that is a sequence with a durable prefix, of which
   `FlushStable` and `Unbroken` are the substance.
6. `BufferPool`: hash table, search, replacement, transit buckets, cleaner.
   *Done but for the parts named in section 7*, with proofs of all its invariants.
7. `LockSLI`, `LockHeads`, `LockHierarchy`: inheritance, freeing of heads,
   intention locks and cache over the lock service.
8. `LogPartitions`, `Extents`, `SlottedPage`, `BTreeSmo`, `MemBlock`.

Planned beyond the theorems of section 9: the refinement of `Store` by `Recovery`.
## 3. The lock core

**Modules.**  `LockModes` has the compatibility and the supremum table
(`lock_core.cpp:138-170`).  `LockCore` is the lock table.  `LockService` says
what callers may rely on, without queues, mutexes, naps or maps.  `MCLockCore`
has the workloads: a behaviour picks one at the start and keeps it, so that one
run covers them all.
`LockCoreProofs` has the theorems.

**State.**  `queue[l]` and `req[l][x]` are the request queue of a lock head and
the request of transaction `x` in it; `gmode` and `waiting` are its
`granted_mode` and wait flag; `owner` holds its `head_mutex`.  Of a
transaction, `wmap` is `_wait_map`, as a set (the real one is a bitmap in which
two transactions may collide: that finds deadlocks that are none, and misses
none), `noblock` is `_noblock`, `sig` the code that its thread will find when
it wakes, `call` the locals of `acquire_lock` and `wakeup_waiters`.  `pc` says
where the thread is: `idle` outside, `dld` in `_check_deadlock`, `kill` between
choosing a victim and unblocking it, `prep` with all mutexes released and not
yet asleep, `blocked`, `woken`, and `scan` in `wakeup_waiters`.

**Steps.**  A step runs from a point where another thread can look to the next
such point.  `acquire_lock` is one step up to its success (`Reacquire`,
`Upgrade`, `Grant`) or up to the first look at the neighbours (`AwaitUpgrade`,
`AwaitGrant`), because all of it is under `head_mutex`.  The walks of
`_check_deadlock` (`DldMerge`, `DldSelf`, `DldOther`, `DldKill`, `DldDone`) and
of `wakeup_waiters` (`ScanGrant`, `ScanPass`, `ScanEnd`) take a step per request:
others read wait maps and states of threads meanwhile.  `Nap` and `EndNap` are
`smthread_block`; `TryAgain`, `GiveUp` and `Granted` what `acquire_lock` does
after it.  `Uncount`, `Release`, `End` are `_release_lock` and the end of a
transaction; `Poison` is `set_nonblocking`.  `WAIT_IMMEDIATE` requests that
would wait change nothing, hence are stuttering steps.

**Runs.**  Bounds: two or three transactions suffice for every kind of step
(the third is what makes order, groups and rings), one lock for what concerns a
head, two or three for deadlocks; `MaxCount` bounds recursive acquires, two
being the first that differs from one; `Patience` is a number of naps, one or
two, or no end.  (TLC has also been through the same state space with three
transactions and all modes without waits, and with IS, SH and UD with waits: the
group mode is the fold there too, and only UD and IS requests are left behind.)

| run | instance | shows |
|---|---|---|
| lock_safety | one of four workloads: 3 transactions on a lock with SH and EX, one of which converts; 2 on a lock with all modes and durations; 2 on 2 locks with waits of one nap or without end; the same with one that may be poisoned | holders stand before waiters, the flag tells the truth, no request is left behind, none overtaken; holders tolerate each other, the group mode is the fold of the queue, only the owner weakens a lock; a thread told that it has the lock has it; every step is one of `LockService` |
| lock_live | 2 transactions, 2 locks, with and without timeout, and shared locks that both upgrade; 3 transactions in a ring | deadlocks end, also one that nobody sees directly; a wait with a timeout ends |
| lock_ud | 3 transactions, IS, SH, UD | the disagreement below |

**Fairness.**  Threads run: a step of a thread that stays possible is taken
(weak fairness of `Detect`, `Sleep`, `Scan`).  Taking the head mutex again after
a nap is strongly fair, because the mutex is a queue-based lock: whoever waits
for it gets it although others come and go.  Nobody is obliged to ask for a lock
or to end.  The runs about deadlocks assume in addition (`Prompt`) that 10 ms
are long enough for every awake thread to finish what it does, so that naps end
when the others sleep; without that two detectors could abort each other's
rounds for ever, which no deadlock scheme of this kind excludes.  It is a
conjunct of the next-state relation, used by no other run.

**Disagreements.**  UD is granted beside IS when SH is there too, although the
tables and a comment forbid it (`lock_ud`).  Three more statements of the
comments fail in this model; they are in `LockCore`, and no run is kept for
them:

* `NothingGoesWrong` (one lock, EX, one transaction poisonable):
  `set_nonblocking` unblocks the thread of a waiting request with `W_COERCE`;
  when that thread is between two naps it is not blocked, and the refusal ends
  the process (`lock_core.cpp:427`, "nothing should be able to go wrong").
* `MapCleanedOnRestart` (three transactions, one lock, EX): after a nap the
  detector starts again with the wait map of the round before
  (`lock_core.cpp:1629`; `lock_core.cpp:2663`, "we clean our wait map").
* `AwakeMeansGranted` with `Spurious = TRUE` (two transactions, one lock): after
  a spurious wakeup of the condition variable `block` returns an old code, which
  `acquire_lock` may take for a grant (`sthread.cpp:991`).

**Not modelled.**  SLI (off by default), quarks, several threads in one
transaction, the freeing of an empty lock head and its race with
`find_lock_head`, the collisions of fingerprints.
## 4. Locks of the thread package and latches

**Modules.**  `McsLock` is the queuing spinlock word by word: `tail`, and the
`next` and `waiting` words of each thread's node.  `QueueLock` is what it
promises, a first-come first-served line; `McsLock` is checked to implement it,
the line being read off the nodes.  `McsRwLock` is `mcs_rwlock`: the word
`holders`, with a `QueueLock` as its parent lock, as the class has an `mcs_lock`
as its base.  `RwLock` is what it promises.  `Latch` EXTENDS `McsRwLock` with
each thread's `latch_holder_t` (`mode`, `count`) and `_total_count`.  `OccRwLock`
is `occ_rwlock`, under which checkpoints and commits exclude each other: the
count, the mutex and the two condition variables.  All of them take their threads
from `Threads`; `McsLockProofs`, `LatchProofs` (of `McsRwLock` too) and
`OccRwLockProofs` have the theorems.  `MCWaits` checks these two and
the liveness of the log buffer (section 6) in one run, and `MCSafety` the latch
and the modules of sections 5 to 7 in another: the first state of a behaviour
chooses the one part that moves.

**Steps.**  One per atomic instruction or read of a shared word; with a mutex,
what is done between two looks at words that others change without it.  The
begin of a call and its reads before the first shared access are one step with
that access.  `Attempt` and `BeginTry` that fail are steps that change the node
or the locals only.  `Latch` runs the steps of the lock below it under its own
bookkeeping, which only its own thread sees.

**Runs.**

| run | instance | shows |
|---|---|---|
| waits | 3 threads on an `mcs_lock`; or 3 readers, 2 of which write, on an `occ_rwlock` with spurious wakeups | one owner, nodes on stacks are live when written, a line first come first served, everyone served; a writer alone, no add lost, wakeups on their way, a writer with its bit set gets in |
| safety | 3 threads, all calls, two acquires each | of the `mcs_rwlock` below: `RwLock` implemented, hence exclusion, and no reader past a draining writer; of the latch: records and counts agree with the lock |

Three threads are one owner, one next in line and one that arrives, which is
what a release distinguishes; `FirstServed` and `WriterServed` speak of one of
them, since they are alike; for the reader-writer locks, a writer with two
readers, or a reader with two writers.  A latch makes every call of `mcs_rwlock`,
so its run is that of the lock as well.  The comments at `histo.h:283` and
`chkpt_serial.cpp:74-75` say that `occ_rwlock` is for a single writer; exclusion
does not depend on it.

**Fairness.**  Threads run (weak fairness of the steps of a call), holders let
go in the end, and, for a pthread mutex, who wants it gets it when it is free
again and again.  A reader that merely tries may be refused for ever, and so
may a reader of `occ_rwlock` that checkpoints keep overtaking: no property says
otherwise.

**Not modelled.**  The partitioned mode of latches (`set_plp`), in which the
lock is bypassed and the caller's partitioning keeps threads apart; the
wrappers of pthread locks.
## 5. Log space

**Modules.**  `LogSpace` is the reservation of log space by transactions:
`reserve_space`, `wait_for_space` and `release_space`, with their callers
`get_logbuf`, `wait_for_log_space`, rollback, compensation, end and the
reclaiming of partitions.  `ChkptSpace` is the account set aside for
checkpoints; there, transactions are anybody who takes and returns space.
`ChkptSizes` has its sizes; the theorems about both are in `LogSpaceProofs`.

**State.**  `avail`, `flag`, `line` and `lock` are `_space_available`,
`_waiting_for_space`, `_log_space_waiters` and the holder of `_space_lock`
while it serves the line; `ready`, `rsvd` and `used` are the three counters of
`xct_t`; `turn` holds `emergency_log_flush_mutex`.  An entry of the line points
at a local variable of a call: at the present wait, at an earlier wait of the
same call, at a call that has returned, or nowhere.  What a releaser does to
the variable of a call that has returned is undefined; the model lets it take
any part of what there is to give.  `leaked` and `dropped` only count what the
code loses, so that conservation can be stated.  The unit is the size of the
largest record, and every record has it.

**Steps.**  Atomic operations are steps; so is what is done under `_space_lock`,
except that serving the line is one step per entry, since the callers whose
variables it writes read them without the mutex.  The flag is read in a step of
its own, and the two uses that the log buffer makes of the same flag
(`BufferFull`, `BufferFlushed`) may happen at any time.

**Runs.**

| run | instance | shows |
|---|---|---|
| safety | 2 transactions that are alike, log of 6, asks of 3, a record costs 5 | conservation; rollback paid for; sleepers in line; the patient are signalled |
| safety | log of 14, checkpoints of up to 3, partitions of 6 | a started checkpoint is covered, the account is filled first |

A log of 6 holds one reservation of 5 and not a second, so that every call after
the first may find it full, be served in parts, or be served by the end of the
other.  `MaxUndo` bounds the records that a transaction has yet to undo and
`MaxLine` the entries that a call finds in line when it arrives: with 0, those
in line are the caller's own, of up to three tries, and those that the other
adds, up to four in all.  `_set_size` refuses logs in which the three sizes of
`ChkptSpace` are out of proportion (`SizesAssumption`).

**Fairness.**  None in the runs.  `LiveSpec` of `LogSpace` says that threads run
and get a free mutex in the end; nobody is obliged to log, to end, to reclaim or
to flush.  `LogCallsEnd` holds under it (TLC: one transaction, a log of 8).

**Disagreements.**  A waiter that times out leaves its entry in line as it was,
contrary to the comment in `release_space`; a releaser gives space to it after
the call has returned: `NothingLeaked` fails in the instance of the run.  Four
more statements fail in these models; no run is kept for any of them:

* `NothingDropped`: when the force before the third try fails, `get_logbuf`
  returns without giving back what it was given (`xct.cpp:2748`); its other
  failing path does give it back (`xct.cpp:2772`).
* `AsksForSomething`: between two tries the entry of the first try may be served
  in full; the next try then asks for nothing, which `log_core.cpp:2880`
  asserts not to happen.
* `NobodyStuck` (under `LiveSpec`, a log of 5, asks of 2): `log_core.cpp:2941`
  justifies the unprotected read of the flag with a timeout of the waiters, but a
  transaction that has not logged waits without one (`xct.cpp:1287`).  The flush
  daemon clears the flag, which both kinds of waiters share, and it sleeps on
  beside free space.
* `NeverWedged` of `ChkptSpace`: `chkpt.cpp:314` promises that a full log can be
  reclaimed.  When a checkpoint draws on the last reservation, `scavenge` looks
  at the account, which ends the process, before it fills it.  `take()` means to
  reclaim space when the account is low, but declares a second `too_old_pnum`
  (`chkpt.cpp:350`) that goes out of scope at once.

**Not modelled.**  Records of different sizes, reservations during recovery and
`activate_reservations`, the space lost at the end of a partition, prepared
transactions, and who is turned down at once because it holds up the reclaiming
(a call that changes nothing).
## 6. Log buffer

**Module.**  `LogBuffer` is the way of a record from `insert` to the disk:
`log_core::insert` with the consolidation array (`_join_slot`,
`_acquire_buffer_space`, `_copy_to_buffer`, `_release_buffer`,
`_update_epochs`), `flush`, `compensate`, `flush_daemon` and
`flush_daemon_work`.

**State.**  `slots` and `info` are the consolidation array: what the members of a
group asked for (`joined`) and have not copied yet (`left`), where the group
lies, and whether its last one may expose it.  `turn` and `expose` are the
queues of `_insert_lock` and `_expose_lock`, which section 4 shows to be first
come, first served.  `buf`, `cur` and `old` are the epochs of inserts and of the
daemon, `start` and `end` the free part of the buffer, `bytes` which byte of the
log each byte of the buffer is.  `flag` is `_waiting_for_space` and
`_waiting_for_flush`.  `world` says what the load makes happen around the
buffer: whether the rest of a partition may be refused, whether transactions
wait for log space and use the same flag, who commits, how long records are.
Lengths are in units of the alignment of records.

**Steps.**  Joining a group is one compare-and-swap; what is done under the
insert lock is a step between its being taken and given back; each member copies
in one step, which may come at any time after; the last one out exposes the
group when it is told to, or leaves the job to the group before.  The daemon
looks at flags, at the epochs (under `_flush_lock`), moves `_flush_lsn` (under
`_comp_lock`), writes, and makes room: five steps, with everybody else's in
between.

**Runs.**

| run | instance | shows |
|---|---|---|
| safety | a buffer of four blocks, two to a partition; loads that go once around the buffer, that reach the end of a partition with and without space for its rest and with the flag shared, and a group of three | a flush reads what was inserted, to the last byte, and leaves nothing out; the epochs move in the order of the log; nothing is overwritten before it is on disk; `flush` returns when its record is; compensations reach the disk |
| waits | the same buffer, filling up at the end of a partition; a committer and an insert that may find no space; a group of three | every insert and every flush ends |
| log_overwrite | records of three blocks, the greatest length, a buffer of eight | the first disagreement below |
| log_wakeup | the load of the shared flag, with more to insert than there is room for | the second one |

With two partitions of two buffers each, a load that starts at 9 of 16 wraps,
ends at the last byte of a segment and of a partition, and begins the next one.
Groups of three have a first member, a last one and one that is neither; a
fourth would be another of these.

`SparedSpec` is the specification without the first disagreement: its steps also
satisfy `KeepsOff`, that what is claimed ends within one buffer of the block in
which the part not yet on disk begins.  For a group that stays in its partition
this follows from the room check; one that opens a partition may break it.  No
step of the loads of the safety run does, and the theorems of `LogBufferProofs` are about
`SparedSpec`.

**Fairness.**  Threads run once they have called, and the daemon runs.  Calls are
not obliged to come; those of a load are so many and no more.

**Disagreements.**  `_acquire_buffer_space` leaves room for the length of a group
and two blocks, but a group that goes to the next partition also takes the rest
of the segment, which may be more than that: it overwrites what the daemon is
about to write (`log_overwrite`).  `release_space` resets `_waiting_for_space`
without knowing of inserts that have set it, and both the daemon and the insert
sleep (`log_wakeup`).  What else we met, without a run:

* A wait for log space sets the flag, and inserts do not touch the buffer while
  it is up.  When there is nothing to flush, the daemon does not take it down
  before space is released; until then inserts go back and forth between the
  insert lock and `_wait_flush_lock`.  `CallsEnd` leaves such loads out.
* A group that waits for space is closed, but may be longer than the buffer but
  two blocks; it waits for ever.  (Groups are not bounded; one takes as many
  threads as join while the first waits for the insert lock.)
* When a group is refused the rest of a partition, its members leave and its
  slot is never unused again: after `SLOT_ARRAY_SIZE` of them no group closes
  (`Fail`).
* `_join_slot` asserts that the slot it has read is in use; one that was closed
  and used up 256 times over meanwhile is that of another place.
* When the log ends exactly at the end of a partition's data, restart primes the
  epoch at offset 0 behind it, and inserts go on past the limit.

**Not modelled.**  The fast path of who finds the insert lock free, and the
variants compiled without `cdme`; `fetch`; the shutdown of the daemon; the wait
for a free partition and the opening and closing of files in `_flushX`, whose
choice of partitions is taken from the lsns; non-blocking flushes, whose signal
without the mutex may be lost, as the next one makes up for it.
## 7. Buffer pool

**Module.**  `BufferPool` is what `bf_m::fix` and `unfix` do below the latch:
`htab::lookup`, `bf_core_m::find`, `grab`, `replacement`, `publish_partial`,
`htab::_insert`, `ensure_space` and `cuckold`, `_replace_out`, and a cleaner's
`_clean_segment`; `BufferPoolProofs` has the theorems.  Section 8 models what pages and their lsns are for; there a
page is in its frame or is not, here is how it gets there.

**State.**  `cb` is the control block of a frame (name, old name, pin count,
latch, dirty, being written) with the page in the frame and its version; `table`
the buckets, with the slots in use and what the last one still holds; `unused`
the list `_unused`; `transit` and `tb` the transit buckets and their mutexes;
`writer` the page write mutexes; `disk` and `latest` the version of a page on
disk and the last one made.  `may` is what a thread may call, `place` and `my`
are where it is and its locals.

**Steps.**  A search reads a slot in one step and pins what it read in another,
with everybody else's in between, and so does a move: it reads the slot and
where its page belongs, then locks the two buckets.  What is done with a bucket
locked is one step; the look of `grab` at a bucket is one, and its rounds end
when the counts have not changed.  A dirty page that leaves the table is put in
transit in the same step, written later, and released in a third.  A cleaner
looks, takes the write mutex, copies and marks clean, lets the latch go, writes.
The clock is a choice among all frames that can be replaced, since the order in
which it visits them only matters for speed.

**Runs.**

| run | instance | shows |
|---|---|---|
| safety | three frames, three pages, one slot to a bucket; three loads | a page is in the table once, where it is looked for; who has fixed a page has it in its last version; an update is on disk or in a frame that will be written |
| pool_partial | two frames, three pages, three threads | the first disagreement |

The loads are: a pool with two dirty pages, in which two threads update any page
while a third cleans any; one page that can be in either of two buckets, both
wanted, so that it moves while it is looked for; and a page that one thread
updates twice while two cleaners write it.  With one slot to a bucket the table
is full at once, and every case of `ensure_space` but the recursion deeper than
one occurs.

**Fairness.**  None.  Calls are so many, and TLC's check for deadlock shows that
nobody is left waiting for a mutex, a latch or a transit.

**What the code relies on, and the disagreements.**  Trying to prove what the
run `safety` checks for every instance showed that three things have to be
assumed, none of which the code sees to; the theorems of section 9 show that
there is no fourth.

* *A transit is ended by who began it* (`OwnTransit`, an assumption of the
  theorems).  `_fix` calls `publish_partial` for every frame that it took from
  another page, also a clean one (`bf.cpp:1107`), and `publish_partial` takes
  that page out of its transit bucket if it is there; the comment says that it
  is there only if it was dirty when it was taken out
  (`bf_transit_bucket.h:131`).  When another thread has brought the page back and
  updated it by then, and a third has taken it out, dirty, the call ends the
  transit of the third.  The page is read from disk before it is written, and
  who fixes it misses the update (`pool_partial`).
* *A slot still has the page for which it was read when it is pinned or moved*
  (`Overtaken = FALSE`, in the model; an eviction or a move then waits until
  nobody has read a slot and not acted on it yet).
  - A search pins a frame without a lock if somebody else has it pinned
    (`bf_htab.cpp:441`).  The frame may have been evicted after the slot was
    read; `grab` pins it (`bf_core.cpp:642`) before it gives it its new name
    (781), and the search sees the old one.  It waits for the latch and returns
    the frame, with another page in it; `find` compares names in an assertion
    only (`bf_core.cpp:905`), and `_fix` writes the old name over the new one
    (`bf.cpp:1167`).  TLC shows it with `Thread = {1, 2}`, `Page = {1, 2, 3, 4}`,
    `Hash <- FourHash`, `Transit <- TransitBucket`, `Overtaken = TRUE` and
    `Loads <- Busy` in `BufferPool_partial.cfg`.
  - `ensure_space` says that `cuckold` will lock the buckets and check again
    (`bf_htab.cpp:177`), but what is checked are the counts.  When the slot has
    another page by then, that page goes to a bucket where no search finds it:
    the same with `Frame = {1, 2, 3}`, `Loads <- Crowded` and
    `INVARIANT OneFrame`.
* *A page is moved at most twice within two rounds of `grab`* (`FewMoves`, an
  assumption of the theorems).  `grab` has to be "sure it's not in the htab
  anywhere" (`bf_core.cpp:648`) and looks at both buckets until a round finds the
  counts of the round before, since a move changes some.  A page that is in its
  second bucket when the first is looked at, and that others move to the first,
  back, and to the first again, each time just before `grab` looks where it was,
  is missed although the counts agree, as what else comes and goes makes
  up for the moves; it is then read in again and is in the table
  twice.  Each move needs an insertion that finds no room; four threads do it,
  too many for a run, and we followed one such behaviour step by step with TLC.

The passing run has `Overtaken = FALSE`, and is too small for the other two: TLC
finds that each of its steps satisfies `OwnTransit` and `FewMoves`, so that the
theorems speak of all that it checks.

What else we met, without a run:

* `_lookup_harsh`, which is to look again with the locks, never looks: its
  loops run while there is a result, and there is none (`bf_htab.cpp:527`).
* When a read fails, `publish` marks the frame for those that wait; `find` tests
  the mark, the path of `grab` that finds the page does not.
* `upgrade_latch` keeps a reference to the page's name in the frame over the
  time in which it has let the page go (`bf.cpp:1394`).

**Not modelled.**  Errors of reads and writes, `refix`, upgrades of latches,
discarding of pages, prefetching, the reference and hot counts, the sorting of a
cleaner's list and its writes of several pages at once, the patience of the
clock, and the limit of the recursion in `ensure_space`, at which the process
ends.  The pin that a search takes on a frame with another name, and takes back,
is one step.  A latch is a set of compatible modes; section 4 has its queue.
## 8. Recovery

**Modules.**  `Recovery` is everything between a transaction's update and the
page on disk, with crashes: `xct.cpp` (insert, commit, abort, rollback),
`log_core.cpp` (order, flush daemon, compensation in the buffer, scavenging),
`bf.cpp` (fix, unfix, page cleaner, replacement, `force_all`), `chkpt.cpp` and
`restart.cpp`.  `RestartRules` has what restart computes from a log (analysis,
redo, undo), as functions, so that the properties can ask at any moment what a
restart would do with what is on disk.  `Store` is what all this promises: a
store made of whole transactions.  `MCRecovery` has the workloads.
`RecoveryProofs` has the theorems: `WriteAhead` of `Spec`, `NothingMissed` and
`LogReachesBack` of `SparedSpec` (section 9).

**State.**  `log` is the sequence of records, an lsn a position in it; `sealed`
is `_flush_lsn`, `durable` is `_durable_lsn`, `low` what scavenging has left,
`master` the master record.  A page is its lsn and the set of its items; an
update puts an item or cuts it off.  `frame[p]` is the control block (`in` the
hash table, `dirty`, `rec` for `_rec_lsn`, `old` for `_old_rec_lsn`), `copy[p]`
the copy that a cleaner is writing, `latch[p]` who has it latched EX.  `xct[x]`
has state, first and last lsn and `undo_nxt`; `thread[x]` where the thread is;
`chk` the locals of `chkpt_m::take`.  `dptab` and `redo` belong to restart,
`mode` is the operating mode.  `hist` remembers what transactions wrote, asked
and were told, and `outlook` is what a restart would make of the disk: both are
for the properties only.

**Steps.**  A thread's step ends where others can look: between the fix of a
page (which sets `rec_lsn`), the insert of the record, the marks that the
record leaves (`first_lsn`, `undo_nxt`, page lsn, dirty bit), and the unfix;
between commit's change of state, its record, the end of the sync and the end
record; between each inverse update of a rollback and its compensation, which
is made in the log buffer when the flush daemon has not come so far and by a
record otherwise.  The flush daemon seals, then writes; a crash in between
leaves any prefix of the sealed records.  A cleaner copies the page and marks
it clean, then writes the copy.  The checkpoint looks at one frame per step,
without latches.  Restart analyses, redoes record by record, forces pages,
rolls back the transaction with the newest record to undo, and may crash at
each of these steps and start again.

**Runs.**  An instance has two transactions and two pages; the workloads
bound updates, log length, checkpoints (one) and crashes (two).

| run | assumes | shows |
|---|---|---|
| recovery | the three below | from any moment, a restart leaves whole transactions, those that were told, and no loser (`ImplementsStore`, `NoTraceOfLosers`); `WriteAhead`; redo misses nothing; scavenging leaves enough |
| recovery_cleaner | not `CleanerAside` | redo misses an update |
| recovery_unheard | not `ListedHeard` | a loser's update stays |
| recovery_committing | the three | restart stops at an assertion |

Two transactions on one page make pages of mixed fate; two updates of one make
rollbacks of two steps and pages dirtied again while they are cleaned; two
crashes make a restart of a restart.  More of any kind repeats these.

**What the checkpoint has to be spared of.**  The properties do not hold of the
code as it is; three assumptions, conjuncts of the next-state relation, name
what breaks them, and each run without one shows a course of events:

* `CleanerAside`: `get_rec_lsn` skips frames that are not dirty before it asks
  for `safe_rec_lsn`, which exists for the page that a cleaner has marked clean
  and is writing.  An update on such a page is in no dirty page table; when the
  crash comes before the write, redo starts after it (`bf.cpp:2561`).
* `InsertAside`: the checkpoint runs between the insert of a record and the
  marks it leaves: the page is not yet dirty, or the transaction's `first_lsn`
  not yet set, but the record lies before the checkpoint begins.  The window is
  a few instructions in the thread that logs (`xct.cpp:2528-2586`,
  `xct.cpp:2899`), and no comment speaks of it.  For pages the assumption is
  wider, and a proof asked for it: the checkpoint looks at no page that is
  latched EX.  Of a page that is fixed EX and not yet dirty, `rec_lsn` is set
  (`bf.cpp:281`) but `get_rec_lsn` skips it (`bf.cpp:2561`), so the log may be
  scavenged past that `rec_lsn`; the page is dirtied then, and the *next*
  checkpoint lists it with a `rec_lsn` that is no longer in the log.  This takes
  two checkpoints, more than the runs below have; TLC found it once the proof of
  `RedoHasItsLog` had stopped there.
* `ListedHeard`: `xct_t::init` overwrites the lsns that restart hands over from
  the checkpoint's transaction table (`xct.cpp:1546`).  A loser that logged
  nothing after the checkpoint began is taken for one with nothing to undo.

A fourth disagreement is independent of them: a transaction that has entered
`xct_committing` and waits for the checkpoint to end is listed with that state,
which restart neither undoes nor knows how to end, and which an assertion
forbids (`restart.cpp:285`).

**Bounds.**  The log length, the numbers of checkpoints and crashes and the
programs of transactions are `Loads` of the instance; behaviours stop when the
log is full, hence deadlock is not checked.

**Not modelled.**  Prepared transactions, mounts, the freeing of stores,
save points set by clients, several threads in a transaction, lazy commits and
early lock release, the flush of hot old pages in `update_rec_lsn`, log space
(section 5), the bytes of the buffer (section 6), torn pages.
## 9. Proofs

`LockCoreProofs` proves `TypeCorrect == Spec => []TypeOK` for any set of
transactions and locks, any modes, bounds and durations, from the assumptions
named in `LockCore`.  `TypeOK` is not inductive: that `cnt` stays within its
bound needs to know that a waiting request has room for one more acquire, and
that `Detach` leaves a sequence of transactions needs the request to be in the
queue.  The inductive invariant `TypeInv` adds that a queue holds exactly the
transactions with a request, once each (`Queued`), and that who waits has room
to count (`RoomToCount`).

Its next part proves four of the invariants that the runs check, for any
instance without spurious wakeups (`~Spurious`, an assumption of each theorem;
section 3 has what happens otherwise).  The invariant has three layers:

* `WaitInv`: who works under a head mutex holds it; whose request is pending is
  in `acquire_lock` for that very lock; good news that reaches a thread is true.
  Gives `AwakeGranted`.  Each is needed for the others: that the news is true
  needs the walk to find only threads that wait for its lock, and that a thread
  leaves its wait only when granted or denied needs true news.
* `OrderInv`: while the detector works the flag is up and its request pending;
  while a walk works the flag is down and what it passed is granted or an
  upgrade; the flag is true when the mutex is free; holders stand first.  Gives
  `FlagTruthful` and `HoldersAreFirst`.  The end of a walk needs the least
  waiting place after its position to exist (`LeastMember`).
* `ModeInv`: the granted mode absorbs each holder's mode, and holders agree.
  Gives `NoConflict`.  The facts about the tables are those that hold although
  `supr` is not associative and `compat` not symmetric: what is absorbed by a
  group mode is absorbed by its supremum with any other (`LeqSupr`), and who may
  join a mode may join what it absorbs, but for UD and IS (`JoinsMembers`).
  `GroupModeOther` needs `HoldersFirst`: `granted_mode_other` stops at the first
  waiter.

Its last part builds on these layers, again for any instance without
spurious wakeups, and proves what callers of the lock core rely on:

* `WishInv`: a pending request asks for a mode that is more than what it holds.
  `ExactInv`: the granted mode of a head is the mode of the group of its holders
  (`GroupMode`, a closed form of the folds of `supr`; for groups whose members
  were let in one by one the order does not matter, `GroupJoined`).  `ModeInv`
  says that `gmode` is strong enough, `ExactInv` that it is not stronger: a
  release or a downgrade that forgot to compute it anew would break it.
* `Serves`: each step gives one transaction what it wants (`Takes`, `Gets`),
  starts one wish, ends one wish, drops one lock, or changes nothing of what is
  held and wanted.  Gives `HoldersKeep` and, as each kind is a step of
  `LockService`, the refinement `Implements`.
* `QueueMoves`: a step leaves a queue as it is, appends to it or takes one out,
  hence keeps the order of those that go on waiting.  Gives `NoneOvertakes`.
* `GroupModeFolds` compares the walk of the queue with `GroupMode` of the modes
  of its first members.  It is an induction along a queue, done by its least
  counterexample.
* `Unforgotten`: a pending request that is not ahead of a walk under way
  (`Reached`) is `Blocked`, by the holders or by a new request that waits ahead
  of it.  Holders only grow stronger but for releases and denials, and each of
  those starts a walk, which reaches everyone (`FreeUnforgotten`,
  `ScanUnforgotten`); UD and IS are excused where somebody may ask for UD.
  Gives `NoneForgotten`.

`McsLockProofs` proves all of `McsLock`'s invariants and its refinement.  The
inductive invariant `LineInv` says that there is a sequence of threads that the
nodes spell out (`Shape`): who is in it and where its members are in their
calls, which one is first and has the lock, and for each neighbouring pair
whether the link between them is missing, about to be written, or there.  A step
leaves that sequence as it is, appends to it or drops its first (`Stays`,
`Joined`, `Left`).  The refinement needs that the line that `McsLock` reads off the
nodes by following `next` is that sequence (`LineTold`, `OneChain`).

`LatchProofs` has the reader-writer lock below the latch and the latch.  `RwInv`:
the word counts the readers in it and has at most one writer's bit (`WordInv`),
who is between the parent lock's acquire and release is its first (`HeadInv`),
and what a thread has read of the word is what it will compare with (`OnWay`).
Gives the refinement of `RwLock` (`IsReaderWriterLock`) and `WriterShutsDoor`.
The word is arithmetic on cardinalities: a step adds or removes one thread of the
set that its summand counts.  The steps of a latch are steps of its lock
(`LatchSteps`), so a latch keeps both (`LatchIsALock`); `LatchInv` adds what each
record says at every point of a call, which gives `RecordTrue`.

`OccRwLockProofs` proves `WriterAlone`.  `MutexInv` says who is under the mutex,
`CountTrue` what the count counts, `SleepInv` who is asleep on which condition,
`AloneInv` that a writer that found the count empty stays alone, and `SignalInv`
that, where a writer sleeps or is about to and the count is empty but for its bit,
a reader on its way out has seen so and will signal.

The theorems of `McsIsALine`, `LatchProofs` and `OccRwLockProofs` assume that
threads are finitely many (`IsFiniteSet(Thread)`), as they count them or follow
them to the last; `Threads` has the one assumption on constants, that `NoThread` is none
of them.

`LogSpaceProofs` has two parts.  One proves the three properties of `ChkptSpace`
(`CheckpointCovered` and `ToppedUp`, which the run checks, and
`AccountsConserved`) for any sizes
that `_set_size` accepts.  The inductive invariant (`ChkptInv`) adds where space is in hand:
`scavenge` has at least the size of one checkpoint to give, or the account is
full, at every look it takes; and a look that says no without ending the process
leaves one checkpoint in the account.

The other proves the four invariants of `LogSpace`, for any
number of transactions, any sizes and a line of any length.  The inductive
invariant has four parts:

* `PaidInv`: the reserve of a transaction covers three times what it has to undo
  and its end, and is nil when nothing was logged.  Gives `RollbackIsPaid`.  A
  record pays only if at least `MIN_BYTES_READY` is at hand (`InsertPays`), which
  for a call that waited needs the next part.
* `TurnInv`: who has the turn is in the emergency part of `get_logbuf`, asks for
  exactly `MIN_BYTES_READY` and may time out.
* `LineInv`: an entry of the present wait belongs to a thread that sleeps, an
  entry of an earlier wait to a call in progress, and every sleeper that still
  needs something has an entry of its present wait.  Gives `SleeperIsListed` and
  `ForeverIsSignalled`; the latter since an entry of an earlier wait in front of
  the sleeper can only be of a call that has the turn, which does not wait
  without end.  What trimming leaves of the line needs the greatest element of
  its entries in use (`GreatestMember`, by well-founded induction of the library).
* `SettledInv`: outside a call nobody has bytes to give back or has been served
  in part, so that what such a step forgets is nothing.  Gives `BytesConserved`,
  of finitely many transactions: each step moves bytes between one transaction,
  one releaser and the accounts that all share (`Balanced`), and the sums over
  the others stay (`Balance`).  A sum over a finite set is a fold; that it is
  the first member's share plus the rest's (`SumOfChange`, `SumOfNothing`) is
  proved from the partial sums, along the subsets of the set (`SubsetInduction`).

`RecoveryProofs` is about any transactions, pages and workloads; the one
assumption on constants, in `Recovery`, is that `NoXct` is no transaction.

* `Base` holds of `Spec`, whatever a checkpoint meets (`BaseHolds`): the lsns
  of the log, of a checkpoint and of the master record are in order (`LogInv`);
  what a transaction remembers, and what its records point back to, are earlier
  records of the same transaction (`ChainInv`); an EX latch is held from the fix
  to the marks (`LatchInv`); disk, cleaner's copy and frame of a page are in
  order, and the record that is logged and not yet marked is ahead of all three
  (`PageInv`).  Gives `WritesFollowLog`.  The chain is needed since a
  compensation is written into a record of the log buffer, which must be the
  transaction's own and not yet sealed.
* `RunInv`, `RestartInv`: while the system runs, an update that is not on disk is
  in a dirty frame, under a `rec_lsn` no later than it, or in the copy that a
  cleaner writes, under the frame's `old`; while restart redoes, it is already
  in the frame or in the dirty page table.  A step changes a page in one of
  seven ways (`Touch`), and keeps each layer for each of them.
* `StoredInv`, `ChkptInv`: a restart that begins now, and one that would begin
  from the checkpoint under way, find each durable update that is not on disk.
  What `Outlook` computes is a recursive function along the log; that its table
  only grows by the first updates of pages it does not list is an induction over
  the records (`ScanOn`, `DptGrows`, `DptOfCheckpoint`).  With `CleanerAside`
  and `InsertAside` the five are inductive (`IInvStep`), and give
  `NothingIsMissed`.  `ListedHeard` is not needed for it.
* `FrameBack`, `ChkptBack`, `StoredBack`: no `rec_lsn` in a frame, in the table of
  the checkpoint under way or in the one that a restart computes is older than
  the oldest record left; and the page that the checkpoint has found clean has no
  `rec_lsn` older than its begin.  Give `RedoHasItsLog`.
* `Life`: how far a transaction is (`Works`), the records by which it has decided
  and ended and their order (`EndsOnce`), and that one which has logged something
  and has not decided for good is known, with the first of its records
  (`Known`, `Unfinished`, `FirstKnown`).  `LogKeeps` is the aim: scavenge has
  dropped records only of transactions that have decided for good.  `MasterTable`
  and `ChkptTable` say what the transaction table of the master checkpoint, and
  of the one under way, tells of each transaction, and that no record older than
  `min_xct_lsn` belongs to an undecided one; here `InsertAside` and `ListedHeard`
  are needed.  That analysis follows from these is an induction over the records
  (`XtStep`, `XtUnfinished`): who has decided is not undone, and the chain that
  undo walks back along is of the transaction's own records.  Together they are
  `UndoInv`, which with `RedoHasItsLog` gives `RestartHasItsLog`, all of
  `LogReachesBack`.

`BufferPoolProofs` proves the three invariants of `BufferPool` for any finite set
of threads and any frames, pages, slots, hash functions, transit buckets and
write mutexes (`PoolConstants`, which `MCSafety` evaluates for its instance).
The theorems are about `SparedSpec`: the steps of `PoolSpec`, with `~Overtaken`, that
also satisfy `OwnTransit` and `FewMoves`, the three things of section 7 that the
code relies on.  `FewMoves` counts the moves of a page, in the variable `moved`,
which no step reads.  The inductive invariant `IInv` was checked with
TLC for the loads of the run before it was proved.  It says:

* who has what: a thread on its way through `_fix` has a frame of its own that is
  in neither the table nor `_unused` (`Owned`), or has pinned or latched one that
  is in the table under the page it looks for (`Used`); latches, pin counts,
  transit mutexes and write mutexes are exactly what the places of the threads
  say (`Latched`, `PinsCounted`, `BucketsOwned`, `PagesOwned`), and EX excludes
  (`Excluded`).  Gives `PoolPinned`.  That a pinned frame stays in the table is
  the count: a step adds or removes one thread of the set it counts.
* what was read of a slot still holds (`Probed`, `Moves`), by `~Overtaken`.
* a page that `grab` has looked for and not found is not there: if it is in a
  bucket, it was moved since, at least as often as `Evades` says, three times by
  the end of the second equal round; then by `FewMoves` it is `Missing`, and
  since the transit mutex is held it stays so until it is inserted.  With
  `SlotsFilled` and `SlotsDiffer` this gives `PoolOneFrame`.
* a dirty page that leaves is the last version, in transit until it is written,
  and leaves once at a time (`Leaving`, `LeavesOnce`); who holds the transit
  mutex beyond the wait finds it in no transit (`Sought`), and a page that is
  neither in the table nor leaving is on disk in its last version (`OnDisk`).
  `OwnTransit` is needed for `Leaving` alone.
* a frame in the table that is not being read in has the last version, and it is
  dirty, being written, or that of the disk (`Current`); the copy of a cleaner is
  the version in the frame unless that is dirty again (`Copied`), and a frame is
  being written only while such a copy exists (`Cleaned`).  Gives
  `PoolFixedRight` and, with `OnDisk`, `PoolNothingLost`.

`LogBufferProofs` proves the invariants and action properties of `LogBuffer` for
any number of threads, any buffer of whole blocks, any partition of whole buffers
and any records (`BufferConstants`, which `MCSafety` evaluates for its instance),
under `SparedSpec` of section 6.  The invariant was checked with TLC for the loads of
the runs before it was proved.

* `GroupInv` is about groups by themselves: the parts of the members of a group
  do not overlap and, while it is open, make it up; once it is closed, `left` is what
  its members have still to copy; a closed group is in the queue once, and who
  owns the job of exposing finds nothing left to copy.  That the last one out
  sees a `left` of its own size is a cardinality: each copy takes one member's part
  out of the set (`LeaveGroups`).
* `Ghost(at)` speaks of a function `at` that is no variable: for each position
  that the log has ever had in the buffer, counted on past its end, the lsn of the
  byte that belongs there, or -1 where the rest of a partition was skipped.  The
  theorems hold since there always is one; a step leaves it as it is, and a claim
  extends it by one group (`Grown`).  It increases (`AtInv`); the groups of the queue
  are consecutive pieces of it, and `_cur_epoch` ends where the first begins
  (`EndsInv`, `LineInv`); the bytes from the daemon's `start` to `end` are what it
  says, but where a member has still to copy (`BytesInv`); the epochs and a
  flush under way are pieces of it, and a flush cuts it where the disk ends
  (`EpochInv`, `FlushInv`, `InFlight`).  Gives `FlushStable`, `Unbroken`, `EpochsInOrder`
  and `NoOverwrite`.
* `RecordInv` and `ClrInv`: a record whose insert has returned lies in one piece
  below the end of the epochs or in one group of the queue, a flush never ends
  inside it, and what was compensated is still in the buffer or went to disk so.
  Give `CompensationKept` and `FlushKept`.

Of `KeepsOff` the invariant uses only that the window from `start` to `end` is no longer
than the buffer, so that two positions in it never share a byte (`ModDiffers`).

Induction over numbers and along a finite set is done by hand: the library's
well-founded induction gives the least member of a set of naturals
(`LeastMember`), and the least counterexample, or the smallest subset that is
one, stands for the step.

Only model-checked: liveness (no fairness in the prover's reach); and of section 8
the refinement of `Store` and `NoTraceOfLosers`, which rest on which items the undo pass leaves on a page
for a whole set of losers.
## 10. What is not modelled

`PROJECT.json` lists every component with its status.  Not planned are parts
without control of their own (formats of log records, keys and vectors, return
codes), single-threaded bulk algorithms (sorting, bulk load), system call
wrappers, the vendored atomic operations and regular expressions, the Tcl shell,
statistics and crash hooks.  The memory model is taken to be sequentially
consistent where the code uses atomic operations and fences.
