------------------------------ MODULE Recovery ------------------------------
(***************************************************************************)
(* Logging, page cleaning, checkpoints, crash and restart: transactions    *)
(* that update pages of the buffer pool under an EX latch, commit and roll *)
(* back (xct.cpp), the flush daemon (log_core.cpp), the page cleaner and   *)
(* page replacement (bf.cpp), the fuzzy checkpoint (chkpt.cpp) and the     *)
(* three passes of restart (restart.cpp).                                  *)
(*                                                                         *)
(* One thread is attached to each transaction.  Transactions update items  *)
(* of their own, as record locks see to, on pages that they share.  A page *)
(* that is on its way in or out is nobody's to fix (the in-transit lists), *)
(* so reading it or writing it out for a replacement is one step.          *)
(***************************************************************************)
EXTENDS RestartRules

CONSTANTS
  Loads   \* workloads: the pages that each transaction updates, in order, and bounds on
          \* the length of the log and on the numbers of checkpoints and of crashes

ASSUME LoadsAssumption ==
  \A l \in Loads : /\ l.pages \in [Xct -> Seq(Page)]
                   /\ l.log \in Nat /\ l.chkpts \in Nat /\ l.crashes \in Nat

VARIABLES
  log,      \* the log records: those on disk, then those in the log buffer
  sealed,   \* _flush_lsn: the flush daemon is writing, or has written, up to here
  durable,  \* _durable_lsn
  low,      \* the oldest record that scavenge has left
  master,   \* the master lsn on disk
  disk,     \* page -> its lsn and its items on disk
  frame,    \* page -> its frame in the buffer pool
  copy,     \* page -> the copy that a page cleaner is writing
  latch,    \* page -> the transaction that holds the EX latch
  xct,      \* transaction -> its entry in the transaction table
  thread,   \* transaction -> where its thread is
  chk,      \* the checkpoint thread
  mode,     \* operating mode: up, redo, force, undo, or halted by an assertion
  dptab,    \* restart's dirty page table
  redo,     \* restart's next record to redo
  hist,     \* what the transactions did, for the properties
  load,     \* the workload
  crashes,  \* crashes so far
  outlook   \* what a restart would do with what is on disk

logVars     == <<log, sealed, durable, low, master>>
pageVars    == <<disk, frame, copy, latch>>
restartVars == <<mode, dptab, redo>>
vars == <<logVars, pageVars, xct, thread, chk, restartVars, hist, load, crashes, outlook>>

NoXct == "nobody"

ASSUME NoXctAssumption == NoXct \notin Xct

CleanPage == [lsn |-> NoLsn, has |-> {}]
Absent == [in |-> FALSE, lsn |-> NoLsn, has |-> {}, dirty |-> FALSE, rec |-> NoLsn, old |-> NoLsn]
Idle == [at |-> "idle", page |-> CHOOSE p \in Page : TRUE, kind |-> "put",
         item |-> [xct |-> NoXct, no |-> 0], back |-> NoLsn, next |-> NoLsn, save |-> NoLsn]
NewXct == [st |-> "none", first |-> NoLsn, last |-> NoLsn, undo |-> NoLsn]
NoChkpt == [at |-> "off", todo |-> {}, tab |-> [p \in Page |-> NoLsn], lsn |-> NoLsn,
            minXct |-> NoLsn, taken |-> 0]

\* The log of a store that was formatted and has taken its first checkpoint.
FirstLog == << [k |-> "begin"],
               [k |-> "xtab", tab |-> [x \in Xct |-> "none"]],
               [k |-> "cend"] >>

Init ==
  /\ log = FirstLog /\ sealed = Len(FirstLog) /\ durable = Len(FirstLog)
  /\ low = 1 /\ master = 1
  /\ disk = [p \in Page |-> CleanPage]
  /\ frame = [p \in Page |-> Absent]
  /\ copy = [p \in Page |-> CleanPage]
  /\ latch = [p \in Page |-> NoXct]
  /\ xct = [x \in Xct |-> NewXct]
  /\ thread = [x \in Xct |-> Idle]
  /\ chk = NoChkpt
  /\ mode = "up"
  /\ dptab = [p \in Page |-> NoLsn] /\ redo = NoLsn
  /\ hist = [wrote |-> [x \in Xct |-> {}], asked |-> {}, told |-> {}, quit |-> {}, cut |-> {}]
  /\ load \in Loads
  /\ crashes = 0
  /\ outlook = Outlook(log, master, disk)

CurrLsn == Len(log) + 1
Room == Len(log) < load.log
Minimum(a, b) == IF a < b THEN a ELSE b

\* chkpt_serial_m: transactions stay out while a checkpoint is taken.
NoCheckpoint == chk.at = "off"

At(x, where) == thread[x].at = where
Goes(x, where) == thread' = [thread EXCEPT ![x].at = where]

(***************************************************************************)
(* Fixing a page EX: bf_m::_fix, find or replacement, then update_rec_lsn. *)
(***************************************************************************)

Read(p) == IF frame[p].in THEN frame[p]
           ELSE [Absent EXCEPT !.in = TRUE, !.lsn = disk[p].lsn, !.has = disk[p].has]

\* A mutant: rec_lsn is set at every fix.
UpdateRecLsn_Always(f) == [f EXCEPT !.rec = CurrLsn]

UpdateRecLsn(f) == IF f.rec = NoLsn THEN [f EXCEPT !.rec = CurrLsn] ELSE f

FixEX(x, p) ==
  /\ latch[p] = NoXct
  /\ latch' = [latch EXCEPT ![p] = x]
  /\ frame' = [frame EXCEPT ![p] = UpdateRecLsn(Read(p))]

(***************************************************************************)
(* A transaction's updates.                                                *)
(***************************************************************************)

Begin(x) ==
  /\ mode = "up" /\ xct[x].st = "none" /\ x \notin hist.cut
  /\ load.pages[x] # << >>
  /\ xct' = [xct EXCEPT ![x].st = "active"]
  /\ UNCHANGED <<logVars, pageVars, thread, chk, restartVars, hist, crashes>>

Fix(x) ==
  LET n == Cardinality(hist.wrote[x]) + 1 IN
  /\ mode = "up" /\ xct[x].st = "active" /\ At(x, "idle")
  /\ n <= Len(load.pages[x])
  /\ FixEX(x, load.pages[x][n])
  /\ thread' = [thread EXCEPT ![x] =
        [Idle EXCEPT !.at = "fixed", !.page = load.pages[x][n], !.item = [xct |-> x, no |-> n]]]
  /\ UNCHANGED <<logVars, disk, copy, xct, chk, restartVars, hist, crashes>>

\* bf_m::unfix of a page that was not changed after all.
Unfix(x) ==
  LET p == thread[x].page IN
  /\ At(x, "fixed") /\ thread[x].back = NoLsn
  /\ latch' = [latch EXCEPT ![p] = NoXct]
  /\ frame' = [frame EXCEPT ![p].rec = IF frame[p].dirty THEN @ ELSE NoLsn]
  /\ Goes(x, "idle")
  /\ UNCHANGED <<logVars, disk, copy, xct, chk, restartVars, hist, crashes>>

\* log->insert in _flush_logbuf: the record has its place, and last_lsn is set.
Logs(x, r) ==
  /\ Room
  /\ log' = Append(log, r)

Insert(x) ==
  LET t == thread[x] IN
  /\ At(x, "fixed")
  /\ Logs(x, [k |-> t.kind, x |-> x, page |-> t.page, item |-> t.item,
              prev |-> xct[x].last, clr |-> FALSE])
  /\ xct' = [xct EXCEPT ![x].last = CurrLsn]
  /\ Goes(x, "logged")
  /\ hist' = IF t.back = NoLsn
             THEN [hist EXCEPT !.wrote[x] = @ \union {<<t.page, t.item>>}] ELSE hist
  /\ UNCHANGED <<sealed, durable, low, master, pageVars, chk, restartVars, crashes>>

\* The rest of _flush_logbuf: _first_lsn and _undo_nxt.
Tracked(e, lsn, undo) ==
  [e EXCEPT !.first = IF @ = NoLsn THEN lsn ELSE @, !.last = lsn, !.undo = undo]

\* Then set_lsns and unfix_dirty in give_logbuf, and the update itself, under the same latch.
Apply(x) ==
  LET t == thread[x]  p == t.page  lsn == xct[x].last IN
  /\ At(x, "logged")
  /\ xct' = [xct EXCEPT ![x] = Tracked(@, lsn, lsn)]
  /\ frame' = [frame EXCEPT ![p].lsn = lsn, ![p].dirty = TRUE, ![p].has = Effect(log[lsn], @)]
  /\ latch' = [latch EXCEPT ![p] = NoXct]
  /\ Goes(x, IF t.back = NoLsn THEN "idle" ELSE "comp")
  /\ UNCHANGED <<logVars, disk, copy, chk, restartVars, hist, crashes>>

(***************************************************************************)
(* Rolling back: xct_t::rollback from undo_nxt to the save point, with one *)
(* inverse update per record, compensated in the log buffer or by a record *)
(* of its own.                                                             *)
(***************************************************************************)

Undoing(x) == At(x, "undo") /\ thread[x].next > thread[x].save

\* r is undoable: fix its page for the inverse update.
UndoRecord(x) ==
  LET t == thread[x]  r == log[t.next] IN
  /\ Undoing(x) /\ IsUndo(r)
  /\ FixEX(x, r.page)
  /\ thread' = [thread EXCEPT ![x] = [t EXCEPT !.at = "fixed", !.page = r.page, !.item = r.item,
                                               !.kind = Opposite(r.k), !.back = t.next]]
  /\ UNCHANGED <<logVars, disk, copy, xct, chk, restartVars, hist, crashes>>

\* r is compensated, or nothing to undo: go on with the record it points back to.
SkipRecord(x) ==
  LET t == thread[x]  r == log[t.next] IN
  /\ Undoing(x) /\ ~IsUndo(r)
  /\ thread' = [thread EXCEPT ![x].next = r.prev]
  /\ UNCHANGED <<logVars, pageVars, xct, chk, restartVars, hist, crashes>>

Undone(x) == thread' = [thread EXCEPT ![x].at = "undo", ![x].back = NoLsn,
                                      ![x].next = log[thread[x].back].prev]

\* compensate_undo: the inverse update becomes a compensation of what it undid.
CompensateInLog(x) ==
  /\ At(x, "comp") /\ xct[x].last > sealed
  /\ log' = [log EXCEPT ![xct[x].last].clr = TRUE, ![xct[x].last].prev = log[thread[x].back].prev]
  /\ Undone(x)
  /\ UNCHANGED <<sealed, durable, low, master, pageVars, xct, chk, restartVars, hist, crashes>>

LogCompensation(x) ==
  LET target == log[thread[x].back].prev IN
  /\ At(x, "comp") /\ xct[x].last <= sealed
  /\ Logs(x, [k |-> "comp", x |-> x, prev |-> target, clr |-> TRUE])
  /\ xct' = [xct EXCEPT ![x] = Tracked(@, CurrLsn, target)]
  /\ Undone(x)
  /\ UNCHANGED <<sealed, durable, low, master, pageVars, chk, restartVars, hist, crashes>>

\* The save point is reached.
RolledBack(x) ==
  /\ At(x, "undo") /\ thread[x].next <= thread[x].save
  /\ xct' = [xct EXCEPT ![x].undo = thread[x].next]
  /\ thread' = [thread EXCEPT ![x] =
       [Idle EXCEPT !.at = IF xct[x].st = "aborting" THEN "ask" ELSE "idle"]]
  /\ UNCHANGED <<logVars, pageVars, chk, restartVars, hist, crashes>>

RollBackTo(x, save) ==
  thread' = [thread EXCEPT ![x] = [Idle EXCEPT !.at = "undo", !.next = xct[x].undo, !.save = save]]

(***************************************************************************)
(* Ending a transaction.                                                   *)
(***************************************************************************)

Commit(x) ==
  /\ mode = "up" /\ xct[x].st = "active" /\ At(x, "idle")
  /\ xct' = [xct EXCEPT ![x].st = "committing"]
  /\ Goes(x, "ask")
  /\ hist' = [hist EXCEPT !.asked = @ \union {x}]
  /\ UNCHANGED <<logVars, pageVars, chk, restartVars, crashes>>

Quits(x) ==
  /\ xct[x].st = "active" /\ At(x, "idle")
  /\ xct' = [xct EXCEPT ![x].st = "aborting"]
  /\ RollBackTo(x, NoLsn)
  /\ hist' = [hist EXCEPT !.quit = @ \union {x}]
  /\ UNCHANGED <<logVars, pageVars, chk, restartVars, crashes>>

Abort(x) == mode = "up" /\ Quits(x)

\* A transaction that logged nothing.
EndUnlogged(x) ==
  /\ At(x, "ask") /\ xct[x].last = NoLsn
  /\ NoCheckpoint
  /\ xct' = [xct EXCEPT ![x].st = "ended"]
  /\ Goes(x, "done")
  /\ UNCHANGED <<logVars, pageVars, chk, restartVars, hist, crashes>>

\* chkpt_serial, state freeing space, and the record that decides.
LogFreeing(x) ==
  /\ At(x, "ask") /\ xct[x].last # NoLsn
  /\ NoCheckpoint
  /\ Logs(x, [k |-> "free", x |-> x, prev |-> xct[x].last, clr |-> FALSE])
  /\ xct' = [xct EXCEPT ![x] = [Tracked(@, CurrLsn, CurrLsn) EXCEPT !.st = "freeing"]]
  /\ Goes(x, "sync")
  /\ UNCHANGED <<sealed, durable, low, master, pageVars, chk, restartVars, hist, crashes>>

\* A mutant: a commit that returns before the log is durable.
Synced_NoWait(x) ==
  /\ At(x, "sync")
  /\ Goes(x, "ending")
  /\ hist' = [hist EXCEPT !.told = @ \union ({x} \cap (hist.asked \ hist.quit))]
  /\ UNCHANGED <<logVars, pageVars, xct, chk, restartVars, crashes>>

\* _sync_logbuf has returned: locks are released, the commit is there for all to see.
Synced(x) ==
  /\ At(x, "sync") /\ xct[x].last <= durable
  /\ Goes(x, "ending")
  /\ hist' = IF x \in hist.asked \ hist.quit THEN [hist EXCEPT !.told = @ \union {x}] ELSE hist
  /\ UNCHANGED <<logVars, pageVars, xct, chk, restartVars, crashes>>

\* _xct_ended
LogEnd(x) ==
  /\ At(x, "ending") /\ NoCheckpoint
  /\ Logs(x, [k |-> "end", x |-> x, prev |-> xct[x].last, clr |-> FALSE])
  /\ xct' = [xct EXCEPT ![x] = [Tracked(@, CurrLsn, CurrLsn) EXCEPT !.st = "ended"]]
  /\ Goes(x, "done")
  /\ UNCHANGED <<sealed, durable, low, master, pageVars, chk, restartVars, hist, crashes>>

(***************************************************************************)
(* The flush daemon: what it has begun to write is beyond compensation.    *)
(***************************************************************************)

FlushBegins ==
  /\ sealed = durable /\ sealed < Len(log)
  /\ sealed' = Len(log)
  /\ UNCHANGED <<log, durable, low, master, pageVars, xct, thread, chk, restartVars, hist, crashes>>

FlushEnds ==
  /\ durable < sealed
  /\ durable' = sealed
  /\ UNCHANGED <<log, sealed, low, master, pageVars, xct, thread, chk, restartVars, hist, crashes>>

(***************************************************************************)
(* Pages on their way to disk.                                             *)
(***************************************************************************)

OnDisk(f) == [lsn |-> f.lsn, has |-> f.has]
MarkClean(f) == [f EXCEPT !.dirty = FALSE, !.rec = NoLsn]

\* _clean_segment, under an SH latch: copy, save_rec_lsn, mark_clean.
Copy(p) ==
  /\ mode = "up"
  /\ frame[p].dirty /\ latch[p] = NoXct /\ frame[p].old = NoLsn
  /\ copy' = [copy EXCEPT ![p] = OnDisk(frame[p])]
  /\ frame' = [frame EXCEPT ![p] = MarkClean([@ EXCEPT !.old = frame[p].rec])]
  /\ UNCHANGED <<logVars, disk, latch, xct, thread, chk, restartVars, hist, crashes>>

\* A mutant: the cleaner writes without looking at the durable lsn.
WriteCopy_Ahead(p) ==
  /\ frame[p].old # NoLsn
  /\ disk' = [disk EXCEPT ![p] = copy[p]]
  /\ copy' = [copy EXCEPT ![p] = CleanPage]
  /\ frame' = [frame EXCEPT ![p].old = NoLsn]
  /\ UNCHANGED <<logVars, latch, xct, thread, chk, restartVars, hist, crashes>>

\* _write_out of the copy, once the log is durable so far, and clr_old_rec_lsn.
WriteCopy(p) ==
  /\ frame[p].old # NoLsn /\ copy[p].lsn <= durable
  /\ disk' = [disk EXCEPT ![p] = copy[p]]
  /\ copy' = [copy EXCEPT ![p] = CleanPage]
  /\ frame' = [frame EXCEPT ![p].old = NoLsn]
  /\ UNCHANGED <<logVars, latch, xct, thread, chk, restartVars, hist, crashes>>

\* The frame of p goes to another page, or to none; a dirty one is written first.
Drop(p) ==
  /\ frame[p].in /\ latch[p] = NoXct /\ frame[p].old = NoLsn
  /\ frame[p].dirty => frame[p].lsn <= durable
  /\ disk' = IF frame[p].dirty THEN [disk EXCEPT ![p] = OnDisk(frame[p])] ELSE disk
  /\ frame' = [frame EXCEPT ![p] = Absent]
  /\ UNCHANGED <<logVars, copy, latch, xct, thread, chk, restartVars, hist, crashes>>

\* replacement and _replace_out
Replace(p) == mode # "force" /\ Drop(p)

(***************************************************************************)
(* The checkpoint: chkpt_m::take from chkpt_begin on.  The buffer pool is  *)
(* read frame by frame without a latch, the transaction table under its    *)
(* mutex, which no transaction takes to change its own lsns.               *)
(***************************************************************************)

LogsForCheckpoint(r) ==
  /\ Logs(NoXct, r)
  /\ UNCHANGED <<sealed, durable, low, master, pageVars, xct, thread, restartVars, hist, crashes>>

ChkptBegin ==
  /\ mode = "up" /\ chk.at = "off" /\ chk.taken < load.chkpts
  /\ LogsForCheckpoint([k |-> "begin"])
  /\ chk' = [NoChkpt EXCEPT !.at = "scan", !.todo = Page, !.lsn = CurrLsn, !.taken = chk.taken]

SafeRecLsn(f) == IF f.old # NoLsn THEN f.old ELSE f.rec

\* get_rec_lsn, for one frame
ChkptScan(p) ==
  /\ chk.at = "scan" /\ p \in chk.todo
  /\ chk' = [chk EXCEPT !.todo = @ \ {p},
                        !.tab[p] = IF frame[p].dirty THEN SafeRecLsn(frame[p]) ELSE NoLsn]
  /\ UNCHANGED <<logVars, pageVars, xct, thread, restartVars, hist, crashes>>

ChkptPages ==
  /\ chk.at = "scan" /\ chk.todo = {}
  /\ chk' = [chk EXCEPT !.at = "xcts"]
  /\ IF \E p \in Page : chk.tab[p] # NoLsn
     THEN LogsForCheckpoint([k |-> "bftab", tab |-> chk.tab])
     ELSE UNCHANGED <<logVars, pageVars, xct, thread, restartVars, hist, crashes>>

\* Those that have logged something and not ended; an aborting one is to be aborted again.
Listed == {x \in Xct : xct[x].first # NoLsn /\ xct[x].st # "ended"}
ListedAs(x) == IF x \notin Listed THEN "none"
               ELSE IF xct[x].st = "aborting" THEN "active" ELSE xct[x].st

ChkptXcts ==
  /\ chk.at = "xcts"
  /\ LogsForCheckpoint([k |-> "xtab", tab |-> [x \in Xct |-> ListedAs(x)]])
  /\ chk' = [chk EXCEPT !.at = "end", !.minXct = Min({xct[x].first : x \in Listed} \union {chk.lsn})]

ChkptEnd ==
  /\ chk.at = "end"
  /\ LogsForCheckpoint([k |-> "cend"])
  /\ chk' = [chk EXCEPT !.at = "sync"]

\* flush_all, then set_master.
SetMaster ==
  /\ chk.at = "sync"
  /\ \E i \in chk.lsn .. durable : log[i].k = "cend"
  /\ master' = chk.lsn
  /\ chk' = [chk EXCEPT !.at = "scavenge"]
  /\ UNCHANGED <<log, sealed, durable, low, pageVars, xct, thread, restartVars, hist, crashes>>

MinRecLsn == Min({chk.tab[p] : p \in {q \in Page : chk.tab[q] # NoLsn}} \union {chk.lsn})

\* A mutant: the log is dropped up to the oldest dirty page, whatever transactions need.
Scavenge_PagesOnly ==
  /\ chk.at = "scavenge"
  /\ low' = Max({low, MinRecLsn})
  /\ chk' = [NoChkpt EXCEPT !.taken = chk.taken + 1]
  /\ UNCHANGED <<log, sealed, durable, master, pageVars, xct, thread, restartVars, hist, crashes>>

Scavenge ==
  /\ chk.at = "scavenge"
  /\ low' = Max({low, Minimum(MinRecLsn, chk.minXct)})
  /\ chk' = [NoChkpt EXCEPT !.taken = chk.taken + 1]
  /\ UNCHANGED <<log, sealed, durable, master, pageVars, xct, thread, restartVars, hist, crashes>>

(***************************************************************************)
(* A crash, and the restart: analysis, redo, forcing the pages, undo.      *)
(***************************************************************************)

\* Of the records that were being written, some first ones may have reached the disk.
Crash ==
  /\ crashes < load.crashes
  /\ \E k \in durable .. sealed : log' = SubSeq(log, 1, k) /\ sealed' = k /\ durable' = k
  /\ frame' = [p \in Page |-> Absent]
  /\ copy' = [p \in Page |-> CleanPage]
  /\ latch' = [p \in Page |-> NoXct]
  /\ hist' = [hist EXCEPT !.cut = @ \union {x \in Xct : xct[x].st # "none"}]
  /\ xct' = [x \in Xct |-> NewXct]
  /\ thread' = [x \in Xct |-> Idle]
  /\ chk' = [NoChkpt EXCEPT !.taken = chk.taken]
  /\ mode' = "analysis"
  /\ dptab' = [p \in Page |-> NoLsn] /\ redo' = NoLsn
  /\ crashes' = crashes + 1
  /\ UNCHANGED <<low, master, disk>>

Analyse ==
  /\ mode = "analysis" /\ mode' = "redo"
  /\ LET a == Analysis(log, master) IN
       /\ dptab' = a.dpt
       /\ redo' = RedoLsn(a.dpt, log)
       /\ xct' = [x \in Xct |-> [st |-> a.xt[x].st, first |-> NoLsn,
                                 last |-> a.xt[x].last, undo |-> a.xt[x].undo]]
  /\ UNCHANGED <<logVars, pageVars, thread, chk, hist, crashes>>

\* Redone: rec_lsn, which fixing set to the end of the log, is repaired.  Else: the page is newer.
RedoRecord ==
  /\ mode = "redo" /\ redo <= Len(log)
  /\ redo' = redo + 1
  /\ LET r == log[redo] IN
       IF ~Wanted(r, redo, dptab) THEN UNCHANGED <<frame, dptab>>
       ELSE LET f == Read(r.page) IN
            IF f.lsn < redo
            THEN /\ frame' = [frame EXCEPT ![r.page] =
                       [f EXCEPT !.lsn = redo, !.has = Effect(r, @), !.dirty = TRUE,
                                 !.rec = IF f.dirty THEN @ ELSE redo]]
                 /\ UNCHANGED dptab
            ELSE /\ frame' = [frame EXCEPT ![r.page] = f]
                 /\ dptab' = [dptab EXCEPT ![r.page] = f.lsn + 1]
  /\ UNCHANGED <<logVars, disk, copy, latch, xct, thread, chk, mode, hist, crashes>>

RedoEnds ==
  /\ mode = "redo" /\ redo > Len(log)
  /\ mode' = "force"
  /\ UNCHANGED <<logVars, pageVars, xct, thread, chk, dptab, redo, hist, crashes>>

\* force_all(true): every page is written and discarded before the undo.
ForceOut(p) == mode = "force" /\ Drop(p)

ForceEnds ==
  /\ mode = "force" /\ \A p \in Page : ~frame[p].in
  /\ mode' = "undo"
  /\ dptab' = [p \in Page |-> NoLsn] /\ redo' = NoLsn
  /\ UNCHANGED <<logVars, pageVars, xct, thread, chk, hist, crashes>>

\* undo_pass: one transaction at a time, the one with the newest record to undo.
Losers == {x \in Xct : xct[x].st = "active"}
Resting == mode = "undo" /\ \A x \in Xct : thread[x].at \in {"idle", "done"}
Newest(x) == x \in Losers /\ \A y \in Losers : xct[y].undo <= xct[x].undo

RollBackFirst(x) ==
  /\ Resting /\ Newest(x) /\ Losers # {x} /\ xct[x].undo # NoLsn
  /\ RollBackTo(x, Max({xct[y].undo : y \in Losers \ {x}}))
  /\ UNCHANGED <<logVars, pageVars, xct, chk, restartVars, hist, crashes>>

AbortFirst(x) ==
  /\ Resting /\ Newest(x) /\ (Losers = {x} \/ xct[x].undo = NoLsn)
  /\ Quits(x)

\* recover asserts that every transaction that is left is prepared.
UndoEnds ==
  /\ Resting /\ Losers = {}
  /\ mode' = IF \A x \in Xct : xct[x].st \in {"none", "ended"} THEN "up" ELSE "halted"
  /\ xct' = [x \in Xct |-> IF xct[x].st = "ended" THEN NewXct ELSE xct[x]]
  /\ thread' = [x \in Xct |-> Idle]
  /\ UNCHANGED <<logVars, pageVars, chk, dptab, redo, hist, crashes>>

Step ==
  \/ \E x \in Xct :
       \/ Begin(x) \/ Fix(x) \/ Unfix(x) \/ Insert(x) \/ Apply(x)
       \/ UndoRecord(x) \/ SkipRecord(x) \/ CompensateInLog(x) \/ LogCompensation(x)
       \/ RolledBack(x) \/ Commit(x) \/ Abort(x) \/ EndUnlogged(x) \/ LogFreeing(x) \/ Synced(x) \/ LogEnd(x)
       \/ RollBackFirst(x) \/ AbortFirst(x)
  \/ \E p \in Page : Copy(p) \/ WriteCopy(p) \/ Replace(p) \/ ChkptScan(p) \/ ForceOut(p)
  \/ FlushBegins \/ FlushEnds
  \/ ChkptBegin \/ ChkptPages \/ ChkptXcts \/ ChkptEnd \/ SetMaster \/ Scavenge
  \/ Crash \/ Analyse \/ RedoRecord \/ RedoEnds \/ ForceEnds \/ UndoEnds

\* The records on disk; outlook is a function of them, of the master record and of the pages.
Stored == <<SubSeq(log, 1, durable), master, disk>>

Next ==
  /\ Step /\ UNCHANGED load
  /\ outlook' = IF Stored' = Stored THEN outlook
                ELSE Outlook(SubSeq(log, 1, durable)', master', disk')

Spec == Init /\ [][Next]_vars

(***************************************************************************)
(* What the checkpoint has to be spared of.                                *)
(***************************************************************************)

\* It does not look at a page that a cleaner is writing: get_rec_lsn takes it for clean.
CleanerAside ==
  \A p \in chk.todo \ chk'.todo : chk'.at # "off" => frame[p].old = NoLsn

\* It looks at a page as under an SH latch, and at the transactions not between the insert of
\* a record and the marks the record leaves.
InsertAside ==
  /\ \A p \in chk.todo \ chk'.todo : chk'.at # "off" => latch[p] = NoXct
  /\ chk.at = "xcts" /\ chk'.at = "end" => \A x \in Xct : ~At(x, "logged")

\* Each transaction it lists is heard of before the checkpoint becomes the master.
ListedHeard ==
  master' # master =>
    \A i \in chk.lsn .. Len(log) : log[i].k = "xtab" =>
      \A x \in Xct : log[i].tab[x] = "active" =>
        \E j \in chk.lsn .. durable :
          log[j].k \in {"put", "cut", "comp", "free"} /\ log[j].x = x

SparedSpec   == Init /\ [][Next /\ CleanerAside /\ InsertAside /\ ListedHeard]_vars
CleanerSpec  == Init /\ [][Next /\ InsertAside /\ ListedHeard]_vars
UnheardSpec  == Init /\ [][Next /\ CleanerAside /\ InsertAside]_vars

(***************************************************************************)
(* Properties.                                                             *)
(***************************************************************************)

InStore(x) == \A w \in hist.wrote[x] : w[2] \in outlook.store[w[1]]

S == INSTANCE Store WITH
       wrote <- hist.wrote, asked <- hist.asked, told <- hist.told,
       lost <- {x \in hist.quit \union hist.cut : hist.wrote[x] # {} /\ ~InStore(x)},
       store <- outlook.store

\* Whatever is on disk at any moment, a restart makes a store of whole transactions of it:
\* those that were told they committed, with all their items, some of those that asked, and
\* none that gave up or was cut off (atomicity and durability of xct_t, log and restart_m).
ImplementsStore == S!StoreSpec

\* The write-ahead rule: no page on disk is ahead of the durable log, whichever of cleaner,
\* replacement and force_all wrote it.
WriteAhead == \A p \in Page : disk[p].lsn <= durable

\* A durable update that is not on its page on disk is redone by a restart: no page is dirtied
\* behind the back of the checkpoint's dirty page table (get_rec_lsn, safe_rec_lsn).
NothingMissed ==
  \A i \in low .. durable :
    IsUpdate(log[i]) /\ disk[log[i].page].lsn < i => Wanted(log[i], i, outlook.dpt)

\* What scavenge has dropped from the log is needed neither for redo nor for undo: min_rec_lsn
\* and min_xct_lsn of the checkpoint reach back far enough.
RedoReachesBack == low <= master /\ RedoLsn(outlook.dpt, SubSeq(log, 1, durable)) >= low
UndoReachesBack == \A n \in outlook.taken : n >= low
LogReachesBack  == RedoReachesBack /\ UndoReachesBack

\* A transaction that a crash cut off and that never asked to commit has left nothing on any
\* page once the system is up again: undo_pass took back every update of it.
NoTraceOfLosers ==
  mode = "up" =>
    \A x \in hist.cut \ hist.asked : \A p \in Page :
      \A item \in Read(p).has : item.xct # x

\* A restart ends with the system up: the assertion in recover() that the transactions left
\* over are prepared ones holds, so nothing that a checkpoint listed stops every restart.
RestartEnds == mode # "halted"

=============================================================================
