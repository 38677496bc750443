---------------------------- MODULE RestartRules ----------------------------
(***************************************************************************)
(* What restart_m computes from a log: the analysis of the records after   *)
(* the master checkpoint, the pages that the redo pass leaves, and the     *)
(* records that the undo pass takes back.  These are the rules; Recovery   *)
(* applies them step by step, with crashes between the steps.              *)
(*                                                                         *)
(* An lsn is the position of a record in the log, 0 is lsn_t::null.  An    *)
(* update puts one item on a page, or cuts it off; the content of a page   *)
(* is the set of its items.                                                *)
(***************************************************************************)
EXTENDS Integers, Sequences, FiniteSets, FiniteSetsExt

CONSTANTS
  Xct,    \* transactions
  Page    \* pages of the volume

NoLsn == 0

IsUpdate(r) == r.k \in {"put", "cut"}
IsUndo(r)   == IsUpdate(r) /\ ~r.clr
IsCpsn(r)   == r.k = "comp" \/ (IsUpdate(r) /\ r.clr)

Opposite(k) == IF k = "put" THEN "cut" ELSE "put"

\* Applying an update to the items of its page.
Effect(r, has) == IF r.k = "put" THEN has \union {r.item} ELSE has \ {r.item}

(***************************************************************************)
(* The analysis pass.                                                      *)
(***************************************************************************)

NoEntry == [st |-> "none", last |-> NoLsn, undo |-> NoLsn]

\* xct_t::init gets last_lsn and undo_nxt, and then sets both to null.
Reborn(state) == [NoEntry EXCEPT !.st = state]

FreshScan == [dpt |-> [p \in Page |-> NoLsn], xt |-> [x \in Xct |-> NoEntry], ended |-> FALSE]

\* Slip: undo_nxt stays as new_xct set it.
Heard_AsBorn(e, r, i) ==
  [ st   |-> IF r.k = "free" THEN "freeing" ELSE IF e.st = "none" THEN "active" ELSE e.st,
    last |-> i,
    undo |-> IF IsCpsn(r) \/ e.st = "none" THEN r.prev ELSE e.undo ]

\* A record of a transaction: the first one enters it as active.
Heard(e, r, i) ==
  [ st   |-> IF r.k = "free" THEN "freeing" ELSE IF e.st = "none" THEN "active" ELSE e.st,
    last |-> i,
    undo |-> IF IsUndo(r) THEN i ELSE IF IsCpsn(r) THEN r.prev ELSE e.undo ]

\* The scan of record i; ended: the master checkpoint has been read to its end.
Analysed(a, log, i) ==
  LET r == log[i] IN
  CASE IsUpdate(r) ->
         [a EXCEPT !.xt[r.x] = Heard(@, r, i),
                   !.dpt[r.page] = IF @ = NoLsn THEN i ELSE @]
    [] r.k \in {"comp", "free"} -> [a EXCEPT !.xt[r.x] = Heard(@, r, i)]
    [] r.k = "end" -> [a EXCEPT !.xt[r.x] = NoEntry]
    [] r.k = "bftab" /\ ~a.ended ->
         [a EXCEPT !.dpt = [p \in Page |-> IF r.tab[p] # NoLsn THEN r.tab[p] ELSE @[p]]]
    [] r.k = "xtab" /\ ~a.ended ->
         [a EXCEPT !.xt = [x \in Xct |-> IF @[x].st = "none" /\ r.tab[x] # "none"
                                         THEN Reborn(r.tab[x]) ELSE @[x]]]
    [] r.k = "cend" -> [a EXCEPT !.ended = TRUE]
    [] OTHER -> a

\* Scans what follows the master record; transactions found freeing space are disposed of.
Analysis(log, master) ==
  LET scan[i \in master .. Len(log)] ==
        IF i = master THEN FreshScan ELSE Analysed(scan[i - 1], log, i)
  IN [scan[Len(log)] EXCEPT !.xt = [x \in Xct |-> IF @[x].st = "freeing" THEN NoEntry ELSE @[x]]]

\* dirty_pages_tab_t::min_rec_lsn, past the end of the log when there is no dirty page.
RedoLsn(dpt, log) == Min({dpt[p] : p \in {q \in Page : dpt[q] # NoLsn}} \union {Len(log) + 1})

(***************************************************************************)
(* The redo pass, for one record and one page.                             *)
(***************************************************************************)

Wanted(r, i, dpt) == IsUpdate(r) /\ dpt[r.page] # NoLsn /\ i >= dpt[r.page]

Redo(page, r, i) == [lsn |-> i, has |-> Effect(r, page.has)]

RedonePage(log, dpt, p, page) ==
  LET start == RedoLsn(dpt, log)
      redone[i \in Nat] ==
        IF i < start THEN page
        ELSE LET c == redone[i - 1] IN
             IF Wanted(log[i], i, dpt) /\ log[i].page = p /\ c.lsn < i
             THEN Redo(c, log[i], i) ELSE c
  IN redone[Len(log)]

(***************************************************************************)
(* The undo pass: from undo_nxt back along prev, over what is compensated  *)
(* already.  set_clr overwrites _prev with undo_nxt, so there is one link. *)
(***************************************************************************)

UndoChain(log, from) ==
  LET back[k \in 0 .. from] ==
        IF k = 0 THEN from ELSE IF back[k - 1] = NoLsn THEN NoLsn ELSE log[back[k - 1]].prev
  IN {n \in {back[k] : k \in 0 .. from} : n # NoLsn /\ IsUndo(log[n])}

\* An item on page p ends as it was before the oldest of its records taken back.
UndonePage(log, taken, p, has) ==
  LET mine     == {n \in taken : log[n].page = p}
      oldest   == {n \in mine : \A m \in mine : log[m].item = log[n].item => n <= m}
      itemsOf(k) == {log[n].item : n \in {m \in oldest : log[m].k = k}}
  IN (has \ itemsOf("put")) \union itemsOf("cut")

\* What a restart would do with this log, this master record and these pages on disk:
\* redo from the dirty page table, take back the records of the losers, and leave the store.
Outlook(log, master, disk) ==
  LET a     == Analysis(log, master)
      taken == UNION {UndoChain(log, a.xt[x].undo) : x \in {y \in Xct : a.xt[y].st = "active"}}
  IN [ dpt   |-> a.dpt,
       taken |-> taken,
       store |-> [p \in Page |-> UndonePage(log, taken, p, RedonePage(log, a.dpt, p, disk[p]).has)] ]

=============================================================================
