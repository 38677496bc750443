--------------------------- MODULE RecoveryProofs ---------------------------
(***************************************************************************)
(* Proofs about Recovery, for any transactions, pages and workloads: the   *)
(* write-ahead rule of every behaviour, and, where the checkpoint is       *)
(* spared of what CleanerAside, InsertAside and ListedHeard name, that a   *)
(* restart misses no durable update and finds the log it has to redo and   *)
(* to undo.                                                                *)
(***************************************************************************)
EXTENDS Recovery, TLAPS, FiniteSetTheorems, WellFoundedInduction, NaturalsInduction

-----------------------------------------------------------------------------
(***************************************************************************)
(* Types.                                                                  *)
(***************************************************************************)
Item == [xct : Xct \union {NoXct}, no : Nat]
Update == [k : {"put", "cut"}, x : Xct, page : Page, item : Item, prev : Nat, clr : BOOLEAN]
Mark == [k : {"comp", "free", "end"}, x : Xct, prev : Nat, clr : BOOLEAN]
Bound == [k : {"begin", "cend"}]
PageTab == [k : {"bftab"}, tab : [Page -> Nat]]
XctTab == [k : {"xtab"}, tab : [Xct -> {"none", "active", "committing", "freeing"}]]
LogRec == Update \union Mark \union Bound \union PageTab \union XctTab

State == {"none", "active", "aborting", "committing", "freeing", "ended"}
Entry == [st : State, first : Nat, last : Nat, undo : Nat]
Where == {"idle", "fixed", "logged", "undo", "comp", "ask", "sync", "ending", "done"}
Thread == [at : Where, page : Page \union {Idle.page}, kind : {"put", "cut"}, item : Item,
           back : Nat, next : Nat, save : Nat]
OnVolume == [lsn : Nat, has : SUBSET Item]
Frame == [in : BOOLEAN, lsn : Nat, has : SUBSET Item, dirty : BOOLEAN, rec : Nat, old : Nat]
Chkpt == [at : {"off", "scan", "xcts", "end", "sync", "scavenge"}, todo : SUBSET Page,
          tab : [Page -> Nat], lsn : Nat, minXct : Nat, taken : Nat]
History == [wrote : [Xct -> SUBSET (Page \X Item)], asked : SUBSET Xct, told : SUBSET Xct,
            quit : SUBSET Xct, cut : SUBSET Xct]
Mode == {"up", "analysis", "redo", "force", "undo", "halted"}

TypeOK ==
  /\ log \in Seq(LogRec)
  /\ sealed \in Nat /\ durable \in Nat /\ low \in Nat /\ master \in Nat
  /\ disk \in [Page -> OnVolume]
  /\ frame \in [Page -> Frame]
  /\ copy \in [Page -> OnVolume]
  /\ latch \in [Page -> Xct \union {NoXct}]
  /\ xct \in [Xct -> Entry]
  /\ thread \in [Xct -> Thread]
  /\ chk \in Chkpt
  /\ mode \in Mode
  /\ dptab \in [Page -> Nat]
  /\ redo \in Nat
  /\ hist \in History /\ \A x \in Xct : IsFiniteSet(hist.wrote[x])
  /\ load \in Loads

\* The records of transaction x, and the updates of page p.
Own(x) == {i \in 1 .. Len(log) : log[i] \in Update \union Mark /\ log[i].x = x}
OfPage(p) == {i \in 1 .. Len(log) : IsUpdate(log[i]) /\ log[i].page = p}

\* Restart is reading or redoing the log, or forcing out what it has redone.
Restarting == mode \in {"analysis", "redo", "force"}

-----------------------------------------------------------------------------
(***************************************************************************)
(* What holds of every behaviour.                                          *)
(***************************************************************************)
\* The lsns of the log, of the master record and of a checkpoint under way are in order, and
\* no page on disk is ahead of the durable log.
LogInv ==
  /\ 1 <= master /\ master <= durable /\ durable <= sealed /\ sealed <= Len(log)
  /\ Restarting => durable = Len(log)
  /\ \A p \in Page : disk[p].lsn <= durable
  /\ 1 <= low /\ low <= master
  /\ chk.at # "off" => mode = "up" /\ master <= chk.lsn /\ chk.lsn <= Len(log)
  /\ chk.at = "scavenge" => chk.lsn = master
  /\ mode = "redo" => redo # 0

\* What a transaction and its thread remember are records of its own, and the links between
\* records lead back to records of the same transaction.
Chain(x) ==
  /\ xct[x].last # 0 => xct[x].last \in Own(x)
  /\ xct[x].undo # 0 => xct[x].undo \in Own(x)
  /\ thread[x].next # 0 => thread[x].next \in Own(x)
  /\ thread[x].back # 0 => thread[x].back \in Own(x) /\ log[thread[x].back] \in Update
  /\ thread[x].at \in {"logged", "comp"} =>
       xct[x].last # 0 /\ thread[x].back < xct[x].last /\ log[xct[x].last] \in Update
  /\ At(x, "comp") => thread[x].back # 0
Links ==
  \A i \in 1 .. Len(log) :
    log[i] \in Update \union Mark =>
      log[i].prev < i /\ (log[i].prev # 0 => log[i].prev \in Own(log[i].x))
ChainInv == Links /\ \A x \in Xct : Chain(x)

\* The EX latch of a page is held exactly by the thread between its fix and its marks, and a
\* latched page is in its frame, with a rec_lsn.
LatchInv ==
  /\ \A x \in Xct : thread[x].at \in {"fixed", "logged"} =>
       thread[x].page \in Page /\ latch[thread[x].page] = x
  /\ \A p \in Page : latch[p] # NoXct =>
       /\ thread[latch[p]].at \in {"fixed", "logged"} /\ thread[latch[p]].page = p
       /\ frame[p].in /\ frame[p].rec # 0
  /\ Restarting => \A x \in Xct : At(x, "idle")

\* The record of p that is logged and not yet marked on the page.
Logged(p) == IF latch[p] # NoXct /\ At(latch[p], "logged") THEN xct[latch[p]].last ELSE 0

\* The lsn of the newest copy of p.
Lsn(p) == IF frame[p].in THEN frame[p].lsn ELSE disk[p].lsn

\* Frame, copy and disk of a page: the disk is behind the copy, the copy behind the frame, and
\* the record that is logged but not yet marked is ahead of all three.
PageOk(p) ==
  /\ ~frame[p].in => frame[p] = Absent
  /\ frame[p].in => disk[p].lsn <= frame[p].lsn
  /\ frame[p].lsn <= Len(log)
  /\ frame[p].rec <= Len(log) + 1
  /\ frame[p].dirty => frame[p].rec # 0
  /\ frame[p].old # 0 => disk[p].lsn <= copy[p].lsn /\ copy[p].lsn <= frame[p].lsn
  /\ Logged(p) # 0 => Logged(p) \in OfPage(p) /\ frame[p].lsn < Logged(p)
PageInv == \A p \in Page : PageOk(p)

Base == TypeOK /\ LogInv /\ ChainInv /\ LatchInv /\ PageInv

-----------------------------------------------------------------------------
(***************************************************************************)
(* What holds when the checkpoint looks at a page as under an SH latch and *)
(* at none that a cleaner is writing.                                      *)
(***************************************************************************)
\* The frame of p is dirty since update i or an earlier one.
Marked(p, i) == frame[p].rec # 0 /\ frame[p].rec <= i /\ (frame[p].dirty \/ i = Logged(p))

\* While the system runs, the newest copy of a page has all its updates but the one that is
\* logged and not yet marked; what is not on disk is marked in the frame or is in the copy that
\* a cleaner writes, under its old rec_lsn.
RunOk(p) ==
  \A i \in OfPage(p) :
    /\ i <= Lsn(p) \/ i = Logged(p)
    /\ frame[p].in /\ frame[p].old = 0 /\ disk[p].lsn < i => Marked(p, i)
    /\ frame[p].old # 0 /\ copy[p].lsn < i => Marked(p, i)
    /\ frame[p].old # 0 /\ disk[p].lsn < i /\ i <= copy[p].lsn => frame[p].old <= i
RunInv == ~Restarting => \A p \in Page : RunOk(p)

\* While restart redoes, each page has its updates so far, and those that it lacks beyond are
\* in the dirty page table.
RestartInv ==
  Restarting =>
    /\ \A p \in Page : /\ frame[p].old = 0
                       /\ frame[p].in /\ ~frame[p].dirty => frame[p].lsn = disk[p].lsn
    /\ mode = "analysis" => \A p \in Page : ~frame[p].in
    /\ mode = "redo" =>
         \A p \in Page : \A i \in OfPage(p) :
           IF i < redo THEN i <= Lsn(p)
           ELSE Lsn(p) < i => dptab[p] # 0 /\ dptab[p] <= i
    /\ mode = "force" => \A p \in Page : \A i \in OfPage(p) : i <= Lsn(p)

\* A restart that begins now finds every durable update that is not on disk: it reads a complete
\* checkpoint, and its dirty page table goes back far enough.
Missed(dpt, p, i) == disk[p].lsn < i /\ ~(dpt[p] # 0 /\ dpt[p] <= i)
StoredInv ==
  /\ outlook = Outlook(SubSeq(log, 1, durable), master, disk)
  /\ \E c \in master + 1 .. durable : log[c].k = "cend"
  /\ \A p \in Page : outlook.dpt[p] <= durable
  /\ \A p \in Page : \A i \in OfPage(p) : i <= durable => ~Missed(outlook.dpt, p, i)

\* The checkpoint that is being taken.  What the pages it has looked at lack on disk is in its
\* table or was logged after it began; and the table is in the log, before the end of the
\* checkpoint, if it names a page.
Since(k) == {i \in chk.lsn + 1 .. Len(log) : log[i].k = k}
ChkptInv ==
  chk.at # "off" =>
    /\ log[chk.lsn].k = "begin"
    /\ chk.at # "scan" => chk.todo = {}
    /\ \A p \in Page \ chk.todo : \A i \in OfPage(p) :
         disk[p].lsn < i => IF chk.tab[p] = 0 THEN chk.lsn <= i ELSE chk.tab[p] <= i
    /\ \A p \in Page : chk.tab[p] <= Len(log) + 1 /\ \A c \in Since("cend") : chk.tab[p] <= c
    /\ chk.at \in {"scan", "xcts", "end"} => Since("cend") = {}
    /\ \A i \in Since("bftab") : chk.at # "scan" /\ log[i].tab = chk.tab
    /\ chk.at # "scan" /\ (\E p \in Page : chk.tab[p] # 0) =>
         \E i \in Since("bftab") : \A c \in Since("cend") : i < c

IInv == Base /\ RunInv /\ RestartInv /\ StoredInv /\ ChkptInv

\* Nothing that a restart would redo is older than the oldest record left: neither in a frame,
\* nor in the table of the checkpoint under way, nor in the table that a restart computes.  Of a
\* page that the checkpoint has seen clean, rec_lsn is later than the checkpoint's begin.
FrameBack ==
  ~Restarting =>
    \A p \in Page :
      frame[p].rec # 0 => low <= frame[p].rec /\ (frame[p].dirty \/ latch[p] # NoXct)
ChkptBack ==
  chk.at # "off" =>
    \A p \in Page \ chk.todo :
      /\ chk.tab[p] # 0 => low <= chk.tab[p]
      /\ frame[p].rec # 0 => IF chk.tab[p] = 0 THEN chk.lsn <= frame[p].rec ELSE chk.tab[p] <= frame[p].rec
StoredBack ==
  \A p \in Page : outlook.dpt[p] # 0 => /\ low <= outlook.dpt[p]
                                       /\ (chk.at = "scavenge" => MinRecLsn <= outlook.dpt[p])
BackInv == IInv /\ FrameBack /\ ChkptBack /\ StoredBack

\* The records by which x has decided, and those by which it has ended; it has decided for good
\* when the first of them is durable.
FreeRecs(x) == {i \in Own(x) : log[i].k = "free"}
EndRecs(x) == {i \in Own(x) : log[i].k = "end"}
Freed(x) == \E i \in FreeRecs(x) : i <= durable

\* A transaction decides after its last update, and ends after it has decided, once.
EndsOnce(x) ==
  /\ \A i \in FreeRecs(x) : \A j \in Own(x) : i < j => j \in EndRecs(x)
  /\ \A i \in EndRecs(x) : (\A j \in Own(x) : j <= i) /\ \E j \in FreeRecs(x) : j < i

\* How far a transaction is, where its thread is, and what it has logged.
Working == {"fixed", "logged", "undo", "comp"}
Works(x) ==
  /\ thread[x].at \in {"sync", "ending"} <=> xct[x].st = "freeing"
  /\ At(x, "done") <=> xct[x].st = "ended"
  /\ xct[x].st = "none" => At(x, "idle")
  /\ At(x, "ask") => xct[x].st \in {"committing", "aborting"}
  /\ thread[x].at \in Working => xct[x].st \in {"active", "aborting"}
  /\ xct[x].st = "committing" /\ mode # "up" => At(x, "idle")
  /\ At(x, "fixed") /\ mode # "up" => thread[x].back # 0
  /\ At(x, "sync") => xct[x].last \in FreeRecs(x)
  /\ At(x, "ending") => Freed(x)
  /\ xct[x].st = "freeing" => EndRecs(x) = {}
  /\ FreeRecs(x) # {} => xct[x].st \in {"none", "freeing", "ended"}
  /\ xct[x].first # 0 => xct[x].last # 0 /\ xct[x].first \in Own(x)

\* A transaction that has logged something is known, or was cut off.  Until it has decided for
\* good it has not ended, and while the system runs it knows the first of its records.
Known(x) ==
  Own(x) # {} => IF mode = "up" THEN x \in hist.cut \/ xct[x].st # "none" ELSE x \in hist.cut
Unfinished(x) ==
  mode # "analysis" /\ Own(x) # {} /\ ~Freed(x) =>
    xct[x].st \notin {"none", "ended"} /\ (xct[x].st # "committing" => xct[x].last # 0)
FirstKnown(x) ==
  mode = "up" /\ Own(x) # {} /\ ~Freed(x) =>
    IF xct[x].first # 0 THEN \A i \in Own(x) : xct[x].first <= i
    ELSE At(x, "logged") /\ Own(x) = {xct[x].last}
Life(x) == EndsOnce(x) /\ Works(x) /\ Known(x) /\ Unfinished(x) /\ FirstKnown(x)

\* What the transaction table logged at i, by a checkpoint that began at l, says of x.
TableSays(x, l, i) ==
  /\ \A j \in FreeRecs(x) \union EndRecs(x) : ~(l < j /\ j < i)
  /\ log[i].tab[x] = "none" /\ (\E j \in Own(x) : j < i) => \E j \in FreeRecs(x) : j < i
  /\ log[i].tab[x] = "freeing" => \E j \in FreeRecs(x) : j < i
  /\ log[i].tab[x] \in {"active", "committing"} => ~\E j \in FreeRecs(x) : j < i

\* The one table of the master checkpoint; those that it lists as active are heard of later.
MasterTable ==
  \E i \in master + 1 .. durable :
    /\ log[i].k = "xtab"
    /\ \A j \in master + 1 .. i : log[j].k # "cend"
    /\ \E c \in i + 1 .. durable : /\ log[c].k = "cend"
                                  /\ \A j \in master + 1 .. c : log[j].k = "xtab" => j = i
    /\ \A x \in Xct : /\ TableSays(x, master, i)
                      /\ log[i].tab[x] = "active" =>
                           \E j \in Own(x) \ EndRecs(x) : master < j /\ j <= durable

\* The checkpoint that is being taken: no transaction has decided or ended since it began.  The
\* table that it has logged is its only one, and transactions that its oldest record is later
\* than have decided.
TableLogged ==
  /\ chk.minXct <= chk.lsn
  /\ \A x \in Xct : \A i \in Own(x) : i < chk.minXct => Freed(x)
  /\ \E i \in Since("xtab") : /\ Since("xtab") = {i}
                              /\ \A c \in Since("cend") : i < c
                              /\ \A x \in Xct : TableSays(x, chk.lsn, i)
ChkptTable ==
  chk.at # "off" =>
    /\ \A x \in Xct : \A j \in FreeRecs(x) \union EndRecs(x) : j < chk.lsn
    /\ chk.at \in {"scan", "xcts"} => Since("xtab") = {}
    /\ chk.at \in {"end", "sync", "scavenge"} => TableLogged

\* Scavenge has dropped records only of transactions that have decided for good.
LogKeeps == \A x \in Xct : \A i \in Own(x) : i < low => Freed(x)

UndoInv == BackInv /\ (\A x \in Xct : Life(x)) /\ LogKeeps /\ ChkptTable /\ MasterTable

-----------------------------------------------------------------------------
\* A set of naturals has a least member.
LEMMA LeastMember ==
  ASSUME NEW T \in SUBSET Nat, T # {}
  PROVE  \E n \in T : \A k \in T : n <= k
<1>. DEFINE R == OpToRel(<, Nat)
<1>1. \A a, b \in Nat : a < b => <<a, b>> \in R
  BY DEF OpToRel
<1>2. IsWellFoundedOn(R, Nat)
  BY NatLessThanWellFounded
<1>. HIDE DEF R
<1>3. PICK n \in T : \A k \in T : ~(<<k, n>> \in R)
  BY <1>2, WFMin
<1>4. ASSUME NEW k \in T
      PROVE  n <= k
  <2>1. n \in Nat /\ k \in Nat /\ ~(<<k, n>> \in R)
    BY <1>3
  <2>2. ~(k < n)
    BY <2>1, <1>1, Zenon
  <2>. QED
    BY <2>1, <2>2
<1>. QED
  BY <1>4

\* Min of a set of naturals is a member of it, and the least.
LEMMA MinIs ==
  ASSUME NEW T \in SUBSET Nat, T # {}
  PROVE  Min(T) \in T /\ \A k \in T : Min(T) <= k
  BY LeastMember DEF Min

\* Max of a bounded set of naturals is a member of it, and the greatest.
LEMMA MaxIs ==
  ASSUME NEW n \in Nat, NEW T \in SUBSET (0 .. n), T # {}
  PROVE  Max(T) \in T /\ \A k \in T : k <= Max(T)
<1>. DEFINE U == {n - k : k \in T}
<1>1. U \in SUBSET Nat /\ U # {}
  <2>1. \A k \in T : n - k \in Nat
    OBVIOUS
  <2>2. PICK k \in T : TRUE
    OBVIOUS
  <2>3. n - k \in U
    OBVIOUS
  <2>. QED
    BY <2>1, <2>3
<1>. HIDE DEF U
<1>2. PICK u \in U : \A v \in U : u <= v
  BY <1>1, LeastMember
<1>3. PICK m \in T : u = n - m
  BY <1>2 DEF U
<1>4. ASSUME NEW k \in T
      PROVE  k <= m
  <2>1. n - k \in U
    BY DEF U
  <2>. QED
    BY <1>2, <1>3, <2>1
<1>. QED
  BY <1>3, <1>4 DEF Max

\* Induction along an interval.
LEMMA Along ==
  ASSUME NEW m \in Nat, NEW n \in Nat, NEW T, m \in T,
         \A i \in m + 1 .. n : i - 1 \in T => i \in T
  PROVE  \A i \in m .. n : i \in T
<1>. DEFINE U == {i \in m .. n : i \notin T}
<1>1. SUFFICES ASSUME U # {}
               PROVE  FALSE
  OBVIOUS
<1>2. PICK i \in U : \A j \in U : i <= j
  <2>1. U \in SUBSET Nat
    OBVIOUS
  <2>. HIDE DEF U
  <2>. QED
    BY <1>1, <2>1, LeastMember
<1>3. i \in m + 1 .. n /\ i - 1 \in m .. n
  OBVIOUS
<1>4. i - 1 \in T
  BY <1>2, <1>3
<1>. QED
  BY <1>3, <1>4

-----------------------------------------------------------------------------
(***************************************************************************)
(* The records of the log.                                                 *)
(***************************************************************************)
\* The kind of a record tells which of the five sorts it is.
LEMMA Kinds ==
  ASSUME NEW r \in LogRec
  PROVE  /\ IsUpdate(r) <=> r \in Update
         /\ r.k \in {"comp", "free", "end"} <=> r \in Mark
         /\ r.k \in {"begin", "cend"} <=> r \in Bound
         /\ r.k = "bftab" <=> r \in PageTab
         /\ r.k = "xtab" <=> r \in XctTab
         /\ r \in Update \union Mark => r.x \in Xct /\ r.prev \in Nat /\ r.clr \in BOOLEAN
         /\ r \in Update => r.page \in Page
  BY DEF LogRec, IsUpdate, Update, Mark, Bound, PageTab, XctTab

\* The analysis pass as a function of the lsn that it has come to.
IsScan(f, L, m, n) ==
  f = [i \in m .. n |-> IF i = m THEN FreshScan ELSE Analysed(f[i - 1], L, i)]
Scan(L, m) == CHOOSE f : IsScan(f, L, m, Len(L))

\* There is a function that is the analysis pass, record by record ...
LEMMA ScanExists ==
  ASSUME NEW L, NEW m \in Nat, NEW n \in Nat, m <= n
  PROVE  \E f : IsScan(f, L, m, n)
<1>. DEFINE T == {k \in m .. n : \E f : f = [i \in m .. k |-> IF i = m THEN FreshScan
                                                           ELSE Analysed(f[i - 1], L, i)]}
<1>1. m \in T
  <2>1. m .. m = {m} /\ m \in m .. n
    OBVIOUS
  <2>2. [i \in m .. m |-> FreshScan]
          = [i \in m .. m |-> IF i = m THEN FreshScan ELSE Analysed([j \in m .. m |-> FreshScan][i - 1], L, i)]
    BY <2>1
  <2>. QED
    BY <2>1, <2>2
<1>2. ASSUME NEW k \in m + 1 .. n, k - 1 \in T
      PROVE  k \in T
  <2>1. PICK f : f = [i \in m .. k - 1 |-> IF i = m THEN FreshScan ELSE Analysed(f[i - 1], L, i)]
    BY <1>2
  <2>. DEFINE g == [i \in m .. k |-> IF i = k THEN Analysed(f[k - 1], L, k) ELSE f[i]]
  <2>2. ASSUME NEW i \in m .. k
        PROVE  g[i] = IF i = m THEN FreshScan ELSE Analysed(g[i - 1], L, i)
    <3>1. CASE i = m
      BY <3>1, <2>1
    <3>2. CASE i # m
      <4>1. i - 1 \in m .. k - 1
        BY <3>2
      <4>2. g[i - 1] = f[i - 1]
        BY <4>1
      <4>3. CASE i = k
        BY <4>2, <4>3, <3>2
      <4>4. CASE i # k
        <5>1. i \in m .. k - 1
          BY <4>4
        <5>2. f[i] = Analysed(f[i - 1], L, i)
          BY <5>1, <3>2, <2>1
        <5>3. g[i] = f[i]
          BY <4>4
        <5>. QED
          BY <5>2, <5>3, <4>2, <3>2
      <4>. QED
        BY <4>3, <4>4
    <3>. QED
      BY <3>1, <3>2
  <2>3. g = [i \in m .. k |-> g[i]]
    OBVIOUS
  <2>. HIDE DEF g
  <2>4. g = [i \in m .. k |-> IF i = m THEN FreshScan ELSE Analysed(g[i - 1], L, i)]
    BY <2>2, <2>3
  <2>5. k \in m .. n
    OBVIOUS
  <2>. QED
    BY <2>4, <2>5
<1>. HIDE DEF T
<1>3. n \in T
  BY <1>1, <1>2, Along
<1>. QED
  BY <1>3 DEF T, IsScan

\* ... so Scan is one ...
LEMMA ScanIs ==
  ASSUME NEW L, Len(L) \in Nat, NEW m \in Nat, m <= Len(L)
  PROVE  /\ Scan(L, m)[m] = FreshScan
         /\ \A i \in m + 1 .. Len(L) : Scan(L, m)[i] = Analysed(Scan(L, m)[i - 1], L, i)
<1>1. IsScan(Scan(L, m), L, m, Len(L))
  BY ScanExists DEF Scan
<1>2. Scan(L, m) = [i \in m .. Len(L) |-> IF i = m THEN FreshScan ELSE Analysed(Scan(L, m)[i - 1], L, i)]
  BY <1>1 DEF IsScan
<1>. DEFINE g == Scan(L, m)
<1>. HIDE DEF g
<1>3. g = [i \in m .. Len(L) |-> IF i = m THEN FreshScan ELSE Analysed(g[i - 1], L, i)]
  BY <1>2 DEF g
<1>4. g[m] = FreshScan
  BY <1>3
<1>5. ASSUME NEW i \in m + 1 .. Len(L)
      PROVE  g[i] = Analysed(g[i - 1], L, i)
  <2>1. i \in m .. Len(L) /\ i # m
    OBVIOUS
  <2>. QED
    BY <1>3, <2>1
<1>. QED
  BY <1>4, <1>5 DEF g

\* ... and Analysis of the log is what Scan has at its end.
LEMMA AnalysisIs ==
  ASSUME NEW L, NEW m
  PROVE  Analysis(L, m) = [Scan(L, m)[Len(L)] EXCEPT
           !.xt = [x \in Xct |-> IF @[x].st = "freeing" THEN NoEntry ELSE @[x]]]
  BY DEF Analysis, Scan, IsScan

-----------------------------------------------------------------------------
(***************************************************************************)
(* The analysis pass, one record.                                          *)
(***************************************************************************)
XctEntry == [st : {"none", "active", "committing", "freeing"}, last : Nat, undo : Nat]
Analysing == [dpt : [Page -> Nat], xt : [Xct -> XctEntry], ended : BOOLEAN]

\* What record r at i does to the entry of a page and of a transaction.
PageAfter(e, r, i, p, ended) ==
  IF r \in Update /\ r.page = p THEN (IF e = 0 THEN i ELSE e)
  ELSE IF r \in PageTab /\ ~ended /\ r.tab[p] # 0 THEN r.tab[p] ELSE e

XctAfter(e, r, i, x, ended) ==
  IF r \in Update \union Mark /\ r.x = x THEN (IF r.k = "end" THEN NoEntry ELSE Heard(e, r, i))
  ELSE IF r \in XctTab /\ ~ended /\ e.st = "none" /\ r.tab[x] # "none" THEN Reborn(r.tab[x])
  ELSE e

\* An entry that hears of one more record of its transaction is an entry.
LEMMA HeardType ==
  ASSUME NEW e \in XctEntry, NEW r \in Update \union Mark, NEW i \in Nat
  PROVE  Heard(e, r, i) \in XctEntry
  BY DEF Heard, XctEntry, Update, Mark

\* A transaction that has no entry when a record of it is read gets an active one.
LEMMA RebornIs ==
  ASSUME NEW s \in {"none", "active", "committing", "freeing"}
  PROVE  Reborn(s) = [st |-> s, last |-> 0, undo |-> 0] /\ Reborn(s) \in XctEntry /\ NoEntry \in XctEntry
  BY DEF Reborn, NoEntry, XctEntry, NoLsn

\* An update.
LEMMA AnalysedUpdate ==
  ASSUME NEW L \in Seq(LogRec), NEW i \in 1 .. Len(L), NEW a \in Analysing, L[i] \in Update
  PROVE  LET b == Analysed(a, L, i) IN
         /\ b \in Analysing /\ b.ended = a.ended
         /\ \A p \in Page : b.dpt[p] = PageAfter(a.dpt[p], L[i], i, p, a.ended)
         /\ \A x \in Xct : b.xt[x] = XctAfter(a.xt[x], L[i], i, x, a.ended)
<1>. DEFINE r == L[i]
<1>1. r \in LogRec /\ r.x \in Xct /\ r.page \in Page
  BY Kinds
<1>2. IsUpdate(r) /\ r.k \in {"put", "cut"}
  BY DEF Update, IsUpdate
<1>3. Analysed(a, L, i) = [a EXCEPT !.xt[r.x] = Heard(@, r, i), !.dpt[r.page] = IF @ = NoLsn THEN i ELSE @]
  BY <1>2 DEF Analysed
<1>4. Heard(a.xt[r.x], r, i) \in XctEntry
  BY <1>1, HeardType DEF Analysing
<1>. HIDE DEF r
<1>5. r \in Update
  BY DEF r
<1>6. PICK h \in XctEntry : h = Heard(a.xt[r.x], r, i)
  BY <1>4
<1>7. Analysed(a, L, i) = [dpt |-> [a.dpt EXCEPT ![r.page] = IF @ = NoLsn THEN i ELSE @],
                           xt |-> [a.xt EXCEPT ![r.x] = h], ended |-> a.ended]
  BY <1>3, <1>6 DEF Analysing
<1>8. [a.xt EXCEPT ![r.x] = h] \in [Xct -> XctEntry]
  BY <1>6 DEF Analysing
<1>9. [a.dpt EXCEPT ![r.page] = IF @ = NoLsn THEN i ELSE @] \in [Page -> Nat]
  BY <1>1 DEF Analysing
<1>10. Analysed(a, L, i) \in Analysing /\ Analysed(a, L, i).ended = a.ended
  BY <1>7, <1>8, <1>9 DEF Analysing
<1>11. ASSUME NEW p \in Page
       PROVE  Analysed(a, L, i).dpt[p] = PageAfter(a.dpt[p], r, i, p, a.ended)
  <2>1. r \notin PageTab
    BY <1>5 DEF Update, PageTab
  <2>. QED
    BY <2>1, <1>7, <1>5, <1>1 DEF PageAfter, Analysing, NoLsn
<1>12. ASSUME NEW x \in Xct
       PROVE  Analysed(a, L, i).xt[x] = XctAfter(a.xt[x], r, i, x, a.ended)
  <2>1. r \notin XctTab
    BY <1>5 DEF Update, XctTab
  <2>. QED
    BY <2>1, <1>7, <1>5, <1>2, <1>6 DEF XctAfter, Analysing, r
<1>. QED
  BY <1>10, <1>11, <1>12 DEF r

\* A mark of a transaction: compensation without a page, freeing, end.
LEMMA AnalysedMark ==
  ASSUME NEW L \in Seq(LogRec), NEW i \in 1 .. Len(L), NEW a \in Analysing, L[i] \in Mark
  PROVE  LET b == Analysed(a, L, i) IN
         /\ b \in Analysing /\ b.ended = a.ended
         /\ \A p \in Page : b.dpt[p] = PageAfter(a.dpt[p], L[i], i, p, a.ended)
         /\ \A x \in Xct : b.xt[x] = XctAfter(a.xt[x], L[i], i, x, a.ended)
<1>. DEFINE r == L[i]
            e == IF r.k = "end" THEN NoEntry ELSE Heard(a.xt[r.x], r, i)
<1>1. r \in LogRec /\ r.x \in Xct
  BY Kinds
<1>2. ~IsUpdate(r) /\ r.k \in {"comp", "free", "end"} /\ r \notin Update
  BY DEF Mark, Update, IsUpdate
<1>3. Analysed(a, L, i) = [a EXCEPT !.xt[r.x] = e]
  BY <1>2 DEF Analysed
<1>4. Heard(a.xt[r.x], r, i) \in XctEntry /\ NoEntry \in XctEntry
  BY <1>1, HeardType, RebornIs DEF Analysing
<1>5. e \in XctEntry
  BY <1>4
<1>. HIDE DEF r
<1>6. r \in Mark
  BY DEF r
<1>7. PICK h \in XctEntry : h = e
  BY <1>5
<1>8. Analysed(a, L, i) = [dpt |-> a.dpt, xt |-> [a.xt EXCEPT ![r.x] = h], ended |-> a.ended]
  <2>. HIDE DEF e
  <2>. QED
    BY <1>3, <1>7 DEF Analysing
<1>9. [a.xt EXCEPT ![r.x] = h] \in [Xct -> XctEntry]
  BY <1>7 DEF Analysing
<1>10. Analysed(a, L, i) \in Analysing /\ Analysed(a, L, i).ended = a.ended
  BY <1>8, <1>9 DEF Analysing
<1>11. ASSUME NEW p \in Page
       PROVE  Analysed(a, L, i).dpt[p] = PageAfter(a.dpt[p], r, i, p, a.ended)
  <2>1. r \notin PageTab /\ r \notin Update
    BY <1>6, <1>2 DEF Mark, PageTab
  <2>. QED
    BY <2>1, <1>8 DEF PageAfter
<1>12. ASSUME NEW x \in Xct
       PROVE  Analysed(a, L, i).xt[x] = XctAfter(a.xt[x], r, i, x, a.ended)
  <2>1. r \notin XctTab
    BY <1>6 DEF Mark, XctTab
  <2>2. CASE r.x = x
    BY <2>2, <2>1, <1>8, <1>6, <1>7 DEF XctAfter, Analysing
  <2>3. CASE r.x # x
    BY <2>3, <2>1, <1>8, <1>6, <1>7 DEF XctAfter, Analysing
  <2>. QED
    BY <2>2, <2>3
<1>. QED
  BY <1>10, <1>11, <1>12 DEF r

\* A record of a checkpoint.
LEMMA AnalysedOther ==
  ASSUME NEW L \in Seq(LogRec), NEW i \in 1 .. Len(L), NEW a \in Analysing,
         L[i] \in Bound \union PageTab \union XctTab
  PROVE  LET b == Analysed(a, L, i) IN
         /\ b \in Analysing /\ b.ended = (a.ended \/ L[i].k = "cend")
         /\ \A p \in Page : b.dpt[p] = PageAfter(a.dpt[p], L[i], i, p, a.ended)
         /\ \A x \in Xct : b.xt[x] = XctAfter(a.xt[x], L[i], i, x, a.ended)
<1>. DEFINE r == L[i]
<1>1. r \in LogRec
  BY DEF LogRec
<1>2. ~IsUpdate(r) /\ r.k \notin {"comp", "free", "end"} /\ r \notin Update /\ r \notin Mark
  BY <1>1 DEF Bound, PageTab, XctTab, Update, Mark, IsUpdate
<1>. HIDE DEF r
<1>3. a = [dpt |-> a.dpt, xt |-> a.xt, ended |-> a.ended] /\ a.dpt \in [Page -> Nat]
      /\ a.xt \in [Xct -> XctEntry] /\ a.ended \in BOOLEAN
  BY DEF Analysing
<1>4. CASE r.k = "bftab" /\ ~a.ended
  <2>1. r \in PageTab /\ r.tab \in [Page -> Nat] /\ r \notin XctTab
    BY <1>4, <1>1, Kinds DEF PageTab, XctTab
  <2>2. Analysed(a, L, i) = [a EXCEPT !.dpt = [p \in Page |-> IF r.tab[p] # NoLsn THEN r.tab[p] ELSE @[p]]]
    BY <1>2, <1>4 DEF Analysed, r
  <2>3. Analysed(a, L, i) = [dpt |-> [p \in Page |-> IF r.tab[p] # NoLsn THEN r.tab[p] ELSE a.dpt[p]],
                             xt |-> a.xt, ended |-> a.ended]
    BY <2>2, <1>3
  <2>. QED
    BY <2>1, <2>3, <1>2, <1>3, <1>4 DEF r, Analysing, PageAfter, XctAfter, NoLsn
<1>5. CASE r.k = "xtab" /\ ~a.ended
  <2>1. r \in XctTab /\ r \notin PageTab
    BY <1>5, <1>1, Kinds DEF PageTab, XctTab
  <2>2. \A x \in Xct : r.tab[x] \in {"none", "active", "committing", "freeing"}
    BY <2>1 DEF XctTab
  <2>3. \A x \in Xct : Reborn(r.tab[x]) \in XctEntry
    BY <2>2, RebornIs
  <2>4. Analysed(a, L, i) = [a EXCEPT !.xt = [x \in Xct |->
           IF @[x].st = "none" /\ r.tab[x] # "none" THEN Reborn(r.tab[x]) ELSE @[x]]]
    BY <1>2, <1>5 DEF Analysed, r
  <2>5. Analysed(a, L, i) = [dpt |-> a.dpt, ended |-> a.ended, xt |-> [x \in Xct |->
           IF a.xt[x].st = "none" /\ r.tab[x] # "none" THEN Reborn(r.tab[x]) ELSE a.xt[x]]]
    BY <2>4, <1>3
  <2>6. [x \in Xct |-> IF a.xt[x].st = "none" /\ r.tab[x] # "none" THEN Reborn(r.tab[x]) ELSE a.xt[x]]
          \in [Xct -> XctEntry]
    BY <2>3, <1>3
  <2>7. Analysed(a, L, i) \in Analysing /\ Analysed(a, L, i).ended = a.ended
    BY <2>5, <2>6, <1>3 DEF Analysing
  <2>. QED
    BY <2>1, <2>5, <2>7, <1>2, <1>3, <1>5 DEF r, PageAfter, XctAfter
<1>6. CASE r.k = "cend"
  <2>1. r \notin PageTab /\ r \notin XctTab
    BY <1>6, <1>1, Kinds
  <2>2. Analysed(a, L, i) = [dpt |-> a.dpt, xt |-> a.xt, ended |-> TRUE]
    BY <1>2, <1>6, <1>3 DEF Analysed, r
  <2>3. Analysed(a, L, i) \in Analysing /\ Analysed(a, L, i).ended = TRUE
    BY <2>2, <1>3 DEF Analysing
  <2>4. \A p \in Page : PageAfter(a.dpt[p], r, i, p, a.ended) = a.dpt[p]
    BY <2>1, <1>2 DEF PageAfter
  <2>5. \A x \in Xct : XctAfter(a.xt[x], r, i, x, a.ended) = a.xt[x]
    BY <2>1, <1>2 DEF XctAfter
  <2>6. Analysed(a, L, i).dpt = a.dpt /\ Analysed(a, L, i).xt = a.xt
    BY <2>2
  <2>. QED
    BY <2>3, <2>4, <2>5, <2>6, <1>6 DEF r
<1>7. CASE r.k # "cend" /\ ~(r.k \in {"bftab", "xtab"} /\ ~a.ended)
  <2>1. Analysed(a, L, i) = a
    BY <1>2, <1>7 DEF Analysed, r
  <2>2. (r \in PageTab => r.k = "bftab") /\ (r \in XctTab => r.k = "xtab")
    BY <1>1, Kinds
  <2>. QED
    BY <2>1, <2>2, <1>2, <1>3, <1>7 DEF r, PageAfter, XctAfter
<1>. QED
  BY <1>4, <1>5, <1>6, <1>7 DEF r

\* One record of the log, whatever it is, seen from a page and from a transaction.
LEMMA AnalysedStep ==
  ASSUME NEW L \in Seq(LogRec), NEW i \in 1 .. Len(L), NEW a \in Analysing
  PROVE  LET b == Analysed(a, L, i) IN
         /\ b \in Analysing /\ b.ended = (a.ended \/ L[i].k = "cend")
         /\ \A p \in Page : b.dpt[p] = PageAfter(a.dpt[p], L[i], i, p, a.ended)
         /\ \A x \in Xct : b.xt[x] = XctAfter(a.xt[x], L[i], i, x, a.ended)
<1>1. L[i] \in LogRec
  OBVIOUS
<1>2. a.ended \in BOOLEAN
  BY DEF Analysing
<1>3. CASE L[i] \in Update
  <2>1. L[i].k # "cend"
    BY <1>3 DEF Update
  <2>. QED
    BY <1>2, <1>3, <2>1, AnalysedUpdate
<1>4. CASE L[i] \in Mark
  <2>1. L[i].k # "cend"
    BY <1>4 DEF Mark
  <2>. QED
    BY <1>2, <1>4, <2>1, AnalysedMark
<1>5. CASE L[i] \in Bound \union PageTab \union XctTab
  BY <1>5, AnalysedOther
<1>. QED
  <2>1. \/ L[i] \in Update \/ L[i] \in Mark \/ L[i] \in Bound \union PageTab \union XctTab
    BY <1>1 DEF LogRec
  <2>. QED
    BY <2>1, <1>3, <1>4, <1>5, Zenon

-----------------------------------------------------------------------------
(***************************************************************************)
(* The analysis pass along the log.                                        *)
(***************************************************************************)
\* r is an update of page p.
Updates(r, p) == r \in Update /\ r.page = p

\* The analysis pass starts with empty tables,
LEMMA FreshScanType ==
  /\ FreshScan \in Analysing /\ FreshScan.ended = FALSE
  /\ \A p \in Page : FreshScan.dpt[p] = 0
  /\ \A x \in Xct : FreshScan.xt[x] = NoEntry
  BY RebornIs DEF FreshScan, Analysing, NoLsn

\* and has tables at every record.
LEMMA ScanType ==
  ASSUME NEW L \in Seq(LogRec), NEW m \in Nat, m <= Len(L)
  PROVE  \A i \in m .. Len(L) : Scan(L, m)[i] \in Analysing
<1>. DEFINE f == Scan(L, m)
            T == {i \in m .. Len(L) : f[i] \in Analysing}
<1>1. m \in T
  BY ScanIs, FreshScanType
<1>2. ASSUME NEW i \in m + 1 .. Len(L), i - 1 \in T
      PROVE  i \in T
  <2>1. f[i] = Analysed(f[i - 1], L, i)
    BY ScanIs
  <2>2. f[i - 1] \in Analysing /\ i \in 1 .. Len(L)
    BY <1>2
  <2>. HIDE DEF f
  <2>. QED
    BY <2>1, <2>2, AnalysedStep
<1>. HIDE DEF f, T
<1>3. \A i \in m .. Len(L) : i \in T
  <2>1. Len(L) \in Nat
    OBVIOUS
  <2>. QED
    BY <1>1, <1>2, <2>1, Along
<1>. QED
  BY <1>3 DEF f, T

\* What it has at i follows from what it had at i - 1.
LEMMA ScanStep ==
  ASSUME NEW L \in Seq(LogRec), NEW m \in Nat, m <= Len(L), NEW i \in m + 1 .. Len(L)
  PROVE  LET a == Scan(L, m)[i - 1]  b == Scan(L, m)[i] IN
         /\ a \in Analysing /\ b \in Analysing /\ b.ended = (a.ended \/ L[i].k = "cend")
         /\ \A p \in Page : b.dpt[p] = PageAfter(a.dpt[p], L[i], i, p, a.ended)
         /\ \A x \in Xct : b.xt[x] = XctAfter(a.xt[x], L[i], i, x, a.ended)
<1>. DEFINE a == Scan(L, m)[i - 1]
            b == Scan(L, m)[i]
<1>1. b = Analysed(a, L, i)
  BY ScanIs
<1>2. a \in Analysing /\ i \in 1 .. Len(L)
  BY ScanType
<1>. HIDE DEF a, b
<1>3. /\ a \in Analysing /\ b \in Analysing /\ b.ended = (a.ended \/ L[i].k = "cend")
      /\ \A p \in Page : b.dpt[p] = PageAfter(a.dpt[p], L[i], i, p, a.ended)
      /\ \A x \in Xct : b.xt[x] = XctAfter(a.xt[x], L[i], i, x, a.ended)
  BY <1>1, <1>2, AnalysedStep
<1>. QED
  BY <1>3 DEF a, b

\* A longer log reads the same as far as the shorter one goes.
LEMMA ScanPrefix ==
  ASSUME NEW L \in Seq(LogRec), NEW K \in Seq(LogRec), NEW m \in Nat, m <= Len(L), Len(L) <= Len(K),
         \A i \in 1 .. Len(L) : K[i] = L[i]
  PROVE  \A i \in m .. Len(L) : Scan(K, m)[i] = Scan(L, m)[i]
<1>. DEFINE T == {i \in m .. Len(L) : Scan(K, m)[i] = Scan(L, m)[i]}
<1>0. Len(L) \in Nat /\ Len(K) \in Nat /\ m <= Len(K)
  OBVIOUS
<1>1. m \in T
  BY ScanIs
<1>2. ASSUME NEW i \in m + 1 .. Len(L), i - 1 \in T
      PROVE  i \in T
  <2>1. Scan(L, m)[i] = Analysed(Scan(L, m)[i - 1], L, i)
    BY <1>0, ScanIs
  <2>2. Scan(K, m)[i] = Analysed(Scan(K, m)[i - 1], K, i)
    <3>1. i \in m + 1 .. Len(K)
      BY <1>0
    <3>. QED
      BY <1>0, <3>1, ScanIs
  <2>3. K[i] = L[i] /\ Scan(K, m)[i - 1] = Scan(L, m)[i - 1]
    BY <1>2
  <2>4. \A a : Analysed(a, K, i) = Analysed(a, L, i)
    BY <2>3 DEF Analysed
  <2>5. Scan(K, m)[i] = Scan(L, m)[i]
    BY <2>1, <2>2, <2>3, <2>4, Zenon
  <2>. QED
    BY <2>5
<1>. HIDE DEF T
<1>3. \A i \in m .. Len(L) : i \in T
  BY <1>0, <1>1, <1>2, Along
<1>. QED
  BY <1>3 DEF T

\* Once the master checkpoint has been read to its end, that stays.
LEMMA ScanEnded ==
  ASSUME NEW L \in Seq(LogRec), NEW m \in Nat, m <= Len(L),
         NEW c \in m + 1 .. Len(L), L[c].k = "cend"
  PROVE  \A i \in c .. Len(L) : Scan(L, m)[i].ended = TRUE
<1>. DEFINE f == Scan(L, m)
            T == {i \in c .. Len(L) : f[i].ended = TRUE}
<1>0. Len(L) \in Nat /\ c \in Nat
  OBVIOUS
<1>1. ASSUME NEW i \in m + 1 .. Len(L)
      PROVE  /\ f[i].ended = (f[i - 1].ended \/ L[i].k = "cend")
             /\ f[i].ended \in BOOLEAN
  BY ScanStep DEF Analysing
<1>. HIDE DEF f
<1>2. c \in T
  <2>1. f[c].ended = (f[c - 1].ended \/ L[c].k = "cend")
    BY <1>1
  <2>2. c \in c .. Len(L)
    OBVIOUS
  <2>. QED
    BY <2>1, <2>2
<1>3. ASSUME NEW i \in c + 1 .. Len(L), i - 1 \in T
      PROVE  i \in T
  <2>1. i \in m + 1 .. Len(L) /\ i \in c .. Len(L)
    OBVIOUS
  <2>2. f[i].ended = (f[i - 1].ended \/ L[i].k = "cend")
    BY <1>1, <2>1
  <2>. QED
    BY <1>3, <2>1, <2>2
<1>. HIDE DEF T
<1>4. \A i \in c .. Len(L) : i \in T
  BY <1>0, <1>2, <1>3, Along
<1>. QED
  BY <1>4 DEF T, f

\* From then on, the first update of a page that has no entry makes its entry.
LEMMA ScanOn ==
  ASSUME NEW L \in Seq(LogRec), NEW m \in Nat, m <= Len(L),
         NEW j \in m .. Len(L), NEW p \in Page,
         \A i \in j + 1 .. Len(L) : L[i] \in PageTab /\ ~Scan(L, m)[i - 1].ended => L[i].tab[p] = 0
  PROVE  LET d == Scan(L, m)[j].dpt[p]  e == Scan(L, m)[Len(L)].dpt[p] IN
         /\ d # 0 => e = d
         /\ \A u \in j + 1 .. Len(L) : Updates(L[u], p) => (e # 0 /\ e <= u) \/ d # 0
         /\ d = 0 => e = 0 \/ (e > j /\ e <= Len(L))
<1>. DEFINE f == Scan(L, m)
            d == f[j].dpt[p]
            Ok(i) == /\ d # 0 => f[i].dpt[p] = d
                     /\ \A u \in j + 1 .. i : Updates(L[u], p) => (f[i].dpt[p] # 0 /\ f[i].dpt[p] <= u) \/ d # 0
                     /\ d = 0 => f[i].dpt[p] = 0 \/ f[i].dpt[p] \in j + 1 .. i
            T == {i \in j .. Len(L) : Ok(i)}
<1>0. Len(L) \in Nat /\ j \in Nat
  OBVIOUS
<1>1. j \in T
  OBVIOUS
<1>2. ASSUME NEW i \in j + 1 .. Len(L), i - 1 \in T
      PROVE  i \in T
  <2>1. i \in m + 1 .. Len(L)
    OBVIOUS
  <2>2. f[i].dpt[p] = PageAfter(f[i - 1].dpt[p], L[i], i, p, f[i - 1].ended)
    BY <2>1, ScanStep
  <2>3. f[i - 1].dpt[p] \in Nat
    BY <2>1, ScanStep DEF Analysing
  <2>. HIDE DEF f
  <2>4. f[i].dpt[p] = IF Updates(L[i], p) /\ f[i - 1].dpt[p] = 0 THEN i ELSE f[i - 1].dpt[p]
    BY <2>2 DEF PageAfter, Updates, f
  <2>5. Ok(i - 1)
    BY <1>2
  <2>6. Ok(i)
    <3>1. \A u \in j + 1 .. i : u = i \/ u \in j + 1 .. i - 1
      OBVIOUS
    <3>. DEFINE v == f[i - 1].dpt[p]
                w == f[i].dpt[p]
                z == f[j].dpt[p]
    <3>2. v \in Nat /\ w = IF Updates(L[i], p) /\ v = 0 THEN i ELSE v
      BY <2>3, <2>4
    <3>3. /\ z # 0 => v = z
          /\ \A u \in j + 1 .. i - 1 : Updates(L[u], p) => (v # 0 /\ v <= u) \/ z # 0
          /\ z = 0 => v = 0 \/ v \in j + 1 .. i - 1
      BY <2>5
    <3>4. i > j /\ i # 0
      OBVIOUS
    <3>. HIDE DEF v, w, z
    <3>5. z # 0 => w = z
      BY <3>2, <3>3
    <3>6. z = 0 => w = 0 \/ w \in j + 1 .. i
      BY <3>2, <3>3, <3>4
    <3>7. ASSUME NEW u \in j + 1 .. i, Updates(L[u], p), z = 0
          PROVE  w # 0 /\ w <= u
      <4>1. CASE u = i
        <5>1. v <= i
          BY <3>3, <3>4, <3>7
        <5>. QED
          BY <4>1, <3>2, <3>4, <3>7, <5>1
      <4>2. CASE u # i
        BY <4>2, <3>1, <3>2, <3>3, <3>7
      <4>. QED
        BY <4>1, <4>2
    <3>. QED
      BY <3>5, <3>6, <3>7 DEF v, w, z
  <2>. QED
    BY <2>6
<1>. HIDE DEF T
<1>3. \A i \in j .. Len(L) : i \in T
  BY <1>0, <1>1, <1>2, Along
<1>. QED
  BY <1>3 DEF T

DptOf(L, m) == Analysis(L, m).dpt

\* The dirty page table of a restart names lsns of the log.
LEMMA DptIs ==
  ASSUME NEW L \in Seq(LogRec), NEW m \in Nat, m <= Len(L)
  PROVE  DptOf(L, m) = Scan(L, m)[Len(L)].dpt /\ DptOf(L, m) \in [Page -> Nat]
<1>. DEFINE a == Scan(L, m)[Len(L)]
<1>1. a \in Analysing
  BY ScanType
<1>2. Analysis(L, m) = [a EXCEPT !.xt = [x \in Xct |-> IF @[x].st = "freeing" THEN NoEntry ELSE @[x]]]
  BY AnalysisIs
<1>. HIDE DEF a
<1>. QED
  BY <1>1, <1>2 DEF Analysing, DptOf, a

\* What more of the log, past the end of the master checkpoint, does to the dirty page table.
LEMMA DptGrows ==
  ASSUME NEW L \in Seq(LogRec), NEW K \in Seq(LogRec), NEW m \in Nat, m <= Len(L), Len(L) <= Len(K),
         \A i \in 1 .. Len(L) : K[i] = L[i],
         NEW c \in m + 1 .. Len(L), L[c].k = "cend", NEW p \in Page
  PROVE  LET d == DptOf(L, m)[p]  e == DptOf(K, m)[p] IN
         /\ d # 0 => e = d
         /\ \A u \in Len(L) + 1 .. Len(K) : Updates(K[u], p) => (e # 0 /\ e <= u) \/ d # 0
         /\ d = 0 => e = 0 \/ (e > Len(L) /\ e <= Len(K))
<1>0. Len(L) \in m .. Len(L) /\ Len(L) \in Nat /\ Len(K) \in Nat /\ m <= Len(K)
  OBVIOUS
<1>1. /\ DptOf(L, m) = Scan(K, m)[Len(L)].dpt
      /\ DptOf(K, m) = Scan(K, m)[Len(K)].dpt
  <2>1. Scan(K, m)[Len(L)] = Scan(L, m)[Len(L)]
    BY <1>0, ScanPrefix
  <2>. QED
    BY <1>0, <2>1, DptIs
<1>2. \A i \in Len(L) .. Len(K) : Scan(K, m)[i].ended = TRUE
  <2>1. K[c].k = "cend" /\ c \in m + 1 .. Len(K)
    BY <1>0
  <2>2. \A i \in c .. Len(K) : Scan(K, m)[i].ended = TRUE
    BY <1>0, <2>1, ScanEnded
  <2>. QED
    BY <1>0, <2>2
<1>3. \A i \in Len(L) + 1 .. Len(K) : Scan(K, m)[i - 1].ended = TRUE
  BY <1>2
<1>4. Len(L) \in m .. Len(K)
  BY <1>0
<1>5. LET d == Scan(K, m)[Len(L)].dpt[p]  e == Scan(K, m)[Len(K)].dpt[p] IN
      /\ d # 0 => e = d
      /\ \A u \in Len(L) + 1 .. Len(K) : Updates(K[u], p) => (e # 0 /\ e <= u) \/ d # 0
      /\ d = 0 => e = 0 \/ (e > Len(L) /\ e <= Len(K))
  BY <1>0, <1>3, <1>4, ScanOn
<1>. QED
  BY <1>1, <1>5

\* The entry of p in the dirty page table of a restart is t, or comes from the log past m.
FromTab(L, m, p, t) ==
  LET d == DptOf(L, m)[p] IN
  /\ t # 0 => d = t
  /\ t = 0 => /\ \A u \in m + 1 .. Len(L) : Updates(L[u], p) => d # 0 /\ d <= u
              /\ d = 0 \/ (d > m /\ d <= Len(L))

\* What restart makes of a checkpoint that is complete at c.
LEMMA DptOfCheckpoint ==
  ASSUME NEW L \in Seq(LogRec), NEW m \in Nat, m <= Len(L), NEW tab \in [Page -> Nat],
         NEW c \in m + 1 .. Len(L), L[c].k = "cend",
         \A i \in m + 1 .. c - 1 : L[i].k # "cend",
         \A i \in m + 1 .. c : L[i] \in PageTab => L[i].tab = tab,
         (\E p \in Page : tab[p] # 0) => \E b \in m + 1 .. c - 1 : L[b] \in PageTab,
         NEW p \in Page
  PROVE  FromTab(L, m, p, tab[p])
<1>. USE DEF FromTab
<1>. DEFINE f == Scan(L, m)
<1>1. \A i \in c .. Len(L) : f[i].ended = TRUE
  BY ScanEnded
<1>2. DptOf(L, m) = f[Len(L)].dpt
  BY DptIs
<1>3. f[m].dpt[p] = 0 /\ f[m].ended = FALSE
  BY ScanIs, FreshScanType
<1>4. ASSUME NEW i \in m + 1 .. Len(L), L[i] \in PageTab, ~f[i - 1].ended
      PROVE  L[i].tab = tab
  <2>1. ~(i - 1 \in c .. Len(L))
    BY <1>1, <1>4
  <2>2. i \in m + 1 .. c
    BY <2>1
  <2>. QED
    BY <2>2, <1>4
<1>5. CASE tab[p] = 0
  <2>1. \A i \in m + 1 .. Len(L) : L[i] \in PageTab /\ ~f[i - 1].ended => L[i].tab[p] = 0
    BY <1>4, <1>5
  <2>2. m \in m .. Len(L)
    OBVIOUS
  <2>. QED
    BY <2>1, <2>2, <1>2, <1>3, <1>5, ScanOn
<1>6. CASE tab[p] # 0
  <2>1. PICK b \in m + 1 .. c - 1 : L[b] \in PageTab
    BY <1>6
  <2>2. b \in m + 1 .. Len(L) /\ L[b].tab = tab
    BY <2>1
  <2>. DEFINE E == {i \in m .. c - 1 : f[i].ended = FALSE}
              T == {i \in b .. Len(L) : f[i].dpt[p] = tab[p]}
  <2>3. m \in E
    BY <1>3
  <2>4. ASSUME NEW i \in m + 1 .. c - 1, i - 1 \in E
        PROVE  i \in E
    <3>1. i \in m + 1 .. Len(L)
      OBVIOUS
    <3>2. f[i].ended = (f[i - 1].ended \/ L[i].k = "cend")
      BY <3>1, ScanStep
    <3>3. f[i - 1].ended = FALSE /\ L[i].k # "cend" /\ i \in m .. c - 1
      BY <2>4
    <3>. HIDE DEF f
    <3>. QED
      BY <3>2, <3>3
  <2>5. \A i \in m .. c - 1 : i \in E
    <3>. HIDE DEF E
    <3>1. c - 1 \in Nat
      OBVIOUS
    <3>. QED
      BY <3>1, <2>3, <2>4, Along
  <2>6. f[b - 1].ended = FALSE
    <3>1. b - 1 \in m .. c - 1
      OBVIOUS
    <3>. QED
      BY <3>1, <2>5
  <2>7. L[b] \notin Update
    BY <2>1 DEF Update, PageTab
  <2>8. b \in T
    <3>1. f[b].dpt[p] = PageAfter(f[b - 1].dpt[p], L[b], b, p, f[b - 1].ended)
      BY <2>2, ScanStep
    <3>. QED
      BY <3>1, <2>1, <2>2, <2>6, <2>7, <1>6 DEF PageAfter
  <2>9. ASSUME NEW i \in b + 1 .. Len(L), i - 1 \in T
        PROVE  i \in T
    <3>1. i \in m + 1 .. Len(L)
      OBVIOUS
    <3>2. f[i].dpt[p] = PageAfter(f[i - 1].dpt[p], L[i], i, p, f[i - 1].ended)
      BY <3>1, ScanStep
    <3>3. f[i - 1].dpt[p] = tab[p]
      BY <2>9
    <3>4. f[i].dpt[p] = tab[p]
      BY <3>1, <3>2, <3>3, <1>4, <1>6 DEF PageAfter
    <3>. QED
      BY <3>4
  <2>10. Len(L) \in T
    <3>1. b \in Nat /\ Len(L) \in Nat /\ Len(L) \in b .. Len(L)
      OBVIOUS
    <3>. HIDE DEF T
    <3>. QED
      BY <3>1, <2>8, <2>9, Along
  <2>. QED
    BY <2>10, <1>2, <1>6
<1>. QED
  BY <1>5, <1>6

-----------------------------------------------------------------------------
(***************************************************************************)
(* Types.                                                                  *)
(***************************************************************************)
\* What the log, the disk and the tables are to begin with.
LEMMA Starts ==
  /\ Idle \in Thread /\ Idle.at = "idle" /\ Idle.back = 0 /\ Idle.next = 0
  /\ NewXct \in Entry /\ NewXct.first = 0 /\ NewXct.last = 0 /\ NewXct.undo = 0
  /\ Absent \in Frame /\ ~Absent.in /\ Absent.rec = 0 /\ Absent.old = 0 /\ ~Absent.dirty /\ Absent.lsn = 0
  /\ CleanPage \in OnVolume /\ CleanPage.lsn = 0
  /\ NoChkpt \in Chkpt /\ NoChkpt.at = "off" /\ NoChkpt.todo = {}
<1>1. Idle \in Thread
  <2>1. Idle = [at |-> "idle", page |-> Idle.page, kind |-> "put", item |-> [xct |-> NoXct, no |-> 0],
                back |-> 0, next |-> 0, save |-> 0]
    BY DEF Idle, NoLsn
  <2>2. [xct |-> NoXct, no |-> 0] \in Item
    BY DEF Item
  <2>. QED
    BY <2>1, <2>2 DEF Thread, Where
<1>2. Idle.at = "idle" /\ Idle.back = 0 /\ Idle.next = 0
  BY DEF Idle, NoLsn
<1>3. NewXct \in Entry /\ NewXct.first = 0 /\ NewXct.last = 0 /\ NewXct.undo = 0
  BY DEF NewXct, NoLsn, Entry, State
<1>4. Absent \in Frame /\ ~Absent.in /\ Absent.rec = 0 /\ Absent.old = 0 /\ ~Absent.dirty /\ Absent.lsn = 0
  BY DEF Absent, Frame, NoLsn
<1>5. CleanPage \in OnVolume /\ CleanPage.lsn = 0
  BY DEF CleanPage, OnVolume, NoLsn
<1>6. NoChkpt \in Chkpt /\ NoChkpt.at = "off" /\ NoChkpt.todo = {}
  BY DEF NoChkpt, Chkpt, NoLsn
<1>. QED
  BY <1>1, <1>2, <1>3, <1>4, <1>5, <1>6

\* The fields of a page that is in a frame, and of one on disk.
LEMMA FrameFields ==
  ASSUME NEW f \in [Page -> Frame], NEW p \in Page
  PROVE  /\ f[p] \in Frame /\ f[p].lsn \in Nat /\ f[p].rec \in Nat /\ f[p].old \in Nat
         /\ f[p].in \in BOOLEAN /\ f[p].dirty \in BOOLEAN
<1>1. f[p] \in Frame
  OBVIOUS
<1>. QED
  BY <1>1 DEF Frame

LEMMA DiskFields ==
  ASSUME NEW d \in [Page -> OnVolume], NEW p \in Page
  PROVE  d[p] \in OnVolume /\ d[p].lsn \in Nat
<1>1. d[p] \in OnVolume
  OBVIOUS
<1>. QED
  BY <1>1 DEF OnVolume

\* The log that a system starts with is a complete checkpoint.
LEMMA FirstLogIs ==
  /\ FirstLog \in Seq(LogRec) /\ Len(FirstLog) = 3
  /\ FirstLog[1].k = "begin" /\ FirstLog[2].k = "xtab" /\ FirstLog[3].k = "cend"
<1>1. [k |-> "begin"] \in LogRec /\ [k |-> "cend"] \in LogRec
  BY DEF LogRec, Bound
<1>2. [k |-> "xtab", tab |-> [x \in Xct |-> "none"]] \in LogRec
  BY DEF LogRec, XctTab
<1>. QED
  BY <1>1, <1>2 DEF FirstLog

\* A record more in the log.
LEMMA OneMore ==
  ASSUME TypeOK, NEW r \in LogRec, NEW x, Logs(x, r)
  PROVE  /\ log' = Append(log, r) /\ log' \in Seq(LogRec)
         /\ Len(log') = Len(log) + 1 /\ log'[Len(log) + 1] = r
         /\ \A i \in 1 .. Len(log) : log'[i] = log[i]
  BY DEF TypeOK, Logs

\* The records that a transaction logs.
LEMMA XctRecs ==
  ASSUME NEW x \in Xct, NEW n \in Nat, NEW b \in BOOLEAN, NEW k \in {"comp", "free", "end"}
  PROVE  [k |-> k, x |-> x, prev |-> n, clr |-> b] \in Mark
  BY DEF Mark

\* A read of a page finds its frame, or what is on disk, clean.
LEMMA ReadType ==
  ASSUME TypeOK, NEW p \in Page
  PROVE  /\ Read(p) \in Frame /\ Read(p).in
         /\ frame[p].in => Read(p) = frame[p]
         /\ ~frame[p].in => Read(p).lsn = disk[p].lsn /\ Read(p).rec = 0 /\ Read(p).old = 0 /\ ~Read(p).dirty
  BY DEF TypeOK, Read, Absent, Frame, OnVolume, NoLsn

\* An update puts an item on a page or takes it off.
LEMMA EffectType ==
  ASSUME NEW r \in Update, NEW has \in SUBSET Item
  PROVE  Effect(r, has) \in SUBSET Item
  BY DEF Effect, Update

\* A transaction remembers its first lsn, and takes the others from each record.
LEMMA TrackedType ==
  ASSUME NEW e \in Entry, NEW a \in Nat, NEW b \in Nat
  PROVE  Tracked(e, a, b) = [st |-> e.st, first |-> IF e.first = 0 THEN a ELSE e.first, last |-> a, undo |-> b]
         /\ Tracked(e, a, b) \in Entry
<1>1. e = [st |-> e.st, first |-> e.first, last |-> e.last, undo |-> e.undo]
  BY DEF Entry
<1>2. Tracked(e, a, b) = [st |-> e.st, first |-> IF e.first = 0 THEN a ELSE e.first, last |-> a, undo |-> b]
  <2>1. Tracked(e, a, b) = [e EXCEPT !.first = IF e.first = 0 THEN a ELSE e.first, !.last = a, !.undo = b]
    BY DEF Tracked, NoLsn
  <2>. QED
    BY <1>1, <2>1
<1>. QED
  BY <1>2 DEF Entry

\* Fixing a page EX keeps the types of the pages.
LEMMA FixEXType ==
  ASSUME TypeOK, NEW x \in Xct, NEW p \in Page, FixEX(x, p)
  PROVE  latch' \in [Page -> Xct \union {NoXct}] /\ frame' \in [Page -> Frame]
<1>1. CurrLsn \in Nat
  BY DEF TypeOK, CurrLsn
<1>2. UpdateRecLsn(Read(p)) \in Frame
  BY <1>1, ReadType DEF UpdateRecLsn, Frame
<1>. QED
  BY <1>2 DEF FixEX, TypeOK

\* The types of what transactions have.
XctTypes == xct \in [Xct -> Entry] /\ thread \in [Xct -> Thread]
            /\ hist \in History /\ \A x \in Xct : IsFiniteSet(hist.wrote[x])

\* The steps of a transaction that neither take a page nor log keep the types of what it has.
LEMMA XctQuiet ==
  ASSUME TypeOK, ChainInv, NEW x \in Xct,
         Begin(x) \/ Unfix(x) \/ SkipRecord(x) \/ RolledBack(x) \/ Commit(x) \/ EndUnlogged(x) \/ Synced(x)
  PROVE  XctTypes'
<1>1. xct[x] \in Entry /\ thread[x] \in Thread /\ x \in DOMAIN xct /\ x \in DOMAIN thread
  BY DEF TypeOK
<1>2. Idle \in Thread
  BY Starts
<1>3. CASE Begin(x)
  BY <1>3, <1>1 DEF Begin, TypeOK, XctTypes, Entry, State
<1>4. CASE Unfix(x)
  BY <1>4, <1>1 DEF Unfix, Goes, TypeOK, XctTypes, Thread, Where
<1>5. CASE SkipRecord(x)
  <2>1. thread[x].next # 0
    BY <1>5, <1>1 DEF SkipRecord, Undoing, Thread
  <2>2. log[thread[x].next].prev \in Nat
    <3>1. thread[x].next \in Own(x)
      BY <2>1 DEF ChainInv, Chain, Links
    <3>2. log[thread[x].next] \in LogRec /\ log[thread[x].next] \in Update \union Mark
      BY <3>1 DEF Own, TypeOK
    <3>. QED
      BY <3>2, Kinds
  <2>3. thread' = [thread EXCEPT ![x].next = log[thread[x].next].prev] /\ UNCHANGED <<xct, hist>>
    BY <1>5 DEF SkipRecord
  <2>. QED
    BY <2>2, <2>3, <1>1 DEF TypeOK, XctTypes, Thread
<1>6. CASE RolledBack(x)
  <2>1. \A w \in Where : [Idle EXCEPT !.at = w] \in Thread
    BY <1>2 DEF Thread
  <2>2. \A n \in Nat : [xct[x] EXCEPT !.undo = n] \in Entry
    BY <1>1 DEF Entry
  <2>3. thread[x].next \in Nat
    BY <1>1 DEF Thread
  <2>. QED
    BY <1>6, <2>1, <2>2, <2>3, <1>1 DEF RolledBack, TypeOK, XctTypes, Where
<1>7. CASE Commit(x)
  <2>1. hist'.wrote = hist.wrote /\ hist' \in History
    BY <1>7 DEF Commit, TypeOK, History
  <2>2. xct' \in [Xct -> Entry] /\ thread' \in [Xct -> Thread]
    BY <1>7, <1>1 DEF Commit, Goes, TypeOK, Entry, State, Thread, Where
  <2>. QED
    BY <2>1, <2>2 DEF TypeOK, XctTypes
<1>8. CASE EndUnlogged(x)
  BY <1>8, <1>1 DEF EndUnlogged, Goes, TypeOK, XctTypes, Entry, State, Thread, Where
<1>9. CASE Synced(x)
  <2>1. hist'.wrote = hist.wrote /\ hist' \in History
    BY <1>9 DEF Synced, TypeOK, History
  <2>. QED
    BY <1>9, <2>1, <1>1 DEF Synced, Goes, TypeOK, XctTypes, Thread, Where
<1>. QED
  BY <1>3, <1>4, <1>5, <1>6, <1>7, <1>8, <1>9

\* So do those that fix a page, or undo a record,
LEMMA FixTypes ==
  ASSUME TypeOK, ChainInv, NEW x \in Xct, Fix(x) \/ UndoRecord(x)
  PROVE  XctTypes' /\ latch' \in [Page -> Xct \union {NoXct}] /\ frame' \in [Page -> Frame]
<1>1. xct[x] \in Entry /\ thread[x] \in Thread /\ x \in DOMAIN thread
  BY DEF TypeOK
<1>2. Idle \in Thread
  BY Starts
<1>3. CASE Fix(x)
  <2>. DEFINE n == Cardinality(hist.wrote[x]) + 1
              p == load.pages[x][n]
  <2>1. n \in Nat /\ n # 0
    BY FS_CardinalityType DEF TypeOK
  <2>2. FixEX(x, p) /\ n <= Len(load.pages[x]) /\ UNCHANGED <<xct, hist>>
        /\ thread' = [thread EXCEPT ![x] = [Idle EXCEPT !.at = "fixed", !.page = p, !.item = [xct |-> x, no |-> n]]]
    BY <1>3 DEF Fix
  <2>3. load.pages[x] \in Seq(Page)
    BY LoadsAssumption DEF TypeOK
  <2>. HIDE DEF n
  <2>4. p \in Page
    BY <2>1, <2>2, <2>3
  <2>. HIDE DEF p
  <2>5. [xct |-> x, no |-> n] \in Item
    BY <2>1 DEF Item
  <2>6. [Idle EXCEPT !.at = "fixed", !.page = p, !.item = [xct |-> x, no |-> n]] \in Thread
    BY <2>4, <2>5, <1>2 DEF Thread, Where
  <2>. QED
    BY <2>2, <2>4, <2>6, FixEXType DEF TypeOK, XctTypes
<1>4. CASE UndoRecord(x)
  <2>. DEFINE t == thread[x]
              r == log[t.next]
  <2>1. t.next # 0 /\ t.next \in Nat
    BY <1>4, <1>1 DEF UndoRecord, Undoing, Thread
  <2>2. t.next \in Own(x)
    BY <2>1 DEF ChainInv, Chain, Links
  <2>3. r \in LogRec /\ IsUndo(r)
    BY <2>2, <1>4 DEF Own, TypeOK, UndoRecord
  <2>4. r \in Update
    BY <2>3, Kinds DEF IsUndo
  <2>5. FixEX(x, r.page) /\ UNCHANGED <<xct, hist>>
        /\ thread' = [thread EXCEPT ![x] = [t EXCEPT !.at = "fixed", !.page = r.page, !.item = r.item,
                                               !.kind = Opposite(r.k), !.back = t.next]]
    BY <1>4 DEF UndoRecord
  <2>. HIDE DEF r
  <2>6. r.page \in Page /\ r.item \in Item /\ Opposite(r.k) \in {"put", "cut"}
    BY <2>4 DEF Update, Opposite
  <2>7. [t EXCEPT !.at = "fixed", !.page = r.page, !.item = r.item, !.kind = Opposite(r.k), !.back = t.next]
          \in Thread
    BY <2>6, <1>1 DEF Thread, Where
  <2>. HIDE DEF t
  <2>. QED
    BY <2>5, <2>6, <2>7, FixEXType DEF TypeOK, XctTypes
<1>. QED
  BY <1>3, <1>4

\* those that roll back at restart,
LEMMA MaxUndo ==
  ASSUME TypeOK, ChainInv, NEW T \in SUBSET Xct, T # {}
  PROVE  Max({xct[y].undo : y \in T}) \in Nat
<1>1. Len(log) \in Nat
  BY DEF TypeOK
<1>2. \A y \in T : xct[y].undo \in 0 .. Len(log)
  BY <1>1 DEF TypeOK, Entry, ChainInv, Chain, Links, Own
<1>3. {xct[y].undo : y \in T} \in SUBSET (0 .. Len(log)) /\ {xct[y].undo : y \in T} # {}
  BY <1>2
<1>4. Max({xct[y].undo : y \in T}) \in {xct[y].undo : y \in T}
  BY <1>1, <1>3, MaxIs
<1>. QED
  BY <1>3, <1>4

\* which take the one with the greatest undo_nxt first,
LEMMA RollBackTypes ==
  ASSUME TypeOK, ChainInv, NEW x \in Xct, Quits(x) \/ RollBackFirst(x)
  PROVE  XctTypes'
<1>1. xct[x] \in Entry /\ thread[x] \in Thread /\ x \in DOMAIN thread /\ x \in DOMAIN xct
  BY DEF TypeOK
<1>2. ASSUME NEW save \in Nat, RollBackTo(x, save)
      PROVE  thread' \in [Xct -> Thread]
  <2>1. [Idle EXCEPT !.at = "undo", !.next = xct[x].undo, !.save = save] \in Thread
    BY <1>1, Starts DEF Thread, Where, Entry
  <2>. QED
    BY <1>2, <2>1 DEF RollBackTo, TypeOK
<1>3. CASE Quits(x)
  <2>1. RollBackTo(x, NoLsn) /\ xct' = [xct EXCEPT ![x].st = "aborting"]
        /\ hist' = [hist EXCEPT !.quit = @ \union {x}]
    BY <1>3 DEF Quits
  <2>2. thread' \in [Xct -> Thread]
    BY <1>2, <2>1 DEF NoLsn
  <2>3. xct' \in [Xct -> Entry]
    BY <2>1, <1>1 DEF TypeOK, Entry, State
  <2>4. hist' \in History /\ hist'.wrote = hist.wrote
    BY <2>1 DEF TypeOK, History
  <2>. QED
    BY <2>2, <2>3, <2>4 DEF XctTypes, TypeOK
<1>4. CASE RollBackFirst(x)
  <2>1. Losers \ {x} # {} /\ Losers \ {x} \in SUBSET Xct
    BY <1>4 DEF RollBackFirst, Newest, Losers
  <2>2. Max({xct[y].undo : y \in Losers \ {x}}) \in Nat
    BY <2>1, MaxUndo
  <2>3. thread' \in [Xct -> Thread] /\ UNCHANGED <<xct, hist>>
    BY <1>2, <1>4, <2>2 DEF RollBackFirst
  <2>. QED
    BY <2>3 DEF XctTypes, TypeOK
<1>. QED
  BY <1>3, <1>4

\* The record that a transaction's action adds to the log, if it adds one.
LEMMA Records ==
  ASSUME TypeOK, ChainInv, LatchInv, NEW x \in Xct
  PROVE  /\ At(x, "fixed") => [k |-> thread[x].kind, x |-> x, page |-> thread[x].page,
              item |-> thread[x].item, prev |-> xct[x].last, clr |-> FALSE] \in Update
         /\ At(x, "comp") => [k |-> "comp", x |-> x, prev |-> log[thread[x].back].prev, clr |-> TRUE] \in Mark
         /\ [k |-> "free", x |-> x, prev |-> xct[x].last, clr |-> FALSE] \in Mark
         /\ [k |-> "end", x |-> x, prev |-> xct[x].last, clr |-> FALSE] \in Mark
         /\ At(x, "comp") => log[thread[x].back].prev \in Nat
<1>1. xct[x] \in Entry /\ thread[x] \in Thread
  BY DEF TypeOK
<1>2. ASSUME At(x, "fixed")
      PROVE  [k |-> thread[x].kind, x |-> x, page |-> thread[x].page,
              item |-> thread[x].item, prev |-> xct[x].last, clr |-> FALSE] \in Update
  <2>1. thread[x].page \in Page
    BY <1>2 DEF LatchInv, At
  <2>. QED
    BY <1>1, <2>1 DEF Update, Thread, Entry
<1>3. At(x, "comp") => log[thread[x].back].prev \in Nat
  BY DEF ChainInv, Chain, Links, Update
<1>. QED
  BY <1>1, <1>2, <1>3 DEF Mark, Entry

\* those that log,
LEMMA LogTypes ==
  ASSUME TypeOK, ChainInv, LatchInv, NEW x \in Xct,
         Insert(x) \/ LogCompensation(x) \/ LogFreeing(x) \/ LogEnd(x)
  PROVE  /\ XctTypes' /\ log' \in Seq(LogRec) /\ Len(log') = Len(log) + 1
         /\ \A i \in 1 .. Len(log) : log'[i] = log[i]
         /\ log'[Len(log) + 1] \in Update \union Mark /\ log'[Len(log) + 1].x = x
         /\ Insert(x) <=> log'[Len(log) + 1] \in Update
<1>1. xct[x] \in Entry /\ thread[x] \in Thread /\ x \in DOMAIN thread /\ x \in DOMAIN xct
  BY DEF TypeOK
<1>2. CurrLsn \in Nat /\ CurrLsn = Len(log) + 1
  BY DEF TypeOK, CurrLsn
<1>3. ASSUME NEW r \in Update \union Mark, Logs(x, r), r.x = x
      PROVE  /\ log' \in Seq(LogRec) /\ Len(log') = Len(log) + 1
             /\ \A i \in 1 .. Len(log) : log'[i] = log[i]
             /\ log'[Len(log) + 1] = r
  BY <1>3, OneMore DEF LogRec
<1>4. \A w \in Where : [thread EXCEPT ![x].at = w] \in [Xct -> Thread]
  BY <1>1 DEF TypeOK, Thread, Where
<1>5. ASSUME NEW a \in Nat, NEW b \in Nat
      PROVE  /\ [xct EXCEPT ![x] = Tracked(xct[x], a, b)] \in [Xct -> Entry]
             /\ \A s \in State : [xct EXCEPT ![x] = [Tracked(xct[x], a, b) EXCEPT !.st = s]] \in [Xct -> Entry]
  <2>1. PICK e \in Entry : e = Tracked(xct[x], a, b)
    BY <1>1, TrackedType
  <2>2. \A s \in State : [e EXCEPT !.st = s] \in Entry
    BY DEF Entry
  <2>. QED
    BY <2>1, <2>2 DEF TypeOK
<1>6. CASE Insert(x)
  <2>. DEFINE r == [k |-> thread[x].kind, x |-> x, page |-> thread[x].page,
                    item |-> thread[x].item, prev |-> xct[x].last, clr |-> FALSE]
              w == <<thread[x].page, thread[x].item>>
  <2>1. Logs(x, r) /\ At(x, "fixed") /\ Goes(x, "logged") /\ xct' = [xct EXCEPT ![x].last = CurrLsn]
    BY <1>6 DEF Insert
  <2>2. r \in Update /\ r.x = x
    BY <2>1, Records
  <2>3. w \in Page \X Item
    BY <2>1, <1>1 DEF LatchInv, At, Thread
  <2>4. hist' = hist \/ hist' = [hist EXCEPT !.wrote[x] = @ \union {w}]
    BY <1>6 DEF Insert
  <2>. HIDE DEF w
  <2>5. hist' \in History /\ \A y \in Xct : hist'.wrote[y] = hist.wrote[y] \/ hist'.wrote[y] = hist.wrote[y] \union {w}
    <3>1. hist \in History
      BY DEF TypeOK
    <3>2. CASE hist' = hist
      BY <3>1, <3>2
    <3>3. CASE hist' = [hist EXCEPT !.wrote[x] = @ \union {w}]
      <4>1. hist.wrote[x] \union {w} \in SUBSET (Page \X Item)
        BY <2>3, <3>1 DEF History
      <4>2. PICK h \in SUBSET (Page \X Item) : h = hist.wrote[x] \union {w}
        BY <4>1
      <4>3. hist' = [hist EXCEPT !.wrote = [hist.wrote EXCEPT ![x] = h]]
        BY <3>3, <4>2
      <4>4. hist.wrote \in [Xct -> SUBSET (Page \X Item)]
        BY <3>1 DEF History
      <4>5. [hist.wrote EXCEPT ![x] = h] \in [Xct -> SUBSET (Page \X Item)]
        BY <4>4
      <4>6. hist' \in History /\ hist'.wrote = [hist.wrote EXCEPT ![x] = h]
        BY <3>1, <4>3, <4>5 DEF History
      <4>. QED
        BY <4>2, <4>4, <4>6
    <3>. QED
      BY <2>4, <3>2, <3>3
  <2>6. \A y \in Xct : IsFiniteSet(hist'.wrote[y])
    <3>1. \A y \in Xct : IsFiniteSet(hist.wrote[y]) /\ IsFiniteSet(hist.wrote[y] \union {w})
      BY FS_AddElement DEF TypeOK
    <3>. QED
      BY <2>5, <3>1
  <2>7. xct' \in [Xct -> Entry]
    BY <2>1, <1>1, <1>2 DEF TypeOK, Entry
  <2>8. XctTypes'
    BY <2>1, <2>5, <2>6, <2>7, <1>4 DEF XctTypes, Goes, Where
  <2>. HIDE DEF r
  <2>9. r \in Update \union Mark /\ r \notin Mark
    BY <2>2 DEF Update, Mark
  <2>. QED
    BY <2>1, <2>2, <2>8, <2>9, <1>3, <1>6
<1>7. CASE LogCompensation(x)
  <2>. DEFINE r == [k |-> "comp", x |-> x, prev |-> log[thread[x].back].prev, clr |-> TRUE]
  <2>1. Logs(x, r) /\ At(x, "comp") /\ Undone(x) /\ hist' = hist
        /\ xct' = [xct EXCEPT ![x] = Tracked(@, CurrLsn, log[thread[x].back].prev)]
    BY <1>7 DEF LogCompensation
  <2>2. r \in Mark /\ r.x = x /\ log[thread[x].back].prev \in Nat
    BY <2>1, Records
  <2>3. r \in Update \union Mark /\ r \notin Update /\ ~Insert(x)
    BY <2>1, <2>2 DEF Update, Mark, Insert, At
  <2>4. xct' \in [Xct -> Entry]
    BY <2>1, <2>2, <1>2, <1>5
  <2>5. thread' \in [Xct -> Thread]
    BY <2>1, <2>2, <1>1 DEF Undone, TypeOK, Thread, Where, NoLsn
  <2>6. XctTypes'
    BY <2>1, <2>4, <2>5 DEF XctTypes, TypeOK
  <2>. HIDE DEF r
  <2>. QED
    BY <2>1, <2>2, <2>3, <2>6, <1>3
<1>8. CASE LogFreeing(x)
  <2>. DEFINE r == [k |-> "free", x |-> x, prev |-> xct[x].last, clr |-> FALSE]
  <2>1. Logs(x, r) /\ At(x, "ask") /\ Goes(x, "sync") /\ hist' = hist
        /\ xct' = [xct EXCEPT ![x] = [Tracked(@, CurrLsn, CurrLsn) EXCEPT !.st = "freeing"]]
    BY <1>8 DEF LogFreeing
  <2>2. r \in Mark /\ r.x = x
    BY Records
  <2>3. r \in Update \union Mark /\ r \notin Update /\ ~Insert(x)
    BY <2>1, <2>2 DEF Update, Mark, Insert, At
  <2>4. xct' \in [Xct -> Entry]
    BY <2>1, <1>2, <1>5 DEF State
  <2>5. XctTypes'
    BY <2>1, <2>4, <1>4 DEF XctTypes, TypeOK, Goes, Where
  <2>. HIDE DEF r
  <2>. QED
    BY <2>1, <2>2, <2>3, <2>5, <1>3
<1>9. CASE LogEnd(x)
  <2>. DEFINE r == [k |-> "end", x |-> x, prev |-> xct[x].last, clr |-> FALSE]
  <2>1. Logs(x, r) /\ At(x, "ending") /\ Goes(x, "done") /\ hist' = hist
        /\ xct' = [xct EXCEPT ![x] = [Tracked(@, CurrLsn, CurrLsn) EXCEPT !.st = "ended"]]
    BY <1>9 DEF LogEnd
  <2>2. r \in Mark /\ r.x = x
    BY Records
  <2>3. r \in Update \union Mark /\ r \notin Update /\ ~Insert(x)
    BY <2>1, <2>2 DEF Update, Mark, Insert, At
  <2>4. xct' \in [Xct -> Entry]
    BY <2>1, <1>2, <1>5 DEF State
  <2>5. XctTypes'
    BY <2>1, <2>4, <1>4 DEF XctTypes, TypeOK, Goes, Where
  <2>. HIDE DEF r
  <2>. QED
    BY <2>1, <2>2, <2>3, <2>5, <1>3
<1>. QED
  BY <1>6, <1>7, <1>8, <1>9

\* those that write a compensation into the record it undoes,
LEMMA CompensateTypes ==
  ASSUME TypeOK, ChainInv, LatchInv, NEW x \in Xct, CompensateInLog(x)
  PROVE  /\ XctTypes' /\ log' \in Seq(LogRec) /\ Len(log') = Len(log)
         /\ xct[x].last \in 1 .. Len(log) /\ log[xct[x].last] \in Update /\ log[xct[x].last].x = x
         /\ log[thread[x].back].prev \in Nat
         /\ \A i \in 1 .. Len(log) : i # xct[x].last => log'[i] = log[i]
         /\ LET l == xct[x].last IN
              log'[l] = [log[l] EXCEPT !.clr = TRUE, !.prev = log[thread[x].back].prev] /\ log'[l] \in Update
<1>1. xct[x] \in Entry /\ thread[x] \in Thread /\ x \in DOMAIN thread
  BY DEF TypeOK
<1>. DEFINE l == xct[x].last
            n == log[thread[x].back].prev
<1>2. At(x, "comp") /\ Undone(x) /\ UNCHANGED <<xct, hist>>
      /\ log' = [log EXCEPT ![l].clr = TRUE, ![l].prev = n]
  BY DEF CompensateInLog
<1>3. l \in Own(x) /\ log[l] \in Update
  <2>1. At(x, "comp") /\ Chain(x)
    BY <1>2 DEF ChainInv
  <2>. QED
    BY <2>1 DEF Chain, At
<1>4. l \in 1 .. Len(log) /\ log[l].x = x
  BY <1>3 DEF Own
<1>5. n \in Nat
  BY <1>2, Records
<1>6. thread' \in [Xct -> Thread]
  BY <1>1, <1>2, <1>5 DEF Undone, TypeOK, Thread, Where, NoLsn
<1>7. XctTypes'
  BY <1>2, <1>6 DEF XctTypes, TypeOK
<1>. HIDE DEF l, n
<1>8. [log[l] EXCEPT !.clr = TRUE, !.prev = n] \in Update
  BY <1>3, <1>5 DEF Update
<1>9. log' = [log EXCEPT ![l] = [log[l] EXCEPT !.clr = TRUE, !.prev = n]]
  BY <1>2
<1>10. log \in Seq(LogRec)
  BY DEF TypeOK
<1>11. PICK r \in Update : r = [log[l] EXCEPT !.clr = TRUE, !.prev = n]
  BY <1>8
<1>12. log' = [log EXCEPT ![l] = r] /\ r \in LogRec
  BY <1>9, <1>11 DEF LogRec
<1>13. log' \in Seq(LogRec) /\ Len(log') = Len(log) /\ log'[l] = r
       /\ \A i \in 1 .. Len(log) : i # l => log'[i] = log[i]
  BY <1>4, <1>10, <1>12
<1>. QED
  BY <1>3, <1>4, <1>5, <1>7, <1>11, <1>13 DEF l, n

\* The marks of an update on its frame.
LEMMA FrameMarked ==
  ASSUME NEW f \in Frame, NEW l \in Nat, NEW h \in SUBSET Item
  PROVE  [f EXCEPT !.lsn = l, !.dirty = TRUE, !.has = h]
           = [in |-> f.in, lsn |-> l, has |-> h, dirty |-> TRUE, rec |-> f.rec, old |-> f.old]
<1>1. f = [in |-> f.in, lsn |-> f.lsn, has |-> f.has, dirty |-> f.dirty, rec |-> f.rec, old |-> f.old]
  BY DEF Frame
<1>. DEFINE g == [f EXCEPT !.lsn = l, !.dirty = TRUE, !.has = h]
<1>2. g.in = f.in /\ g.lsn = l /\ g.has = h /\ g.dirty = TRUE /\ g.rec = f.rec /\ g.old = f.old
  BY <1>1
<1>3. DOMAIN g = {"in", "lsn", "has", "dirty", "rec", "old"}
  BY <1>1
<1>4. g = [k \in DOMAIN g |-> g[k]]
  OBVIOUS
<1>. HIDE DEF g
<1>5. g = [in |-> f.in, lsn |-> l, has |-> h, dirty |-> TRUE, rec |-> f.rec, old |-> f.old]
  BY <1>2, <1>3, <1>4
<1>. QED
  BY <1>5 DEF g

\* and those that mark a page.
LEMMA ApplyTypes ==
  ASSUME TypeOK, ChainInv, LatchInv, PageInv, NEW x \in Xct, Apply(x)
  PROVE  LET p == thread[x].page  l == xct[x].last IN
         /\ XctTypes' /\ frame' \in [Page -> Frame] /\ latch' \in [Page -> Xct \union {NoXct}]
         /\ p \in Page /\ latch[p] = x /\ l \in Own(x) /\ l \in OfPage(p) /\ frame[p].lsn < l
         /\ log[l] \in Update
         /\ latch' = [latch EXCEPT ![p] = NoXct]
         /\ frame'[p].lsn = l /\ frame'[p].dirty /\ frame'[p].in = frame[p].in
         /\ frame'[p].rec = frame[p].rec /\ frame'[p].old = frame[p].old
         /\ \A q \in Page : q # p => frame'[q] = frame[q]
         /\ xct' = [xct EXCEPT ![x] = Tracked(@, l, l)]
<1>1. xct[x] \in Entry /\ thread[x] \in Thread /\ x \in DOMAIN thread
  BY DEF TypeOK
<1>. DEFINE p == thread[x].page
            l == xct[x].last
<1>2. /\ At(x, "logged") /\ UNCHANGED hist
      /\ xct' = [xct EXCEPT ![x] = Tracked(@, l, l)]
      /\ frame' = [frame EXCEPT ![p].lsn = l, ![p].dirty = TRUE, ![p].has = Effect(log[l], @)]
      /\ latch' = [latch EXCEPT ![p] = NoXct]
      /\ Goes(x, "idle") \/ Goes(x, "comp")
  BY DEF Apply
<1>3. p \in Page /\ latch[p] = x
  BY <1>2 DEF LatchInv, At
<1>4. latch[p] # NoXct
  BY <1>3, NoXctAssumption
<1>5. l \in OfPage(p) /\ frame[p].lsn < l
  <2>1. l # 0
    BY <1>2 DEF ChainInv, Chain, At
  <2>. QED
    BY <1>2, <1>3, <1>4, <2>1 DEF PageInv, PageOk, Logged
<1>6. log[l] \in LogRec /\ IsUpdate(log[l]) /\ l \in Nat /\ l # 0
  BY <1>5 DEF OfPage, TypeOK
<1>7. log[l] \in Update
  BY <1>6, Kinds
<1>8. l \in Own(x)
  BY <1>6 DEF ChainInv, Chain, Links
<1>9. frame[p] \in Frame
  BY <1>3 DEF TypeOK
<1>10. Effect(log[l], frame[p].has) \in SUBSET Item
  BY <1>7, <1>9, EffectType DEF Frame
<1>11. thread' \in [Xct -> Thread]
  <2>1. \A w \in Where : [thread EXCEPT ![x].at = w] \in [Xct -> Thread]
    BY <1>1 DEF TypeOK, Thread, Where
  <2>. QED
    BY <1>2, <2>1 DEF Goes, Where
<1>12. Tracked(xct[x], l, l) \in Entry
  BY <1>1, <1>6, TrackedType
<1>13. XctTypes'
  BY <1>2, <1>11, <1>12 DEF XctTypes, TypeOK
<1>. HIDE DEF p, l
<1>14. PICK h \in SUBSET Item : h = Effect(log[l], frame[p].has)
  BY <1>10
<1>15. frame' = [frame EXCEPT ![p] = [frame[p] EXCEPT !.lsn = l, !.dirty = TRUE, !.has = h]]
  BY <1>2, <1>14
<1>16. [frame[p] EXCEPT !.lsn = l, !.dirty = TRUE, !.has = h]
         = [in |-> frame[p].in, lsn |-> l, has |-> h, dirty |-> TRUE, rec |-> frame[p].rec, old |-> frame[p].old]
  BY <1>6, <1>9, FrameMarked
<1>17. [in |-> frame[p].in, lsn |-> l, has |-> h, dirty |-> TRUE, rec |-> frame[p].rec, old |-> frame[p].old]
         \in Frame
  BY <1>9, <1>6 DEF Frame
<1>18. frame' \in [Page -> Frame] /\ latch' \in [Page -> Xct \union {NoXct}]
       /\ \A q \in Page : q # p => frame'[q] = frame[q]
  <2>1. PICK f \in Frame : f = [frame[p] EXCEPT !.lsn = l, !.dirty = TRUE, !.has = h]
    BY <1>16, <1>17
  <2>2. frame' = [frame EXCEPT ![p] = f] /\ latch' = [latch EXCEPT ![p] = NoXct]
    BY <1>2, <1>15, <2>1 DEF p
  <2>. QED
    BY <1>3, <2>1, <2>2 DEF TypeOK
<1>19. frame'[p] = [in |-> frame[p].in, lsn |-> l, has |-> h, dirty |-> TRUE, rec |-> frame[p].rec,
                    old |-> frame[p].old]
  BY <1>3, <1>15, <1>16 DEF TypeOK
<1>20. frame'[p].lsn = l /\ frame'[p].dirty /\ frame'[p].in = frame[p].in
       /\ frame'[p].rec = frame[p].rec /\ frame'[p].old = frame[p].old
  BY <1>19
<1>. QED
  BY <1>2, <1>3, <1>5, <1>7, <1>8, <1>13, <1>18, <1>20 DEF p, l

-----------------------------------------------------------------------------
(***************************************************************************)
(* What the steps do to pages.                                             *)
(***************************************************************************)
\* fix with an EX latch.
LEMMA FixEXIs ==
  ASSUME TypeOK, NEW x \in Xct, NEW p \in Page, FixEX(x, p)
  PROVE  /\ latch[p] = NoXct /\ latch' = [latch EXCEPT ![p] = x]
         /\ frame' \in [Page -> Frame] /\ latch' \in [Page -> Xct \union {NoXct}]
         /\ \A q \in Page : q # p => frame'[q] = frame[q]
         /\ frame'[p].in
         /\ frame'[p].lsn = Lsn(p)
         /\ IF frame[p].in
            THEN /\ frame'[p].dirty = frame[p].dirty /\ frame'[p].old = frame[p].old
                 /\ frame'[p].rec = IF frame[p].rec = 0 THEN Len(log) + 1 ELSE frame[p].rec
            ELSE ~frame'[p].dirty /\ frame'[p].old = 0 /\ frame'[p].rec = Len(log) + 1
<1>1. Read(p) \in Frame /\ CurrLsn = Len(log) + 1 /\ CurrLsn \in Nat
  BY ReadType DEF CurrLsn, TypeOK
<1>2. PICK r \in Frame : r = Read(p)
  BY <1>1
<1>3. PICK c \in Nat : c = CurrLsn
  BY <1>1
<1>4. frame' = [frame EXCEPT ![p] = IF r.rec = 0 THEN [r EXCEPT !.rec = c] ELSE r]
  BY <1>2, <1>3 DEF FixEX, UpdateRecLsn, NoLsn
<1>5. [r EXCEPT !.rec = c] = [in |-> r.in, lsn |-> r.lsn, has |-> r.has, dirty |-> r.dirty, rec |-> c, old |-> r.old]
      /\ [r EXCEPT !.rec = c] \in Frame
  <2>1. r = [in |-> r.in, lsn |-> r.lsn, has |-> r.has, dirty |-> r.dirty, rec |-> r.rec, old |-> r.old]
    BY DEF Frame
  <2>2. [r EXCEPT !.rec = c] = [in |-> r.in, lsn |-> r.lsn, has |-> r.has, dirty |-> r.dirty, rec |-> c, old |-> r.old]
    BY <2>1
  <2>. QED
    BY <2>2 DEF Frame
<1>6. PICK g \in Frame : g = IF r.rec = 0 THEN [r EXCEPT !.rec = c] ELSE r
  BY <1>5
<1>7. g.in = r.in /\ g.lsn = r.lsn /\ g.dirty = r.dirty /\ g.old = r.old /\ g.rec = IF r.rec = 0 THEN c ELSE r.rec
  BY <1>5, <1>6
<1>8. frame' = [frame EXCEPT ![p] = g]
  BY <1>4, <1>6
<1>9. frame' \in [Page -> Frame] /\ frame'[p] = g /\ \A q \in Page : q # p => frame'[q] = frame[q]
  BY <1>8 DEF TypeOK
<1>10. r.in /\ (frame[p].in => r = frame[p])
       /\ (~frame[p].in => r.lsn = disk[p].lsn /\ r.rec = 0 /\ r.old = 0 /\ ~r.dirty)
  BY <1>2, ReadType
<1>11. latch[p] = NoXct /\ latch' = [latch EXCEPT ![p] = x]
  BY DEF FixEX
<1>. QED
  BY <1>1, <1>3, <1>7, <1>9, <1>10, <1>11 DEF Lsn, TypeOK

\* unfix gives up the latch of one page and leaves the other frames alone.
LEMMA UnfixIs ==
  ASSUME TypeOK, LatchInv, NEW x \in Xct, Unfix(x)
  PROVE  LET p == thread[x].page IN
         /\ p \in Page /\ latch[p] = x /\ latch' = [latch EXCEPT ![p] = NoXct]
         /\ frame' \in [Page -> Frame] /\ latch' \in [Page -> Xct \union {NoXct}]
         /\ \A q \in Page : q # p => frame'[q] = frame[q]
         /\ frame'[p].in = frame[p].in /\ frame'[p].lsn = frame[p].lsn
         /\ frame'[p].dirty = frame[p].dirty /\ frame'[p].old = frame[p].old
         /\ frame'[p].rec = IF frame[p].dirty THEN frame[p].rec ELSE 0
<1>. DEFINE p == thread[x].page
<1>1. At(x, "fixed") /\ latch' = [latch EXCEPT ![p] = NoXct]
      /\ frame' = [frame EXCEPT ![p].rec = IF frame[p].dirty THEN @ ELSE NoLsn]
  BY DEF Unfix
<1>2. p \in Page /\ latch[p] = x
  BY <1>1 DEF LatchInv, At
<1>. HIDE DEF p
<1>3. PICK f \in Frame : f = frame[p]
  BY <1>2 DEF TypeOK
<1>4. PICK n \in Nat : n = IF f.dirty THEN f.rec ELSE 0
  BY DEF Frame
<1>5. frame' = [frame EXCEPT ![p] = [f EXCEPT !.rec = n]]
  BY <1>1, <1>3, <1>4 DEF NoLsn
<1>6. [f EXCEPT !.rec = n] = [in |-> f.in, lsn |-> f.lsn, has |-> f.has, dirty |-> f.dirty, rec |-> n, old |-> f.old]
  <2>1. f = [in |-> f.in, lsn |-> f.lsn, has |-> f.has, dirty |-> f.dirty, rec |-> f.rec, old |-> f.old]
    BY DEF Frame
  <2>. QED
    BY <2>1
<1>7. PICK g \in Frame : g = [f EXCEPT !.rec = n]
  BY <1>6 DEF Frame
<1>8. frame' = [frame EXCEPT ![p] = g] /\ g.in = f.in /\ g.lsn = f.lsn /\ g.dirty = f.dirty /\ g.rec = n /\ g.old = f.old
  BY <1>5, <1>6, <1>7
<1>9. frame' \in [Page -> Frame] /\ frame'[p] = g /\ \A q \in Page : q # p => frame'[q] = frame[q]
  BY <1>2, <1>8 DEF TypeOK
<1>. QED
  BY <1>1, <1>2, <1>3, <1>4, <1>8, <1>9 DEF p, TypeOK

\* A cleaner takes a copy of a page under the latch.
LEMMA CopyIs ==
  ASSUME TypeOK, NEW p \in Page, Copy(p)
  PROVE  /\ mode = "up" /\ frame[p].dirty /\ latch[p] = NoXct /\ frame[p].old = 0
         /\ frame' \in [Page -> Frame] /\ copy' \in [Page -> OnVolume]
         /\ \A q \in Page : q # p => frame'[q] = frame[q] /\ copy'[q] = copy[q]
         /\ frame'[p].in = frame[p].in /\ frame'[p].lsn = frame[p].lsn
         /\ ~frame'[p].dirty /\ frame'[p].rec = 0 /\ frame'[p].old = frame[p].rec
         /\ copy'[p].lsn = frame[p].lsn
<1>1. PICK f \in Frame : f = frame[p]
  BY DEF TypeOK
<1>2. /\ mode = "up" /\ frame[p].dirty /\ latch[p] = NoXct /\ frame[p].old = 0
      /\ copy' = [copy EXCEPT ![p] = [lsn |-> f.lsn, has |-> f.has]]
      /\ frame' = [frame EXCEPT ![p] = [[f EXCEPT !.old = f.rec] EXCEPT !.dirty = FALSE, !.rec = 0]]
  BY <1>1 DEF Copy, OnDisk, MarkClean, NoLsn
<1>3. [[f EXCEPT !.old = f.rec] EXCEPT !.dirty = FALSE, !.rec = 0]
        = [in |-> f.in, lsn |-> f.lsn, has |-> f.has, dirty |-> FALSE, rec |-> 0, old |-> f.rec]
  <2>1. f = [in |-> f.in, lsn |-> f.lsn, has |-> f.has, dirty |-> f.dirty, rec |-> f.rec, old |-> f.old]
    BY DEF Frame
  <2>2. [f EXCEPT !.old = f.rec]
          = [in |-> f.in, lsn |-> f.lsn, has |-> f.has, dirty |-> f.dirty, rec |-> f.rec, old |-> f.rec]
    BY <2>1
  <2>. DEFINE g == [[f EXCEPT !.old = f.rec] EXCEPT !.dirty = FALSE, !.rec = 0]
  <2>3. g.in = f.in /\ g.lsn = f.lsn /\ g.has = f.has /\ g.dirty = FALSE /\ g.rec = 0 /\ g.old = f.rec
    BY <2>2
  <2>4. DOMAIN g = {"in", "lsn", "has", "dirty", "rec", "old"} /\ g = [k \in DOMAIN g |-> g[k]]
    BY <2>2
  <2>. HIDE DEF g
  <2>5. g = [in |-> f.in, lsn |-> f.lsn, has |-> f.has, dirty |-> FALSE, rec |-> 0, old |-> f.rec]
    BY <2>3, <2>4
  <2>. QED
    BY <2>5 DEF g
<1>4. PICK g \in Frame : g = [in |-> f.in, lsn |-> f.lsn, has |-> f.has, dirty |-> FALSE, rec |-> 0, old |-> f.rec]
  BY DEF Frame
<1>5. PICK c \in OnVolume : c = [lsn |-> f.lsn, has |-> f.has]
  BY DEF Frame, OnVolume
<1>6. frame' = [frame EXCEPT ![p] = g] /\ copy' = [copy EXCEPT ![p] = c]
  BY <1>2, <1>3, <1>4, <1>5
<1>7. frame' \in [Page -> Frame] /\ copy' \in [Page -> OnVolume] /\ frame'[p] = g /\ copy'[p] = c
      /\ \A q \in Page : q # p => frame'[q] = frame[q] /\ copy'[q] = copy[q]
  BY <1>6 DEF TypeOK
<1>. QED
  BY <1>1, <1>2, <1>4, <1>5, <1>7

\* It writes the copy.
LEMMA WriteCopyIs ==
  ASSUME TypeOK, NEW p \in Page, WriteCopy(p)
  PROVE  /\ frame[p].old # 0 /\ copy[p].lsn <= durable
         /\ frame' \in [Page -> Frame] /\ copy' \in [Page -> OnVolume] /\ disk' \in [Page -> OnVolume]
         /\ \A q \in Page : q # p => frame'[q] = frame[q] /\ copy'[q] = copy[q] /\ disk'[q] = disk[q]
         /\ frame'[p].in = frame[p].in /\ frame'[p].lsn = frame[p].lsn
         /\ frame'[p].dirty = frame[p].dirty /\ frame'[p].rec = frame[p].rec /\ frame'[p].old = 0
         /\ disk'[p].lsn = copy[p].lsn
<1>1. PICK f \in Frame : f = frame[p]
  BY DEF TypeOK
<1>2. /\ frame[p].old # 0 /\ copy[p].lsn <= durable
      /\ disk' = [disk EXCEPT ![p] = copy[p]]
      /\ copy' = [copy EXCEPT ![p] = CleanPage]
      /\ frame' = [frame EXCEPT ![p] = [f EXCEPT !.old = 0]]
  BY <1>1 DEF WriteCopy, NoLsn
<1>3. [f EXCEPT !.old = 0]
        = [in |-> f.in, lsn |-> f.lsn, has |-> f.has, dirty |-> f.dirty, rec |-> f.rec, old |-> 0]
  <2>1. f = [in |-> f.in, lsn |-> f.lsn, has |-> f.has, dirty |-> f.dirty, rec |-> f.rec, old |-> f.old]
    BY DEF Frame
  <2>. QED
    BY <2>1
<1>4. PICK g \in Frame : g = [in |-> f.in, lsn |-> f.lsn, has |-> f.has, dirty |-> f.dirty, rec |-> f.rec, old |-> 0]
  BY DEF Frame
<1>5. frame' = [frame EXCEPT ![p] = g]
  BY <1>2, <1>3, <1>4
<1>6. frame' \in [Page -> Frame] /\ frame'[p] = g /\ \A q \in Page : q # p => frame'[q] = frame[q]
  BY <1>5 DEF TypeOK
<1>7. copy' \in [Page -> OnVolume] /\ disk' \in [Page -> OnVolume] /\ disk'[p] = copy[p]
      /\ \A q \in Page : q # p => copy'[q] = copy[q] /\ disk'[q] = disk[q]
  BY <1>2, Starts DEF TypeOK
<1>. QED
  BY <1>1, <1>2, <1>4, <1>6, <1>7

\* A frame is given to another page.
LEMMA DropIs ==
  ASSUME TypeOK, NEW p \in Page, Drop(p)
  PROVE  /\ frame[p].in /\ latch[p] = NoXct /\ frame[p].old = 0
         /\ frame[p].dirty => frame[p].lsn <= durable
         /\ frame' \in [Page -> Frame] /\ disk' \in [Page -> OnVolume]
         /\ frame'[p] = Absent
         /\ disk'[p].lsn = IF frame[p].dirty THEN frame[p].lsn ELSE disk[p].lsn
         /\ \A q \in Page : q # p => frame'[q] = frame[q] /\ disk'[q] = disk[q]
<1>1. OnDisk(frame[p]) \in OnVolume /\ OnDisk(frame[p]).lsn = frame[p].lsn
  BY DEF TypeOK, Frame, OnVolume, OnDisk
<1>2. PICK d \in OnVolume : d = OnDisk(frame[p]) /\ d.lsn = frame[p].lsn
  BY <1>1
<1>3. /\ frame[p].in /\ latch[p] = NoXct /\ frame[p].old = 0
      /\ frame[p].dirty => frame[p].lsn <= durable
      /\ disk' = IF frame[p].dirty THEN [disk EXCEPT ![p] = d] ELSE disk
      /\ frame' = [frame EXCEPT ![p] = Absent]
  BY <1>2 DEF Drop, NoLsn
<1>. QED
  BY <1>2, <1>3, Starts DEF TypeOK

\* One record of the redo pass.
LEMMA RedoIs ==
  ASSUME TypeOK, RedoRecord, redo # 0
  PROVE  /\ mode = "redo" /\ redo \in Nat /\ redo <= Len(log) /\ redo' = redo + 1
         /\ frame' \in [Page -> Frame] /\ dptab' \in [Page -> Nat]
         /\ ~Wanted(log[redo], redo, dptab) => UNCHANGED <<frame, dptab>>
         /\ Wanted(log[redo], redo, dptab) =>
              LET p == log[redo].page IN
              /\ p \in Page
              /\ \A q \in Page : q # p => frame'[q] = frame[q] /\ dptab'[q] = dptab[q]
              /\ frame'[p].in
              /\ frame'[p].old = IF frame[p].in THEN frame[p].old ELSE 0
              /\ IF Lsn(p) < redo
                 THEN /\ frame'[p].lsn = redo /\ frame'[p].dirty /\ UNCHANGED dptab
                      /\ frame'[p].rec = IF frame[p].in /\ frame[p].dirty THEN frame[p].rec ELSE redo
                 ELSE /\ frame'[p].lsn = Lsn(p) /\ dptab'[p] = Lsn(p) + 1
                      /\ frame'[p].dirty = (frame[p].in /\ frame[p].dirty)
                      /\ frame'[p].rec = IF frame[p].in THEN frame[p].rec ELSE 0
<1>1. mode = "redo" /\ redo \in Nat /\ redo <= Len(log) /\ redo' = redo + 1
  BY DEF RedoRecord, TypeOK
<1>. DEFINE r == log[redo]
            w == Wanted(r, redo, dptab)
<1>2. CASE ~w
  <2>1. UNCHANGED <<frame, dptab>>
    BY <1>2 DEF RedoRecord
  <2>. QED
    BY <1>1, <1>2, <2>1 DEF TypeOK
<1>4. CASE w
  <2>1. r \in Update /\ r.page \in Page
    <3>1. r \in LogRec /\ IsUpdate(r)
      BY <1>1, <1>4 DEF TypeOK, Wanted
    <3>. QED
      BY <3>1, Kinds
  <2>2. PICK p \in Page : p = r.page
    BY <2>1
  <2>3. PICK f \in Frame : f = Read(p)
    BY ReadType
  <2>4. f.in /\ f.lsn = Lsn(p) /\ f.old = (IF frame[p].in THEN frame[p].old ELSE 0)
        /\ f.dirty = (frame[p].in /\ frame[p].dirty) /\ f.rec = (IF frame[p].in THEN frame[p].rec ELSE 0)
    <3>1. f.dirty \in BOOLEAN /\ frame[p].dirty \in BOOLEAN /\ frame[p].in \in BOOLEAN
      BY DEF TypeOK, Frame
    <3>2. CASE frame[p].in
      BY <3>1, <3>2, <2>3, ReadType DEF Lsn
    <3>3. CASE ~frame[p].in
      BY <3>1, <3>3, <2>3, ReadType DEF Lsn
    <3>. QED
      BY <3>2, <3>3
  <2>5. IF f.lsn < redo
        THEN /\ frame' = [frame EXCEPT ![p] = [f EXCEPT !.lsn = redo, !.has = Effect(r, @), !.dirty = TRUE,
                                               !.rec = IF f.dirty THEN @ ELSE redo]]
             /\ UNCHANGED dptab
        ELSE frame' = [frame EXCEPT ![p] = f] /\ dptab' = [dptab EXCEPT ![p] = f.lsn + 1]
    BY <1>4, <2>2, <2>3 DEF RedoRecord
  <2>6. CASE f.lsn < redo
    <3>1. PICK h \in SUBSET Item : h = Effect(r, f.has)
      BY <2>1, EffectType DEF Frame
    <3>2. PICK n \in Nat : n = IF f.dirty THEN f.rec ELSE redo
      BY <1>1 DEF Frame
    <3>3. frame' = [frame EXCEPT ![p] = [f EXCEPT !.lsn = redo, !.has = h, !.dirty = TRUE, !.rec = n]]
      BY <2>5, <2>6, <3>1, <3>2
    <3>4. [f EXCEPT !.lsn = redo, !.has = h, !.dirty = TRUE, !.rec = n]
            = [in |-> f.in, lsn |-> redo, has |-> h, dirty |-> TRUE, rec |-> n, old |-> f.old]
      <4>1. f = [in |-> f.in, lsn |-> f.lsn, has |-> f.has, dirty |-> f.dirty, rec |-> f.rec, old |-> f.old]
        BY DEF Frame
      <4>. DEFINE g == [f EXCEPT !.lsn = redo, !.has = h, !.dirty = TRUE, !.rec = n]
      <4>2. g.in = f.in /\ g.lsn = redo /\ g.has = h /\ g.dirty = TRUE /\ g.rec = n /\ g.old = f.old
        BY <4>1
      <4>3. DOMAIN g = {"in", "lsn", "has", "dirty", "rec", "old"} /\ g = [k \in DOMAIN g |-> g[k]]
        BY <4>1
      <4>. HIDE DEF g
      <4>4. g = [in |-> f.in, lsn |-> redo, has |-> h, dirty |-> TRUE, rec |-> n, old |-> f.old]
        BY <4>2, <4>3
      <4>. QED
        BY <4>4 DEF g
    <3>5. PICK g \in Frame : g = [in |-> f.in, lsn |-> redo, has |-> h, dirty |-> TRUE, rec |-> n, old |-> f.old]
      BY <1>1 DEF Frame
    <3>6. frame' = [frame EXCEPT ![p] = g]
      BY <3>3, <3>4, <3>5
    <3>7. frame' \in [Page -> Frame] /\ frame'[p] = g /\ \A q \in Page : q # p => frame'[q] = frame[q]
      BY <3>6 DEF TypeOK
    <3>8. UNCHANGED dptab /\ Lsn(p) < redo
      BY <2>4, <2>5, <2>6
    <3>9. frame'[p].in /\ frame'[p].old = f.old /\ frame'[p].lsn = redo /\ frame'[p].dirty /\ frame'[p].rec = n
      BY <3>5, <3>7, <2>4
    <3>. QED
      BY <1>1, <1>4, <2>2, <2>4, <3>2, <3>7, <3>8, <3>9 DEF TypeOK
  <2>7. CASE ~(f.lsn < redo)
    <3>1. PICK n \in Nat : n = f.lsn + 1
      BY DEF Frame
    <3>2. frame' = [frame EXCEPT ![p] = f] /\ dptab' = [dptab EXCEPT ![p] = n]
      BY <2>5, <2>7, <3>1
    <3>3. frame' \in [Page -> Frame] /\ dptab' \in [Page -> Nat] /\ frame'[p] = f /\ dptab'[p] = n
          /\ \A q \in Page : q # p => frame'[q] = frame[q] /\ dptab'[q] = dptab[q]
      BY <3>2 DEF TypeOK
    <3>. QED
      BY <1>1, <1>4, <2>2, <2>4, <2>7, <3>1, <3>3
  <2>. QED
    BY <2>6, <2>7
<1>. QED
  BY <1>2, <1>4

OwnIn(L, x) == {i \in 1 .. Len(L) : L[i] \in Update \union Mark /\ L[i].x = x}

\* Links lead back to records of the same transaction.
Linked(L) == \A i \in 1 .. Len(L) : L[i] \in Update \union Mark =>
               L[i].prev < i /\ (L[i].prev # 0 => L[i].prev \in OwnIn(L, L[i].x))

XtOf(L, m) == Analysis(L, m).xt

\* The transaction table that restart computes.
LEMMA XtIs ==
  ASSUME NEW L \in Seq(LogRec), NEW m \in Nat, m <= Len(L)
  PROVE  /\ XtOf(L, m) \in [Xct -> XctEntry]
         /\ \A x \in Xct : XtOf(L, m)[x] = LET e == Scan(L, m)[Len(L)].xt[x] IN
                                           IF e.st = "freeing" THEN NoEntry ELSE e
<1>. DEFINE a == Scan(L, m)[Len(L)]
            t == [x \in Xct |-> IF a.xt[x].st = "freeing" THEN NoEntry ELSE a.xt[x]]
<1>1. a \in Analysing
  BY ScanType
<1>2. Analysis(L, m) = [a EXCEPT !.xt = t]
  BY AnalysisIs
<1>. HIDE DEF a
<1>3. \A x \in Xct : a.xt[x] \in XctEntry /\ NoEntry \in XctEntry
  BY <1>1, RebornIs DEF Analysing
<1>4. t \in [Xct -> XctEntry]
  BY <1>3
<1>5. PICK v \in [Xct -> XctEntry] : v = t
  BY <1>4
<1>6. XtOf(L, m) = v
  <2>1. Analysis(L, m) = [a EXCEPT !.xt = v]
    BY <1>2, <1>5
  <2>. QED
    BY <1>1, <2>1 DEF Analysing, XtOf
<1>. QED
  BY <1>5, <1>6 DEF a

\* What restart knows of a transaction is records of its own.
LEMMA XtOwn ==
  ASSUME NEW L \in Seq(LogRec), NEW m \in Nat, m <= Len(L), Linked(L), NEW x \in Xct
  PROVE  LET e == XtOf(L, m)[x] IN
         (e.last # 0 => e.last \in OwnIn(L, x)) /\ (e.undo # 0 => e.undo \in OwnIn(L, x))
<1>. DEFINE f == Scan(L, m)
            Ok(e) == (e.last # 0 => e.last \in OwnIn(L, x)) /\ (e.undo # 0 => e.undo \in OwnIn(L, x))
            T == {i \in m .. Len(L) : Ok(f[i].xt[x])}
<1>0. Len(L) \in Nat
  OBVIOUS
<1>1. Ok(NoEntry)
  BY DEF NoEntry, NoLsn
<1>2. m \in T
  BY <1>1, ScanIs, FreshScanType
<1>3. ASSUME NEW i \in m + 1 .. Len(L), i - 1 \in T
      PROVE  i \in T
  <2>1. f[i].xt[x] = XctAfter(f[i - 1].xt[x], L[i], i, x, f[i - 1].ended)
    BY ScanStep
  <2>2. Ok(f[i - 1].xt[x])
    BY <1>3
  <2>. DEFINE e == f[i - 1].xt[x]
              n == f[i].xt[x]
  <2>3. CASE L[i] \in Update \union Mark /\ L[i].x = x /\ L[i].k # "end"
    <3>1. n = Heard(e, L[i], i)
      BY <2>1, <2>3 DEF XctAfter
    <3>2. i \in OwnIn(L, x)
      BY <2>3 DEF OwnIn
    <3>3. L[i].prev # 0 => L[i].prev \in OwnIn(L, x)
      BY <2>3 DEF Linked
    <3>. HIDE DEF f, n, e
    <3>4. n.last = i /\ n.undo \in {i, L[i].prev, e.undo}
      BY <3>1 DEF Heard
    <3>5. Ok(n)
      BY <3>2, <3>3, <3>4, <2>2 DEF e
    <3>. QED
      BY <3>5 DEF n
  <2>4. CASE ~(L[i] \in Update \union Mark /\ L[i].x = x /\ L[i].k # "end")
    <3>1. n = NoEntry \/ n = e \/ (L[i] \in XctTab /\ n = Reborn(L[i].tab[x]))
      BY <2>1, <2>4 DEF XctAfter
    <3>2. L[i] \in XctTab => Ok(Reborn(L[i].tab[x]))
      <4>1. ASSUME L[i] \in XctTab
            PROVE  L[i].tab[x] \in {"none", "active", "committing", "freeing"}
        BY <4>1 DEF XctTab
      <4>. QED
        BY <4>1, RebornIs
    <3>. HIDE DEF f, n, e
    <3>3. Ok(n)
      BY <3>1, <3>2, <1>1, <2>2 DEF e
    <3>. QED
      BY <3>3 DEF n
  <2>. QED
    BY <2>3, <2>4
<1>. HIDE DEF T
<1>4. Len(L) \in T
  <2>1. Len(L) \in m .. Len(L)
    OBVIOUS
  <2>. QED
    BY <1>0, <1>2, <1>3, <2>1, Along
<1>5. Ok(f[Len(L)].xt[x])
  BY <1>4 DEF T
<1>. QED
  BY <1>1, <1>5, XtIs

\* The redo pass starts at the least rec_lsn of the dirty page table.
LEMMA RedoLsnIs ==
  ASSUME NEW d \in [Page -> Nat], NEW L, Len(L) \in Nat
  PROVE  /\ RedoLsn(d, L) \in Nat /\ RedoLsn(d, L) # 0 /\ RedoLsn(d, L) <= Len(L) + 1
         /\ \A p \in Page : d[p] # 0 => RedoLsn(d, L) <= d[p]
         /\ RedoLsn(d, L) = Len(L) + 1 \/ \E p \in Page : d[p] # 0 /\ RedoLsn(d, L) = d[p]
<1>. DEFINE T == {d[p] : p \in {q \in Page : d[q] # NoLsn}} \union {Len(L) + 1}
<1>1. T \in SUBSET Nat /\ T # {}
  OBVIOUS
<1>2. Min(T) \in T /\ \A k \in T : Min(T) <= k
  <2>. HIDE DEF T
  <2>. QED
    BY <1>1, MinIs
<1>3. RedoLsn(d, L) = Min(T)
  BY DEF RedoLsn
<1>4. PICK n \in Nat : n = Min(T)
  BY <1>1, <1>2
<1>5. n \in T /\ \A k \in T : n <= k
  BY <1>2, <1>4
<1>6. Len(L) + 1 \in T /\ \A p \in Page : d[p] # 0 => d[p] \in T
  BY DEF NoLsn
<1>7. n = Len(L) + 1 \/ \E p \in Page : d[p] # 0 /\ n = d[p]
  BY <1>5 DEF NoLsn
<1>8. n # 0
  BY <1>7
<1>9. n <= Len(L) + 1 /\ \A p \in Page : d[p] # 0 => n <= d[p]
  BY <1>5, <1>6
<1>. QED
  BY <1>3, <1>4, <1>7, <1>8, <1>9

\* What the analysis pass sets.
LEMMA AnalyseIs ==
  ASSUME TypeOK, LogInv, ChainInv, Analyse
  PROVE  /\ mode = "analysis" /\ mode' = "redo"
         /\ dptab' = DptOf(log, master) /\ dptab' \in [Page -> Nat]
         /\ redo' = RedoLsn(dptab', log) /\ redo' \in Nat /\ redo' # 0
         /\ xct' \in [Xct -> Entry]
         /\ \A x \in Xct : /\ xct'[x].st = XtOf(log, master)[x].st
                           /\ xct'[x].first = 0
                           /\ xct'[x].last # 0 => xct'[x].last \in Own(x)
                           /\ xct'[x].undo # 0 => xct'[x].undo \in Own(x)
<1>1. log \in Seq(LogRec) /\ master \in Nat /\ master <= Len(log)
  BY DEF TypeOK, LogInv
<1>2. mode = "analysis" /\ mode' = "redo" /\ dptab' = DptOf(log, master) /\ redo' = RedoLsn(dptab', log)
  BY DEF Analyse, DptOf
<1>3. dptab' \in [Page -> Nat]
  BY <1>1, <1>2, DptIs
<1>4. redo' \in Nat /\ redo' # 0
  BY <1>1, <1>2, <1>3, RedoLsnIs
<1>5. Linked(log) /\ \A x \in Xct : OwnIn(log, x) = Own(x)
  <2>1. \A x : OwnIn(log, x) = Own(x)
    BY DEF OwnIn, Own
  <2>. QED
    BY <2>1 DEF Linked, ChainInv, Chain, Links
<1>. DEFINE t == XtOf(log, master)
<1>6. xct' = [x \in Xct |-> [st |-> t[x].st, first |-> NoLsn, last |-> t[x].last, undo |-> t[x].undo]]
  BY DEF Analyse, XtOf
<1>7. t \in [Xct -> XctEntry]
  BY <1>1, XtIs
<1>8. \A x \in Xct : (t[x].last # 0 => t[x].last \in Own(x)) /\ (t[x].undo # 0 => t[x].undo \in Own(x))
  BY <1>1, <1>5, XtOwn
<1>. HIDE DEF t
<1>9. xct' \in [Xct -> Entry]
  BY <1>6, <1>7 DEF Entry, XctEntry, State, NoLsn
<1>. QED
  BY <1>2, <1>3, <1>4, <1>6, <1>8, <1>9 DEF t, NoLsn

\* What a checkpoint logs.
ChkptRec == Bound \union PageTab \union XctTab

\* Each step of a checkpoint that logs adds one record.
LEMMA ChkptLogs ==
  ASSUME TypeOK, ChkptBegin \/ ChkptPages \/ ChkptXcts \/ ChkptEnd
  PROVE  /\ chk' \in Chkpt /\ log' \in Seq(LogRec)
         /\ UNCHANGED <<sealed, durable, low, master, pageVars, xct, thread, restartVars, hist, crashes>>
         /\ \/ log' = log
            \/ /\ Len(log') = Len(log) + 1 /\ log'[Len(log) + 1] \in ChkptRec
               /\ \A i \in 1 .. Len(log) : log'[i] = log[i]
<1>1. chk \in Chkpt /\ CurrLsn \in Nat /\ NoChkpt \in Chkpt
  BY Starts DEF TypeOK, CurrLsn
<1>2. ASSUME NEW r \in ChkptRec, LogsForCheckpoint(r)
      PROVE  /\ log' \in Seq(LogRec) /\ Len(log') = Len(log) + 1 /\ log'[Len(log) + 1] = r
             /\ \A i \in 1 .. Len(log) : log'[i] = log[i]
             /\ UNCHANGED <<sealed, durable, low, master, pageVars, xct, thread, restartVars, hist, crashes>>
  <2>1. r \in LogRec /\ Logs(NoXct, r)
    BY <1>2 DEF LogsForCheckpoint, ChkptRec, LogRec
  <2>. QED
    BY <1>2, <2>1, OneMore DEF LogsForCheckpoint
<1>3. CASE ChkptBegin
  <2>1. LogsForCheckpoint([k |-> "begin"])
        /\ chk' = [NoChkpt EXCEPT !.at = "scan", !.todo = Page, !.lsn = CurrLsn, !.taken = chk.taken]
    BY <1>3 DEF ChkptBegin
  <2>2. [k |-> "begin"] \in ChkptRec
    BY DEF ChkptRec, Bound
  <2>3. chk' \in Chkpt
    BY <2>1, <1>1 DEF Chkpt
  <2>. QED
    BY <1>2, <2>1, <2>2, <2>3
<1>4. CASE ChkptPages
  <2>1. chk' \in Chkpt
    BY <1>4, <1>1 DEF ChkptPages, Chkpt
  <2>2. [k |-> "bftab", tab |-> chk.tab] \in ChkptRec
    BY <1>1 DEF ChkptRec, PageTab, Chkpt
  <2>3. CASE LogsForCheckpoint([k |-> "bftab", tab |-> chk.tab])
    BY <1>2, <2>1, <2>2, <2>3
  <2>4. CASE UNCHANGED <<logVars, pageVars, xct, thread, restartVars, hist, crashes>>
    BY <2>1, <2>4 DEF logVars, TypeOK
  <2>. QED
    BY <1>4, <2>3, <2>4 DEF ChkptPages
<1>5. CASE ChkptXcts
  <2>. DEFINE r == [k |-> "xtab", tab |-> [x \in Xct |-> ListedAs(x)]]
              T == {xct[x].first : x \in Listed} \union {chk.lsn}
  <2>1. LogsForCheckpoint(r) /\ chk' = [chk EXCEPT !.at = "end", !.minXct = Min(T)]
    BY <1>5 DEF ChkptXcts
  <2>2. \A x \in Xct : ListedAs(x) \in {"none", "active", "committing", "freeing"}
    <3>1. ASSUME NEW x \in Xct
          PROVE  ListedAs(x) \in {"none", "active", "committing", "freeing"}
      <4>1. xct[x].st \in State
        BY DEF TypeOK, Entry
      <4>2. x \in Listed => xct[x].st # "ended"
        BY DEF Listed
      <4>3. xct[x].st = "none" \/ xct[x].st \in {"active", "aborting", "committing", "freeing", "ended"}
        BY <4>1 DEF State
      <4>. QED
        BY <4>2, <4>3 DEF ListedAs
    <3>. QED
      BY <3>1
  <2>3. r \in ChkptRec
    BY <2>2 DEF ChkptRec, XctTab
  <2>4. T \in SUBSET Nat /\ T # {}
    BY <1>1 DEF TypeOK, Entry, Chkpt, Listed
  <2>. HIDE DEF T
  <2>5. Min(T) \in Nat
    BY <2>4, MinIs
  <2>6. PICK n \in Nat : n = Min(T)
    BY <2>5
  <2>7. chk' \in Chkpt
    BY <2>1, <2>6, <1>1 DEF Chkpt
  <2>. HIDE DEF r
  <2>. QED
    BY <1>2, <2>1, <2>3, <2>7
<1>6. CASE ChkptEnd
  <2>1. LogsForCheckpoint([k |-> "cend"]) /\ chk' = [chk EXCEPT !.at = "sync"]
    BY <1>6 DEF ChkptEnd
  <2>2. [k |-> "cend"] \in ChkptRec
    BY DEF ChkptRec, Bound
  <2>3. chk' \in Chkpt
    BY <2>1, <1>1 DEF Chkpt
  <2>. QED
    BY <1>2, <2>1, <2>2, <2>3
<1>. QED
  BY <1>3, <1>4, <1>5, <1>6

\* The least rec_lsn that the checkpoint has listed, or its begin.
LEMMA MinRecLsnIs ==
  ASSUME TypeOK
  PROVE  /\ MinRecLsn \in Nat /\ MinRecLsn <= chk.lsn
         /\ \A p \in Page : chk.tab[p] # 0 => MinRecLsn <= chk.tab[p]
<1>. DEFINE T == {chk.tab[p] : p \in {q \in Page : chk.tab[q] # NoLsn}} \union {chk.lsn}
<1>1. T \in SUBSET Nat /\ T # {}
  BY DEF TypeOK, Chkpt
<1>2. Min(T) \in T /\ \A k \in T : Min(T) <= k
  <2>. HIDE DEF T
  <2>. QED
    BY <1>1, MinIs
<1>3. MinRecLsn = Min(T)
  BY DEF MinRecLsn
<1>4. chk.lsn \in T /\ \A p \in Page : chk.tab[p] # 0 => chk.tab[p] \in T
  BY DEF NoLsn
<1>. HIDE DEF T
<1>. QED
  BY <1>1, <1>2, <1>3, <1>4

\* Scavenge moves the tail of the log up to what the checkpoint still needs.
LEMMA ScavengeIs ==
  ASSUME TypeOK, Scavenge
  PROVE  /\ chk.at = "scavenge" /\ chk' \in Chkpt /\ chk'.at = "off" /\ low' \in Nat
         /\ low <= low'
         /\ low' = low \/ (low' <= MinRecLsn /\ low' <= chk.minXct /\ low' <= chk.lsn)
<1>. DEFINE m == Minimum(MinRecLsn, chk.minXct)
<1>1. chk \in Chkpt /\ low \in Nat
  BY DEF TypeOK
<1>2. m \in Nat /\ m <= MinRecLsn /\ m <= chk.minXct /\ m <= chk.lsn
  BY <1>1, MinRecLsnIs DEF Minimum, Chkpt
<1>3. chk.at = "scavenge" /\ low' = Max({low, m}) /\ chk' = [NoChkpt EXCEPT !.taken = chk.taken + 1]
  BY DEF Scavenge
<1>. HIDE DEF m
<1>4. Max({low, m}) \in {low, m} /\ \A k \in {low, m} : k <= Max({low, m})
  <2>1. PICK n \in Nat : low <= n /\ m <= n
    BY <1>1, <1>2
  <2>2. {low, m} \in SUBSET (0 .. n) /\ {low, m} # {}
    BY <1>1, <1>2, <2>1
  <2>. QED
    BY <2>2, MaxIs
<1>5. chk' \in Chkpt /\ chk'.at = "off"
  BY <1>1, <1>3, Starts DEF Chkpt
<1>. QED
  BY <1>1, <1>2, <1>3, <1>4, <1>5

\* get_rec_lsn looks at one page more.
LEMMA ChkptScanIs ==
  ASSUME TypeOK, NEW p \in Page, ChkptScan(p)
  PROVE  /\ chk.at = "scan" /\ p \in chk.todo
         /\ chk' \in Chkpt /\ chk'.at = "scan" /\ chk'.todo = chk.todo \ {p} /\ chk'.lsn = chk.lsn
         /\ chk'.minXct = chk.minXct
         /\ \A q \in Page : chk'.tab[q] =
              IF q # p THEN chk.tab[q]
              ELSE IF ~frame[p].dirty THEN 0 ELSE IF frame[p].old # 0 THEN frame[p].old ELSE frame[p].rec
<1>1. PICK n \in Nat : n = IF frame[p].dirty THEN SafeRecLsn(frame[p]) ELSE NoLsn
  BY DEF TypeOK, Frame, SafeRecLsn, NoLsn
<1>2. PICK c \in Chkpt : c = chk
  BY DEF TypeOK
<1>3. chk.at = "scan" /\ p \in chk.todo /\ chk' = [c EXCEPT !.todo = @ \ {p}, !.tab[p] = n]
  BY <1>1, <1>2 DEF ChkptScan
<1>4. c.tab \in [Page -> Nat] /\ c.todo \in SUBSET Page
  BY DEF Chkpt
<1>5. PICK t \in [Page -> Nat] : t = [c.tab EXCEPT ![p] = n]
  BY <1>4
<1>6. chk' = [c EXCEPT !.todo = c.todo \ {p}, !.tab = t]
  BY <1>3, <1>5
<1>7. chk' \in Chkpt /\ chk'.at = c.at /\ chk'.todo = c.todo \ {p} /\ chk'.lsn = c.lsn
      /\ chk'.minXct = c.minXct /\ chk'.tab = t
  BY <1>4, <1>6 DEF Chkpt
<1>8. n = IF ~frame[p].dirty THEN 0 ELSE IF frame[p].old # 0 THEN frame[p].old ELSE frame[p].rec
  BY <1>1 DEF SafeRecLsn, NoLsn
<1>9. \A q \in Page : t[q] = IF q # p THEN chk.tab[q] ELSE n
  BY <1>4, <1>5, <1>2
<1>. QED
  BY <1>2, <1>3, <1>7, <1>8, <1>9

\* The log may get longer, and what it had stays.
Extends ==
  /\ log' \in Seq(LogRec) /\ Len(log) <= Len(log')
  /\ \A i \in 1 .. Len(log) : log'[i] = log[i]

\* The records of a transaction, in a longer log.
LEMMA OwnGrows ==
  ASSUME TypeOK, Extends, NEW x
  PROVE  Own(x) \subseteq Own(x)'
<1>1. ASSUME NEW i \in Own(x)
      PROVE  i \in Own(x)'
  <2>1. i \in 1 .. Len(log) /\ log[i] \in Update \union Mark /\ log[i].x = x
    BY <1>1 DEF Own
  <2>2. i \in 1 .. Len(log') /\ log'[i] = log[i]
    BY <2>1 DEF Extends, TypeOK
  <2>. QED
    BY <2>1, <2>2 DEF Own
<1>. QED
  BY <1>1

\* The links of a longer log.
LEMMA LinksGrow ==
  ASSUME TypeOK, Links, Extends,
         \A i \in Len(log) + 1 .. Len(log') : log'[i] \in Update \union Mark =>
           log'[i].prev <= Len(log) /\ (log'[i].prev # 0 => log'[i].prev \in Own(log'[i].x))
  PROVE  Links'
<1>1. ASSUME NEW i \in 1 .. Len(log'), log'[i] \in Update \union Mark
      PROVE  log'[i].prev < i /\ (log'[i].prev # 0 => log'[i].prev \in OwnIn(log', log'[i].x))
  <2>1. CASE i \in 1 .. Len(log)
    <3>1. log'[i] = log[i] /\ log[i].prev < i /\ (log[i].prev # 0 => log[i].prev \in Own(log[i].x))
      BY <1>1, <2>1 DEF Extends, Links
    <3>2. PICK y : y = log[i].x
      OBVIOUS
    <3>3. Own(y) \subseteq Own(y)' /\ Own(y)' = OwnIn(log', y)
      BY OwnGrows DEF Own, OwnIn
    <3>. QED
      BY <3>1, <3>2, <3>3
  <2>2. CASE i \in Len(log) + 1 .. Len(log')
    <3>1. log'[i].prev <= Len(log) /\ (log'[i].prev # 0 => log'[i].prev \in Own(log'[i].x))
      BY <1>1, <2>2
    <3>2. PICK y : y = log'[i].x
      OBVIOUS
    <3>3. Own(y) \subseteq Own(y)' /\ Own(y)' = OwnIn(log', y)
      BY OwnGrows DEF Own, OwnIn
    <3>4. log'[i] \in LogRec /\ Len(log) \in Nat
      BY DEF Extends, TypeOK
    <3>5. log'[i].prev \in Nat
      BY <1>1 DEF Update, Mark
    <3>. QED
      BY <2>2, <3>1, <3>2, <3>3, <3>4, <3>5
  <2>3. Len(log) \in Nat /\ Len(log') \in Nat
    BY DEF Extends, TypeOK
  <2>. QED
    BY <1>1, <2>1, <2>2, <2>3
<1>. QED
  BY <1>1 DEF Links, Own, OwnIn

\* A transaction that keeps its lsns, and one that gets new ones.
LEMMA ChainGrows ==
  ASSUME TypeOK, Extends, NEW y \in Xct, Chain(y),
         NEW l, NEW u, NEW n, NEW b, NEW a,
         xct'[y].last = l, xct'[y].undo = u, thread'[y].next = n, thread'[y].back = b, thread'[y].at = a,
         l \in Nat, b \in Nat,
         l # 0 => l \in Own(y)', u # 0 => u \in Own(y)', n # 0 => n \in Own(y)',
         b # 0 => b \in Own(y) /\ log[b] \in Update,
         a \in {"logged", "comp"} => l # 0 /\ b < l /\ log'[l] \in Update,
         a = "comp" => b # 0
  PROVE  Chain(y)'
<1>1. Own(y) \subseteq Own(y)'
  BY OwnGrows
<1>2. b # 0 => b \in Own(y)' /\ log'[b] \in Update
  <2>1. b \in Own(y) => b \in 1 .. Len(log)
    BY DEF Own
  <2>. QED
    BY <1>1, <2>1 DEF Extends
<1>. QED
  BY <1>2 DEF Chain, At

\* A transaction that a step leaves alone.
LEMMA ChainKept ==
  ASSUME TypeOK, Extends, NEW y \in Xct, Chain(y), xct'[y] = xct[y], thread'[y] = thread[y]
  PROVE  Chain(y)'
<1>1. Own(y) \subseteq Own(y)'
  BY OwnGrows
<1>2. xct[y].last \in Nat /\ thread[y].back \in Nat
  BY DEF TypeOK, Entry, Thread
<1>3. xct[y].last # 0 => log'[xct[y].last] = log[xct[y].last]
  BY DEF Chain, Own, Extends
<1>4. /\ xct[y].last # 0 => xct[y].last \in Own(y)'
      /\ xct[y].undo # 0 => xct[y].undo \in Own(y)'
      /\ thread[y].next # 0 => thread[y].next \in Own(y)'
      /\ thread[y].back # 0 => thread[y].back \in Own(y) /\ log[thread[y].back] \in Update
  BY <1>1 DEF Chain
<1>5. thread[y].at \in {"logged", "comp"} =>
        xct[y].last # 0 /\ thread[y].back < xct[y].last /\ log'[xct[y].last] \in Update
  BY <1>3 DEF Chain
<1>6. thread[y].at = "comp" => thread[y].back # 0
  BY DEF Chain, At
<1>. QED
  BY <1>2, <1>4, <1>5, <1>6, ChainGrows

\* Nothing but the transactions' lsns matters when the log stays.
LEMMA SameLog ==
  ASSUME TypeOK, log' = log
  PROVE  Extends /\ \A x : Own(x)' = Own(x)
BY DEF Extends, TypeOK, Own

\* The links of a log that stays.
LEMMA LinksStay ==
  ASSUME TypeOK, Links, log' = log
  PROVE  Links'
BY DEF Links, Own

\* Steps of a transaction that leave the log alone: its new lsns are among those it had, or
\* what a record of its own points back to.
Quiet(x) ==
  Begin(x) \/ Fix(x) \/ Unfix(x) \/ Apply(x) \/ UndoRecord(x) \/ SkipRecord(x) \/ RolledBack(x)
  \/ Commit(x) \/ (Quits(x) /\ ~Restarting) \/ EndUnlogged(x) \/ Synced(x) \/ RollBackFirst(x)

\* Such a step leaves log, pages and other transactions alone,
LEMMA QuietKeeps ==
  ASSUME TypeOK, NEW x \in Xct, Quiet(x)
  PROVE  /\ UNCHANGED <<logVars, chk, restartVars, crashes>>
         /\ \A y \in Xct : y # x => xct'[y] = xct[y] /\ thread'[y] = thread[y]
<1>1. xct \in [Xct -> Entry] /\ thread \in [Xct -> Thread]
  BY DEF TypeOK
<1>2. CASE Begin(x) \/ Fix(x) \/ Unfix(x) \/ UndoRecord(x) \/ SkipRecord(x)
  BY <1>1, <1>2 DEF Begin, Fix, Unfix, Goes, UndoRecord, SkipRecord
<1>3. CASE Apply(x)
  BY <1>1, <1>3 DEF Apply, Goes
<1>4. CASE RolledBack(x) \/ Commit(x) \/ Quits(x) \/ EndUnlogged(x) \/ Synced(x) \/ RollBackFirst(x)
  BY <1>1, <1>4 DEF RolledBack, Commit, Quits, RollBackTo, EndUnlogged, Synced, RollBackFirst, Goes
<1>. QED
  BY <1>2, <1>3, <1>4 DEF Quiet

\* finds its new lsns among its own records,
LEMMA QuietLsns ==
  ASSUME TypeOK, ChainInv, NEW x \in Xct, Quiet(x)
  PROVE  LET t == thread[x]  u == thread'[x]  e == xct[x]  f == xct'[x] IN
         /\ f.last = e.last
         /\ f.undo \in {e.undo, e.last, t.next}
         /\ u.next \in {0, t.next, e.undo} \/ (t.next # 0 /\ u.next = log[t.next].prev)
         /\ u.back \in {0, t.back} \/ (t.next # 0 /\ log[t.next] \in Update /\ u.back = t.next)
         /\ \/ u.at \notin {"logged", "comp"}
            \/ u.back = t.back /\ u.at = t.at
            \/ u.back = t.back /\ t.at = "logged" /\ u.at = "comp" /\ t.back # 0
<1>1. /\ xct[x] \in Entry /\ thread[x] \in Thread /\ xct \in [Xct -> Entry] /\ thread \in [Xct -> Thread]
      /\ Idle.back = 0 /\ Idle.next = 0 /\ Idle.at = "idle" /\ Idle \in Thread
  BY Starts DEF TypeOK
<1>2. CASE Begin(x)
  <2>1. xct' = [xct EXCEPT ![x].st = "active"] /\ thread' = thread
    BY <1>2 DEF Begin
  <2>. QED
    BY <1>1, <2>1 DEF Entry
<1>3. CASE Fix(x)
  <2>. DEFINE n == Cardinality(hist.wrote[x]) + 1
  <2>1. xct' = xct
    BY <1>3 DEF Fix
  <2>2. thread' = [thread EXCEPT ![x] =
        [Idle EXCEPT !.at = "fixed", !.page = load.pages[x][n], !.item = [xct |-> x, no |-> n]]]
    BY <1>3 DEF Fix
  <2>. HIDE DEF n
  <2>3. thread'[x].next = 0 /\ thread'[x].back = 0 /\ thread'[x].at = "fixed"
    BY <1>1, <2>2 DEF Thread
  <2>. QED
    BY <1>1, <2>1, <2>3
<1>4. CASE Unfix(x)
  <2>1. xct' = xct /\ thread' = [thread EXCEPT ![x].at = "idle"]
    BY <1>4 DEF Unfix, Goes
  <2>. QED
    BY <1>1, <2>1 DEF Thread
<1>5. CASE Apply(x)
  <2>1. /\ thread[x].at = "logged" /\ xct' = [xct EXCEPT ![x] = Tracked(@, xct[x].last, xct[x].last)]
        /\ thread' = [thread EXCEPT ![x].at = IF thread[x].back = NoLsn THEN "idle" ELSE "comp"]
    BY <1>5 DEF Apply, Goes, At
  <2>2. xct'[x] = Tracked(xct[x], xct[x].last, xct[x].last)
    BY <1>1, <2>1
  <2>3. xct'[x].last = xct[x].last /\ xct'[x].undo = xct[x].last
    <3>1. xct[x].last \in Nat
      BY <1>1 DEF Entry
    <3>. QED
      BY <1>1, <2>2, <3>1, TrackedType
  <2>4. thread'[x].next = thread[x].next /\ thread'[x].back = thread[x].back
        /\ thread'[x].at = IF thread[x].back = 0 THEN "idle" ELSE "comp"
    BY <1>1, <2>1 DEF Thread, NoLsn
  <2>. QED
    BY <2>1, <2>3, <2>4
<1>6. CASE UndoRecord(x)
  <2>. DEFINE t == thread[x]  r == log[t.next]
  <2>1. /\ xct' = xct /\ t.next > t.save /\ IsUndo(r)
        /\ thread' = [thread EXCEPT ![x] = [t EXCEPT !.at = "fixed", !.page = r.page, !.item = r.item,
                                               !.kind = Opposite(r.k), !.back = t.next]]
    BY <1>6 DEF UndoRecord, Undoing
  <2>2. t.next # 0 /\ t.next \in Own(x)
    <3>1. t.next \in Nat /\ t.save \in Nat /\ Chain(x)
      BY <1>1 DEF Thread, ChainInv
    <3>. QED
      BY <2>1, <3>1 DEF Chain
  <2>3. r \in Update
    <3>1. r \in LogRec
      BY <2>2 DEF Own, TypeOK
    <3>. QED
      BY <2>1, <3>1, Kinds DEF IsUndo
  <2>4. thread'[x].next = t.next /\ thread'[x].back = t.next /\ thread'[x].at = "fixed"
    <3>. HIDE DEF r
    <3>. QED
      BY <1>1, <2>1 DEF Thread
  <2>. QED
    BY <2>1, <2>2, <2>3, <2>4
<1>7. CASE SkipRecord(x)
  <2>. DEFINE t == thread[x]  r == log[t.next]
  <2>1. xct' = xct /\ t.next > t.save /\ thread' = [thread EXCEPT ![x].next = r.prev]
    BY <1>7 DEF SkipRecord, Undoing
  <2>2. t.next # 0
    BY <1>1, <2>1 DEF Thread
  <2>3. thread'[x].next = r.prev /\ thread'[x].back = t.back /\ thread'[x].at = t.at
    <3>. HIDE DEF r
    <3>. QED
      BY <1>1, <2>1 DEF Thread
  <2>. QED
    BY <2>1, <2>2, <2>3
<1>8. CASE RolledBack(x)
  <2>1. /\ xct' = [xct EXCEPT ![x].undo = thread[x].next]
        /\ thread' = [thread EXCEPT ![x] = [Idle EXCEPT !.at = IF xct[x].st = "aborting" THEN "ask" ELSE "idle"]]
    BY <1>8 DEF RolledBack
  <2>2. thread'[x].next = 0 /\ thread'[x].back = 0 /\ thread'[x].at \in {"ask", "idle"}
    BY <1>1, <2>1 DEF Thread
  <2>3. xct'[x].last = xct[x].last /\ xct'[x].undo = thread[x].next
    BY <1>1, <2>1 DEF Entry
  <2>. QED
    BY <2>2, <2>3
<1>9. CASE Commit(x) \/ EndUnlogged(x)
  <2>1. \E s, w : /\ w \in {"ask", "done"}
                 /\ xct' = [xct EXCEPT ![x].st = s] /\ thread' = [thread EXCEPT ![x].at = w]
    BY <1>9 DEF Commit, EndUnlogged, Goes
  <2>. QED
    BY <1>1, <2>1 DEF Entry, Thread
<1>10. CASE Quits(x) \/ RollBackFirst(x)
  <2>1. xct'[x].last = xct[x].last /\ xct'[x].undo = xct[x].undo
    BY <1>1, <1>10 DEF Quits, RollBackFirst, Entry
  <2>2. \E save : RollBackTo(x, save)
    BY <1>10 DEF Quits, RollBackFirst
  <2>3. thread'[x].next = xct[x].undo /\ thread'[x].back = 0 /\ thread'[x].at = "undo"
    BY <1>1, <2>2 DEF RollBackTo, Thread
  <2>. QED
    BY <2>1, <2>3
<1>11. CASE Synced(x)
  <2>1. xct' = xct /\ thread' = [thread EXCEPT ![x].at = "ending"]
    BY <1>11 DEF Synced, Goes
  <2>. QED
    BY <1>1, <2>1 DEF Thread
<1>. QED
  BY <1>2, <1>3, <1>4, <1>5, <1>6, <1>7, <1>8, <1>9, <1>10, <1>11 DEF Quiet

\* and so keeps the chain.
LEMMA ChainQuiet ==
  ASSUME TypeOK, ChainInv, NEW x \in Xct, Quiet(x), XctTypes'
  PROVE  ChainInv'
<1>1. log' = log /\ Extends /\ Own(x)' = Own(x) /\ Links'
  BY QuietKeeps, SameLog, LinksStay DEF logVars, ChainInv
<1>2. \A y \in Xct : y # x => Chain(y)'
  BY <1>1, QuietKeeps, ChainKept DEF ChainInv
<1>3. PICK l, u, n, b, a : xct'[x].last = l /\ xct'[x].undo = u /\ thread'[x].next = n
                           /\ thread'[x].back = b /\ thread'[x].at = a
  OBVIOUS
<1>4. l \in Nat /\ b \in Nat
  BY <1>3 DEF XctTypes, Entry, Thread
<1>5. PICK t, e : t = thread[x] /\ e = xct[x]
  OBVIOUS
<1>6. /\ l = e.last /\ u \in {e.undo, e.last, t.next}
      /\ n \in {0, t.next, e.undo} \/ (t.next # 0 /\ n = log[t.next].prev)
      /\ b \in {0, t.back} \/ (t.next # 0 /\ log[t.next] \in Update /\ b = t.next)
      /\ \/ a \notin {"logged", "comp"}
         \/ b = t.back /\ a = t.at
         \/ b = t.back /\ t.at = "logged" /\ a = "comp" /\ t.back # 0
  BY <1>3, <1>5, QuietLsns
<1>7. Chain(x)
  BY DEF ChainInv
<1>8. t.next # 0 /\ log[t.next].prev # 0 => log[t.next].prev \in Own(x)
  <2>1. t.next # 0 => t.next \in 1 .. Len(log) /\ log[t.next] \in Update \union Mark /\ log[t.next].x = x
    BY <1>5, <1>7 DEF Chain, Own
  <2>. QED
    BY <2>1 DEF ChainInv, Links
<1>9. /\ l # 0 => l \in Own(x)
      /\ u # 0 => u \in Own(x)
      /\ n # 0 => n \in Own(x)
      /\ b # 0 => b \in Own(x) /\ log[b] \in Update
      /\ a \in {"logged", "comp"} => l # 0 /\ b < l /\ log[l] \in Update
      /\ a = "comp" => b # 0
  BY <1>5, <1>6, <1>7, <1>8 DEF Chain, At
<1>10. Chain(x)'
  BY <1>1, <1>3, <1>4, <1>7, <1>9, ChainGrows
<1>. QED
  BY <1>1, <1>2, <1>10 DEF ChainInv

\* A step that adds a record of a transaction.
Logging(x) == Insert(x) \/ LogCompensation(x) \/ LogFreeing(x) \/ LogEnd(x)

\* The record is the last of its transaction.
LEMMA LoggingIs ==
  ASSUME TypeOK, ChainInv, LatchInv, NEW x \in Xct, Logging(x)
  PROVE  LET t == thread[x]  u == thread'[x]  e == xct[x]  f == xct'[x]  n == Len(log) + 1 IN
         /\ UNCHANGED <<sealed, durable, low, master, pageVars, chk, restartVars, crashes>>
         /\ \A y \in Xct : y # x => xct'[y] = xct[y] /\ thread'[y] = thread[y]
         /\ f.last = n
         /\ u.at # "comp"
         /\ u.back \in {0, t.back}
         /\ u.at = "logged" <=> Insert(x)
         /\ Insert(x) => f.undo = e.undo /\ u.next = t.next /\ u.page = t.page /\ t.at = "fixed"
         /\ ~Insert(x) => t.at \notin {"fixed", "logged"} /\ u.at # "fixed"
         /\ Insert(x) => log'[n].page = t.page /\ log'[n].prev = e.last
         /\ LogCompensation(x) => /\ t.at = "comp" /\ log'[n].prev = log[t.back].prev
                                  /\ f.undo = log[t.back].prev /\ u.next = log[t.back].prev
         /\ LogFreeing(x) \/ LogEnd(x) => log'[n].prev = e.last /\ f.undo = n /\ u.next = t.next
<1>1. /\ xct[x] \in Entry /\ thread[x] \in Thread /\ xct \in [Xct -> Entry] /\ thread \in [Xct -> Thread]
      /\ CurrLsn = Len(log) + 1 /\ Len(log) + 1 \in Nat
  BY DEF TypeOK, CurrLsn
<1>2. \A r \in LogRec : Logs(x, r) => log'[Len(log) + 1] = r
  BY OneMore
<1>3. CASE Insert(x)
  <2>. DEFINE t == thread[x]
              r == [k |-> t.kind, x |-> x, page |-> t.page, item |-> t.item, prev |-> xct[x].last, clr |-> FALSE]
  <2>1. /\ t.at = "fixed" /\ Logs(x, r)
        /\ xct' = [xct EXCEPT ![x].last = CurrLsn] /\ thread' = [thread EXCEPT ![x].at = "logged"]
        /\ UNCHANGED <<sealed, durable, low, master, pageVars, chk, restartVars, crashes>>
    BY <1>3 DEF Insert, Goes, At
  <2>2. r \in Update
    BY <2>1, Records DEF At
  <2>3. log'[Len(log) + 1] = r
    BY <1>2, <2>1, <2>2 DEF LogRec
  <2>4. log'[Len(log) + 1].page = t.page /\ log'[Len(log) + 1].prev = xct[x].last
    BY <2>3
  <2>5. xct'[x].last = Len(log) + 1 /\ xct'[x].undo = xct[x].undo
        /\ \A y \in Xct : y # x => xct'[y] = xct[y]
    BY <1>1, <2>1 DEF Entry
  <2>6. thread'[x].at = "logged" /\ thread'[x].back = t.back /\ thread'[x].next = t.next
        /\ thread'[x].page = t.page /\ \A y \in Xct : y # x => thread'[y] = thread[y]
    BY <1>1, <2>1 DEF Thread
  <2>7. ~LogCompensation(x) /\ ~LogFreeing(x) /\ ~LogEnd(x)
    BY <2>1 DEF LogCompensation, LogFreeing, LogEnd, At
  <2>. QED
    BY <1>3, <2>1, <2>4, <2>5, <2>6, <2>7
<1>4. CASE LogCompensation(x)
  <2>. DEFINE t == thread[x]
              n == log[t.back].prev
              r == [k |-> "comp", x |-> x, prev |-> n, clr |-> TRUE]
  <2>1. /\ t.at = "comp" /\ Logs(x, r)
        /\ xct' = [xct EXCEPT ![x] = Tracked(@, CurrLsn, n)]
        /\ thread' = [thread EXCEPT ![x].at = "undo", ![x].back = NoLsn, ![x].next = n]
        /\ UNCHANGED <<sealed, durable, low, master, pageVars, chk, restartVars, crashes>>
    BY <1>4 DEF LogCompensation, Undone, At
  <2>2. r \in Mark /\ n \in Nat
    BY <2>1, Records DEF At
  <2>3. log'[Len(log) + 1] = r
    BY <1>2, <2>1, <2>2 DEF LogRec
  <2>4. log'[Len(log) + 1].prev = n
    BY <2>3
  <2>. HIDE DEF n
  <2>5. xct'[x] = Tracked(xct[x], Len(log) + 1, n) /\ \A y \in Xct : y # x => xct'[y] = xct[y]
    BY <1>1, <2>1
  <2>6. xct'[x].last = Len(log) + 1 /\ xct'[x].undo = n
    <3>1. Tracked(xct[x], Len(log) + 1, n).last = Len(log) + 1 /\ Tracked(xct[x], Len(log) + 1, n).undo = n
      BY <1>1, <2>2, TrackedType
    <3>. QED
      BY <2>5, <3>1
  <2>7. thread'[x].at = "undo" /\ thread'[x].back = 0 /\ thread'[x].next = n
        /\ \A y \in Xct : y # x => thread'[y] = thread[y]
    BY <1>1, <2>1 DEF Thread, NoLsn
  <2>8. ~Insert(x) /\ ~LogFreeing(x) /\ ~LogEnd(x)
    BY <2>1 DEF Insert, LogFreeing, LogEnd, At
  <2>. QED
    BY <1>4, <2>1, <2>4, <2>5, <2>6, <2>7, <2>8 DEF n
<1>5. CASE LogFreeing(x) \/ LogEnd(x)
  <2>1. PICK k \in {"free", "end"}, s \in {"freeing", "ended"}, w \in {"sync", "done"} :
          /\ thread[x].at \in {"ask", "ending"}
          /\ Logs(x, [k |-> k, x |-> x, prev |-> xct[x].last, clr |-> FALSE])
          /\ xct' = [xct EXCEPT ![x] = [Tracked(@, CurrLsn, CurrLsn) EXCEPT !.st = s]]
          /\ thread' = [thread EXCEPT ![x].at = w]
          /\ UNCHANGED <<sealed, durable, low, master, pageVars, chk, restartVars, crashes>>
    BY <1>5 DEF LogFreeing, LogEnd, Goes, At
  <2>2. [k |-> k, x |-> x, prev |-> xct[x].last, clr |-> FALSE] \in Mark
    BY Records
  <2>3. log'[Len(log) + 1].prev = xct[x].last
    BY <1>2, <2>1, <2>2 DEF LogRec
  <2>4. Tracked(xct[x], CurrLsn, CurrLsn) \in Entry /\ Tracked(xct[x], CurrLsn, CurrLsn).last = Len(log) + 1
        /\ Tracked(xct[x], CurrLsn, CurrLsn).undo = Len(log) + 1
    BY <1>1, TrackedType
  <2>5. PICK g \in Entry : g = Tracked(xct[x], CurrLsn, CurrLsn)
    BY <2>4
  <2>6. xct' = [xct EXCEPT ![x] = [g EXCEPT !.st = s]]
    BY <2>1, <2>5
  <2>7. xct'[x].last = Len(log) + 1 /\ xct'[x].undo = Len(log) + 1
        /\ \A y \in Xct : y # x => xct'[y] = xct[y]
    BY <1>1, <2>4, <2>5, <2>6 DEF Entry
  <2>8. thread'[x].at = w /\ thread'[x].back = thread[x].back /\ thread'[x].next = thread[x].next
        /\ \A y \in Xct : y # x => thread'[y] = thread[y]
    BY <1>1, <2>1 DEF Thread
  <2>9. ~Insert(x) /\ ~LogCompensation(x)
    BY <2>1 DEF Insert, LogCompensation, At
  <2>. QED
    BY <1>5, <2>1, <2>3, <2>7, <2>8, <2>9
<1>. QED
  BY <1>3, <1>4, <1>5 DEF Logging

\* A step that logs keeps the chain.
LEMMA ChainLogging ==
  ASSUME TypeOK, ChainInv, LatchInv, NEW x \in Xct, Logging(x)
  PROVE  ChainInv' /\ Extends
<1>. DEFINE n == Len(log) + 1
<1>1. /\ XctTypes' /\ log' \in Seq(LogRec) /\ Len(log') = n /\ Len(log) \in Nat
      /\ \A i \in 1 .. Len(log) : log'[i] = log[i]
      /\ log'[n] \in Update \union Mark /\ log'[n].x = x
      /\ Insert(x) <=> log'[n] \in Update
  BY LogTypes DEF Logging, TypeOK
<1>2. Extends
  BY <1>1 DEF Extends
<1>3. PICK t, u, e, f : t = thread[x] /\ u = thread'[x] /\ e = xct[x] /\ f = xct'[x]
  OBVIOUS
<1>4. Chain(x) /\ Links
  BY DEF ChainInv
<1>5. /\ f.last = n /\ u.at # "comp" /\ u.back \in {0, t.back}
      /\ u.at = "logged" => Insert(x)
      /\ \/ f.undo = e.undo /\ u.next = t.next /\ log'[n].prev = e.last
         \/ /\ t.at = "comp" /\ log'[n].prev = log[t.back].prev
            /\ f.undo = log[t.back].prev /\ u.next = log[t.back].prev
         \/ log'[n].prev = e.last /\ f.undo = n /\ u.next = t.next
      /\ \A y \in Xct : y # x => xct'[y] = xct[y] /\ thread'[y] = thread[y]
  BY <1>3, LoggingIs DEF Logging
<1>6. /\ e.last # 0 => e.last \in Own(x)
      /\ e.undo # 0 => e.undo \in Own(x)
      /\ t.next # 0 => t.next \in Own(x)
      /\ t.back # 0 => t.back \in Own(x) /\ log[t.back] \in Update
      /\ t.at = "comp" => t.back # 0
  BY <1>3, <1>4 DEF Chain, At
<1>7. t.back # 0 /\ log[t.back].prev # 0 => log[t.back].prev \in Own(x)
  <2>1. t.back # 0 => t.back \in 1 .. Len(log) /\ log[t.back] \in Update \union Mark /\ log[t.back].x = x
    BY <1>6 DEF Own
  <2>. QED
    BY <1>4, <2>1 DEF Links
<1>8. log'[n].prev # 0 => log'[n].prev \in Own(x)
  BY <1>5, <1>6, <1>7
<1>9. \A i \in Own(x) : i \in 1 .. Len(log)
  BY DEF Own
<1>10. Links'
  <2>1. log'[n].prev <= Len(log)
    BY <1>1, <1>8, <1>9
  <2>2. \A i \in Len(log) + 1 .. Len(log') : i = n
    BY <1>1
  <2>. QED
    BY <1>1, <1>2, <1>4, <1>8, <2>1, <2>2, LinksGrow
<1>11. n \in Own(x)' /\ Own(x) \subseteq Own(x)'
  <2>1. n \in Own(x)'
    BY <1>1 DEF Own
  <2>. QED
    BY <1>2, <2>1, OwnGrows
<1>12. Chain(x)'
  <2>1. f.last \in Nat /\ u.back \in Nat
    BY <1>1, <1>3 DEF XctTypes, Entry, Thread
  <2>2. /\ f.undo # 0 => f.undo \in Own(x)'
        /\ u.next # 0 => u.next \in Own(x)'
        /\ u.back # 0 => u.back \in Own(x) /\ log[u.back] \in Update
    BY <1>5, <1>6, <1>7, <1>11
  <2>3. u.at \in {"logged", "comp"} => f.last # 0 /\ u.back < f.last /\ log'[f.last] \in Update
    <3>1. u.back < n
      BY <1>1, <1>9, <2>1, <2>2
    <3>. QED
      BY <1>1, <1>5, <3>1
  <2>. HIDE DEF n
  <2>. QED
    BY <1>2, <1>3, <1>4, <1>5, <1>11, <2>1, <2>2, <2>3, ChainGrows
<1>13. \A y \in Xct : y # x => Chain(y)'
  BY <1>2, <1>5, ChainKept DEF ChainInv
<1>. QED
  BY <1>2, <1>10, <1>12, <1>13 DEF ChainInv

\* compensate: the last record of the transaction becomes its own compensation.
LEMMA CompensateOwn ==
  ASSUME TypeOK, ChainInv, LatchInv, NEW x \in Xct, CompensateInLog(x)
  PROVE  /\ \A y : Own(y)' = Own(y)
         /\ \A i \in 1 .. Len(log) : log[i] \in Update <=> log'[i] \in Update
         /\ \A p : OfPage(p)' = OfPage(p)
<1>. DEFINE l == xct[x].last
            n == log[thread[x].back].prev
<1>1. /\ log' \in Seq(LogRec) /\ Len(log') = Len(log) /\ l \in 1 .. Len(log) /\ log[l] \in Update
      /\ log[l].x = x /\ n \in Nat
      /\ \A i \in 1 .. Len(log) : i # l => log'[i] = log[i]
      /\ log'[l] = [log[l] EXCEPT !.clr = TRUE, !.prev = n] /\ log'[l] \in Update
  BY CompensateTypes
<1>. HIDE DEF l, n
<1>2. log'[l].x = log[l].x /\ log'[l].page = log[l].page /\ log'[l].k = log[l].k
  BY <1>1 DEF Update
<1>3. \A i \in 1 .. Len(log) : /\ log[i] \in Update <=> log'[i] \in Update
                               /\ log[i] \in Update \union Mark <=> log'[i] \in Update \union Mark
                               /\ log[i] \in Update \union Mark => log'[i].x = log[i].x
                               /\ IsUpdate(log[i]) <=> IsUpdate(log'[i])
                               /\ IsUpdate(log[i]) => log[i].page = log'[i].page
  BY <1>1, <1>2 DEF IsUpdate
<1>4. \A y : Own(y)' = Own(y)
  BY <1>1, <1>3 DEF Own
<1>5. \A p : OfPage(p)' = OfPage(p)
  BY <1>1, <1>3 DEF OfPage
<1>. QED
  BY <1>3, <1>4, <1>5

\* Its kind, page and transaction stay.
LEMMA CompensateIs ==
  ASSUME TypeOK, ChainInv, LatchInv, NEW x \in Xct, CompensateInLog(x)
  PROVE  LET t == thread[x]  u == thread'[x] IN
         /\ UNCHANGED <<sealed, durable, low, master, pageVars, xct, chk, restartVars, crashes>>
         /\ \A y \in Xct : y # x => thread'[y] = thread[y]
         /\ t.at = "comp" /\ u.at = "undo" /\ u.back = 0 /\ u.next = log[t.back].prev
         /\ xct[x].last > sealed
<1>1. thread[x] \in Thread /\ thread \in [Xct -> Thread]
  BY DEF TypeOK
<1>. DEFINE n == log[thread[x].back].prev
<1>2. /\ thread[x].at = "comp" /\ xct[x].last > sealed
      /\ thread' = [thread EXCEPT ![x].at = "undo", ![x].back = NoLsn, ![x].next = n]
      /\ UNCHANGED <<sealed, durable, low, master, pageVars, xct, chk, restartVars, crashes>>
  BY DEF CompensateInLog, Undone, At
<1>3. n \in Nat
  BY <1>2, Records DEF At
<1>. HIDE DEF n
<1>4. thread'[x].at = "undo" /\ thread'[x].back = 0 /\ thread'[x].next = n
      /\ \A y \in Xct : y # x => thread'[y] = thread[y]
  BY <1>1, <1>2 DEF Thread, NoLsn
<1>. QED
  BY <1>2, <1>4 DEF n

\* It keeps the chain.
LEMMA ChainCompensate ==
  ASSUME TypeOK, ChainInv, LatchInv, NEW x \in Xct, CompensateInLog(x)
  PROVE  ChainInv'
<1>1. PICK l, b, n : l = xct[x].last /\ b = thread[x].back /\ n = log[b].prev
  OBVIOUS
<1>2. /\ Len(log') = Len(log) /\ Len(log) \in Nat /\ l \in 1 .. Len(log) /\ log[l] \in Update
      /\ log[l].x = x /\ n \in Nat
      /\ \A i \in 1 .. Len(log) : i # l => log'[i] = log[i]
      /\ log'[l] = [log[l] EXCEPT !.clr = TRUE, !.prev = n]
  <2>1. Len(log) \in Nat
    BY DEF TypeOK
  <2>2. n = log[thread[x].back].prev
    BY <1>1
  <2>3. /\ Len(log') = Len(log)
        /\ xct[x].last \in 1 .. Len(log) /\ log[xct[x].last] \in Update /\ log[xct[x].last].x = x
        /\ log[thread[x].back].prev \in Nat
        /\ \A i \in 1 .. Len(log) : i # xct[x].last => log'[i] = log[i]
        /\ log'[xct[x].last] = [log[xct[x].last] EXCEPT !.clr = TRUE, !.prev = log[thread[x].back].prev]
    BY CompensateTypes, Zenon
  <2>4. /\ Len(log') = Len(log) /\ l \in 1 .. Len(log) /\ log[l] \in Update /\ log[l].x = x /\ n \in Nat
        /\ \A i \in 1 .. Len(log) : i # l => log'[i] = log[i]
        /\ log'[l] = [log[l] EXCEPT !.clr = TRUE, !.prev = n]
    BY <1>1, <2>2, <2>3, Zenon
  <2>. QED
    BY <2>1, <2>4
<1>3. log'[l].x = x /\ log'[l].prev = n
  BY <1>2 DEF Update
<1>4. /\ UNCHANGED xct /\ \A y \in Xct : y # x => thread'[y] = thread[y]
      /\ thread[x].at = "comp" /\ thread'[x].at = "undo" /\ thread'[x].back = 0 /\ thread'[x].next = n
  BY <1>1, CompensateIs
<1>5. Chain(x) /\ Links /\ \A y : Own(y)' = Own(y)
  BY CompensateOwn DEF ChainInv
<1>6. \A i \in 1 .. Len(log) : log[i] \in Update <=> log'[i] \in Update
  BY CompensateOwn
<1>7. b # 0 /\ b \in Own(x) /\ log[b] \in Update /\ b < l
  BY <1>1, <1>4, <1>5 DEF Chain, At
<1>8. n < l /\ (n # 0 => n \in Own(x))
  <2>1. b \in 1 .. Len(log) /\ log[b] \in Update \union Mark /\ log[b].x = x
    BY <1>7 DEF Own
  <2>2. n < b /\ (n # 0 => n \in Own(x))
    BY <1>1, <1>5, <2>1 DEF Links
  <2>. QED
    BY <1>2, <1>7, <2>1, <2>2
<1>9. Links'
  <2>1. ASSUME NEW i \in 1 .. Len(log), log'[i] \in Update \union Mark
        PROVE  log'[i].prev < i /\ (log'[i].prev # 0 => log'[i].prev \in OwnIn(log', log'[i].x))
    <3>1. \A y : OwnIn(log', y) = Own(y)
      BY <1>5 DEF Own, OwnIn
    <3>2. CASE i = l
      BY <1>3, <1>8, <3>1, <3>2
    <3>3. CASE i # l
      BY <1>2, <1>5, <2>1, <3>1, <3>3 DEF Links
    <3>. QED
      BY <3>2, <3>3
  <2>. QED
    BY <1>2, <2>1 DEF Links, Own, OwnIn
<1>10. ASSUME NEW y \in Xct
       PROVE  Chain(y)'
  <2>1. PICK v, e, O : v = thread[y] /\ e = xct[y] /\ O = Own(y)
    OBVIOUS
  <2>2. O = Own(y)' /\ e = xct'[y] /\ (thread'[y] = v \/ y = x)
    BY <2>1, <1>4, <1>5
  <2>3. /\ e.last # 0 => e.last \in O
        /\ e.undo # 0 => e.undo \in O
        /\ v.next # 0 => v.next \in O
        /\ v.back # 0 => v.back \in O /\ log[v.back] \in Update
        /\ v.at \in {"logged", "comp"} => e.last # 0 /\ v.back < e.last /\ log[e.last] \in Update
        /\ v.at = "comp" => v.back # 0
    BY <2>1 DEF ChainInv, Chain, At
  <2>4. \A i \in O : i \in 1 .. Len(log)
    BY <2>1 DEF Own
  <2>5. CASE y # x
    BY <1>6, <2>2, <2>3, <2>4, <2>5 DEF Chain, At
  <2>6. CASE y = x
    BY <1>4, <1>8, <2>1, <2>2, <2>3, <2>6 DEF Chain, At
  <2>. QED
    BY <2>5, <2>6
<1>. QED
  BY <1>9, <1>10 DEF ChainInv

\* A step that leaves the transactions alone and perhaps adds a checkpoint's record.
LEMMA ChainOther ==
  ASSUME TypeOK, ChainInv, Extends, UNCHANGED <<xct, thread>>,
         \A i \in Len(log) + 1 .. Len(log') : log'[i] \in ChkptRec
  PROVE  ChainInv'
<1>1. \A r \in ChkptRec : r \notin Update \union Mark
  BY DEF ChkptRec, Bound, PageTab, XctTab, Update, Mark
<1>2. Links'
  BY <1>1, LinksGrow DEF ChainInv
<1>. QED
  BY <1>2, ChainKept DEF ChainInv

\* What a crash leaves of the log.
LEMMA CutLog ==
  ASSUME TypeOK, NEW k \in Nat, k <= Len(log), log' = SubSeq(log, 1, k)
  PROVE  /\ log' \in Seq(LogRec) /\ Len(log') = k
         /\ \A i \in 1 .. k : log'[i] = log[i]
BY DEF TypeOK

\* A crash leaves the durable log and the disk.
LEMMA CrashIs ==
  ASSUME TypeOK, LogInv, Crash
  PROVE  /\ \E k \in durable .. sealed : log' = SubSeq(log, 1, k) /\ sealed' = k /\ durable' = k
         /\ log' \in Seq(LogRec) /\ Len(log') <= Len(log) /\ durable <= Len(log')
         /\ sealed' = Len(log') /\ durable' = Len(log')
         /\ \A i \in 1 .. Len(log') : log'[i] = log[i]
         /\ \A x \in Xct : xct'[x] = NewXct /\ thread'[x] = Idle
         /\ \A p \in Page : frame'[p] = Absent /\ latch'[p] = NoXct
         /\ chk' \in Chkpt /\ chk'.at = "off" /\ mode' = "analysis" /\ hist' \in History
         /\ \A x \in Xct : hist'.wrote[x] = hist.wrote[x]
         /\ redo' = 0 /\ dptab' \in [Page -> Nat]
         /\ xct' \in [Xct -> Entry] /\ thread' \in [Xct -> Thread] /\ frame' \in [Page -> Frame]
         /\ copy' \in [Page -> OnVolume] /\ latch' \in [Page -> Xct \union {NoXct}]
         /\ UNCHANGED <<low, master, disk>>
<1>1. PICK k \in durable .. sealed : log' = SubSeq(log, 1, k) /\ sealed' = k /\ durable' = k
  BY DEF Crash
<1>2. k \in Nat /\ k <= Len(log) /\ durable <= k
  BY <1>1 DEF TypeOK, LogInv
<1>3. log' \in Seq(LogRec) /\ Len(log') = k /\ \A i \in 1 .. k : log'[i] = log[i]
  BY <1>1, <1>2, CutLog
<1>4. /\ xct' = [x \in Xct |-> NewXct] /\ thread' = [x \in Xct |-> Idle]
      /\ frame' = [p \in Page |-> Absent] /\ copy' = [p \in Page |-> CleanPage]
      /\ latch' = [p \in Page |-> NoXct] /\ dptab' = [p \in Page |-> NoLsn] /\ redo' = NoLsn
      /\ mode' = "analysis" /\ UNCHANGED <<low, master, disk>>
      /\ chk' = [NoChkpt EXCEPT !.taken = chk.taken]
      /\ hist' = [hist EXCEPT !.cut = @ \union {x \in Xct : xct[x].st # "none"}]
  BY DEF Crash
<1>5. chk' \in Chkpt /\ chk'.at = "off"
  BY <1>4, Starts DEF TypeOK, Chkpt
<1>6. hist' \in History /\ \A x \in Xct : hist'.wrote[x] = hist.wrote[x]
  BY <1>4 DEF TypeOK, History
<1>7. /\ xct' \in [Xct -> Entry] /\ thread' \in [Xct -> Thread] /\ frame' \in [Page -> Frame]
      /\ copy' \in [Page -> OnVolume] /\ latch' \in [Page -> Xct \union {NoXct}]
      /\ dptab' \in [Page -> Nat] /\ redo' = 0
  BY <1>4, Starts DEF NoLsn
<1>. QED
  BY <1>1, <1>2, <1>3, <1>4, <1>5, <1>6, <1>7

\* It keeps the links of what is left.
LEMMA ChainCrash ==
  ASSUME TypeOK, LogInv, ChainInv, Crash
  PROVE  ChainInv'
<1>1. /\ log' \in Seq(LogRec) /\ Len(log') <= Len(log) /\ Len(log) \in Nat /\ Len(log') \in Nat
      /\ \A i \in 1 .. Len(log') : log'[i] = log[i]
      /\ \A x \in Xct : xct'[x] = NewXct /\ thread'[x] = Idle
  <2>1. log' \in Seq(LogRec)
    BY CrashIs
  <2>. QED
    BY <2>1, CrashIs DEF TypeOK
<1>2. \A x \in Xct : Chain(x)'
  BY <1>1, Starts DEF Chain, At
<1>3. Links'
  <2>1. ASSUME NEW i \in 1 .. Len(log'), log'[i] \in Update \union Mark
        PROVE  log'[i].prev < i /\ (log'[i].prev # 0 => log'[i].prev \in OwnIn(log', log'[i].x))
    <3>1. i \in 1 .. Len(log) /\ log'[i] = log[i]
      BY <1>1
    <3>2. log[i].prev < i /\ (log[i].prev # 0 => log[i].prev \in Own(log[i].x))
      BY <2>1, <3>1 DEF ChainInv, Links
    <3>3. log[i].prev \in Nat
      BY <2>1, <3>1 DEF Update, Mark
    <3>4. log[i].prev # 0 => log[i].prev \in OwnIn(log', log[i].x)
      BY <1>1, <3>1, <3>2, <3>3 DEF Own, OwnIn
    <3>. QED
      BY <3>1, <3>2, <3>4
  <2>. QED
    BY <2>1 DEF Links, Own, OwnIn
<1>. QED
  BY <1>2, <1>3 DEF ChainInv

\* The analysis pass gives each transaction records of its own.
LEMMA ChainAnalyse ==
  ASSUME TypeOK, LogInv, ChainInv, LatchInv, Analyse
  PROVE  ChainInv'
<1>1. log' = log /\ UNCHANGED thread
  BY DEF Analyse, logVars
<1>2. Links' /\ \A y : Own(y)' = Own(y)
  BY <1>1, LinksStay, SameLog DEF ChainInv
<1>3. \A x \in Xct : thread[x].at = "idle"
  BY AnalyseIs DEF LatchInv, Restarting, At
<1>4. ASSUME NEW x \in Xct
      PROVE  Chain(x)'
  <2>1. (xct'[x].last # 0 => xct'[x].last \in Own(x)) /\ (xct'[x].undo # 0 => xct'[x].undo \in Own(x))
    BY AnalyseIs
  <2>2. /\ thread[x].next # 0 => thread[x].next \in Own(x)
        /\ thread[x].back # 0 => thread[x].back \in Own(x) /\ log[thread[x].back] \in Update
    BY DEF ChainInv, Chain
  <2>. QED
    BY <1>1, <1>2, <1>3, <2>1, <2>2 DEF Chain, At
<1>. QED
  BY <1>2, <1>4 DEF ChainInv

\* After the undo pass every thread is idle, and a transaction is as it was or gone.
LEMMA UndoEndsIs ==
  ASSUME TypeOK, UndoEnds
  PROVE  /\ UNCHANGED <<logVars, pageVars, chk, dptab, redo, hist, crashes>>
         /\ mode = "undo" /\ mode' \in {"up", "halted"}
         /\ \A x \in Xct : thread[x].at \in {"idle", "done"} /\ thread'[x] = Idle
         /\ \A x \in Xct : xct'[x] \in {xct[x], NewXct}
         /\ xct' \in [Xct -> Entry] /\ thread' \in [Xct -> Thread]
BY Starts DEF TypeOK, UndoEnds, Resting

\* The end of the undo pass keeps the chain.
LEMMA ChainUndoEnds ==
  ASSUME TypeOK, ChainInv, UndoEnds
  PROVE  ChainInv'
<1>1. log' = log
  BY UndoEndsIs DEF logVars
<1>2. Links' /\ \A y : Own(y)' = Own(y)
  BY <1>1, LinksStay, SameLog DEF ChainInv
<1>3. ASSUME NEW x \in Xct
      PROVE  Chain(x)'
  <2>1. thread'[x] = Idle /\ xct'[x] \in {xct[x], NewXct}
    BY UndoEndsIs
  <2>2. (xct[x].last # 0 => xct[x].last \in Own(x)) /\ (xct[x].undo # 0 => xct[x].undo \in Own(x))
    BY DEF ChainInv, Chain
  <2>. QED
    BY <1>2, <2>1, <2>2, Starts DEF Chain, At
<1>. QED
  BY <1>2, <1>3 DEF ChainInv

-----------------------------------------------------------------------------
(***************************************************************************)
(* The steps, by what they disturb.                                        *)
(***************************************************************************)
Checkpointing == ChkptBegin \/ ChkptPages \/ ChkptXcts \/ ChkptEnd
Flushing == FlushBegins \/ FlushEnds \/ SetMaster \/ Scavenge \/ RedoEnds \/ ForceEnds

\* Every step is a transaction's, the checkpoint's, the flusher's, of a page, or of restart.
LEMMA StepCases ==
  ASSUME Step
  PROVE  \/ \E x \in Xct : Quiet(x) \/ Logging(x) \/ CompensateInLog(x)
         \/ \E p \in Page : \/ Copy(p) \/ WriteCopy(p) \/ ChkptScan(p)
                            \/ (Drop(p) /\ (mode = "force" \/ mode # "force"))
         \/ Checkpointing \/ Flushing
         \/ Crash \/ Analyse \/ RedoRecord \/ UndoEnds
<1>1. CASE \E x \in Xct :
       \/ Begin(x) \/ Fix(x) \/ Unfix(x) \/ Insert(x) \/ Apply(x)
       \/ UndoRecord(x) \/ SkipRecord(x) \/ CompensateInLog(x) \/ LogCompensation(x)
       \/ RolledBack(x) \/ Commit(x) \/ Abort(x) \/ EndUnlogged(x) \/ LogFreeing(x) \/ Synced(x) \/ LogEnd(x)
       \/ RollBackFirst(x) \/ AbortFirst(x)
  <2>1. \A x : Abort(x) => Quits(x) /\ ~Restarting
    BY DEF Abort, Restarting
  <2>2. \A x : AbortFirst(x) => Quits(x) /\ ~Restarting
    BY DEF AbortFirst, Resting, Restarting
  <2>. QED
    BY <1>1, <2>1, <2>2 DEF Quiet, Logging
<1>2. CASE \E p \in Page : Copy(p) \/ WriteCopy(p) \/ Replace(p) \/ ChkptScan(p) \/ ForceOut(p)
  BY <1>2 DEF Replace, ForceOut
<1>. QED
  BY <1>1, <1>2 DEF Step, Checkpointing, Flushing

\* While restart reads and redoes the log, nothing else goes on.
LEMMA NotRestarting ==
  ASSUME TypeOK, LogInv, LatchInv
  PROVE  /\ \A x \in Xct : Quiet(x) \/ Logging(x) \/ CompensateInLog(x) => ~Restarting
         /\ Checkpointing \/ SetMaster \/ Scavenge => ~Restarting /\ mode = "up"
         /\ \A p \in Page : ChkptScan(p) => ~Restarting
         /\ UndoEnds => ~Restarting
<1>1. ASSUME Restarting, NEW x \in Xct
      PROVE  ~(Quiet(x) \/ Logging(x) \/ CompensateInLog(x))
  <2>1. thread[x].at = "idle" /\ mode \in {"analysis", "redo", "force"}
    BY <1>1 DEF LatchInv, Restarting, At
  <2>2. ~(Begin(x) \/ Fix(x) \/ Commit(x) \/ RollBackFirst(x))
    BY <2>1 DEF Begin, Fix, Commit, RollBackFirst, Resting
  <2>3. ~(Unfix(x) \/ Apply(x) \/ UndoRecord(x) \/ SkipRecord(x) \/ RolledBack(x) \/ EndUnlogged(x) \/ Synced(x))
    BY <2>1 DEF Unfix, Apply, UndoRecord, SkipRecord, RolledBack, EndUnlogged, Synced, At, Undoing
  <2>4. ~(Logging(x) \/ CompensateInLog(x))
    BY <2>1 DEF Logging, Insert, LogCompensation, LogFreeing, LogEnd, CompensateInLog, At
  <2>. QED
    BY <1>1, <2>2, <2>3, <2>4 DEF Quiet
<1>2. Checkpointing \/ SetMaster \/ Scavenge => ~Restarting /\ mode = "up"
  BY DEF Checkpointing, ChkptBegin, ChkptPages, ChkptXcts, ChkptEnd, SetMaster, Scavenge, LogInv, Restarting
<1>3. \A p \in Page : ChkptScan(p) => ~Restarting
  BY DEF ChkptScan, LogInv, Restarting
<1>4. UndoEnds => ~Restarting
  BY DEF UndoEnds, Resting, Restarting
<1>. QED
  BY <1>1, <1>2, <1>3, <1>4

-----------------------------------------------------------------------------
(***************************************************************************)
(* Types.                                                                  *)
(***************************************************************************)
\* The types of all but what belongs to the transactions.
StoreTypes ==
  /\ log \in Seq(LogRec)
  /\ sealed \in Nat /\ durable \in Nat /\ low \in Nat /\ master \in Nat
  /\ disk \in [Page -> OnVolume] /\ frame \in [Page -> Frame] /\ copy \in [Page -> OnVolume]
  /\ latch \in [Page -> Xct \union {NoXct}]
  /\ chk \in Chkpt /\ mode \in Mode /\ dptab \in [Page -> Nat] /\ redo \in Nat

\* The steps that leave the transactions alone keep their types.
LEMMA QuietTypes ==
  ASSUME Base, NEW x \in Xct, Quiet(x)
  PROVE  StoreTypes' /\ XctTypes'
<1>0. TypeOK /\ ChainInv /\ LatchInv /\ PageInv /\ UNCHANGED <<logVars, chk, restartVars, crashes>>
  BY QuietKeeps DEF Base
<1>1. CASE Begin(x) \/ SkipRecord(x) \/ RolledBack(x) \/ Commit(x) \/ EndUnlogged(x) \/ Synced(x)
  <2>1. UNCHANGED pageVars
    BY <1>1 DEF Begin, SkipRecord, RolledBack, Commit, EndUnlogged, Synced
  <2>. QED
    BY <1>0, <1>1, <2>1, XctQuiet DEF StoreTypes, TypeOK, logVars, pageVars, restartVars
<1>2. CASE Quits(x) \/ RollBackFirst(x)
  <2>1. UNCHANGED pageVars
    BY <1>2 DEF Quits, RollBackFirst
  <2>. QED
    BY <1>0, <1>2, <2>1, RollBackTypes DEF StoreTypes, TypeOK, logVars, pageVars, restartVars
<1>3. CASE Fix(x) \/ UndoRecord(x)
  <2>1. UNCHANGED <<disk, copy>>
    BY <1>3 DEF Fix, UndoRecord
  <2>. QED
    BY <1>0, <1>3, <2>1, FixTypes DEF StoreTypes, TypeOK, logVars, restartVars
<1>4. CASE Unfix(x)
  <2>1. UNCHANGED <<disk, copy>>
    BY <1>4 DEF Unfix
  <2>2. frame' \in [Page -> Frame] /\ latch' \in [Page -> Xct \union {NoXct}]
    BY <1>0, <1>4, UnfixIs
  <2>. QED
    BY <1>0, <1>4, <2>1, <2>2, XctQuiet DEF StoreTypes, TypeOK, logVars, restartVars
<1>5. CASE Apply(x)
  <2>1. UNCHANGED <<disk, copy>>
    BY <1>5 DEF Apply
  <2>2. XctTypes' /\ frame' \in [Page -> Frame] /\ latch' \in [Page -> Xct \union {NoXct}]
    BY <1>0, <1>5, ApplyTypes
  <2>. QED
    BY <1>0, <2>1, <2>2 DEF StoreTypes, TypeOK, logVars, restartVars
<1>. QED
  BY <1>1, <1>2, <1>3, <1>4, <1>5 DEF Quiet

\* Flushing, scavenging and the ends of the passes of restart keep all types.
LEMMA FlushingTypes ==
  ASSUME Base, Flushing
  PROVE  StoreTypes' /\ XctTypes'
<1>0. TypeOK
  BY DEF Base
<1>1. CASE FlushBegins \/ FlushEnds
  BY <1>0, <1>1 DEF FlushBegins, FlushEnds, StoreTypes, XctTypes, TypeOK, pageVars, restartVars
<1>2. CASE SetMaster
  <2>1. /\ master' = chk.lsn /\ chk' = [chk EXCEPT !.at = "scavenge"]
        /\ UNCHANGED <<log, sealed, durable, low, pageVars, xct, thread, restartVars, hist>>
    BY <1>2 DEF SetMaster
  <2>2. chk' \in Chkpt /\ master' \in Nat
    BY <1>0, <2>1 DEF TypeOK, Chkpt
  <2>. QED
    BY <1>0, <2>1, <2>2 DEF StoreTypes, XctTypes, TypeOK, pageVars, restartVars
<1>3. CASE Scavenge
  <2>1. UNCHANGED <<log, sealed, durable, master, pageVars, xct, thread, restartVars, hist>>
    BY <1>3 DEF Scavenge
  <2>2. chk' \in Chkpt /\ low' \in Nat
    BY <1>0, <1>3, ScavengeIs
  <2>. QED
    BY <1>0, <2>1, <2>2 DEF StoreTypes, XctTypes, TypeOK, pageVars, restartVars
<1>4. CASE RedoEnds
  BY <1>0, <1>4 DEF RedoEnds, StoreTypes, XctTypes, TypeOK, pageVars, logVars, Mode
<1>5. CASE ForceEnds
  BY <1>0, <1>5 DEF ForceEnds, StoreTypes, XctTypes, TypeOK, pageVars, logVars, Mode, NoLsn
<1>. QED
  BY <1>1, <1>2, <1>3, <1>4, <1>5 DEF Flushing

\* Every step keeps the types.
LEMMA TypeStep ==
  ASSUME Base, Step, UNCHANGED load
  PROVE  TypeOK'
<1>0. TypeOK /\ LogInv /\ ChainInv /\ LatchInv /\ PageInv
  BY DEF Base
<1>14. StoreTypes' /\ XctTypes' => TypeOK'
  BY <1>0 DEF TypeOK, StoreTypes, XctTypes
<1>1. CASE \E x \in Xct : Quiet(x)
  BY <1>0, <1>1, <1>14, QuietTypes
<1>2. CASE \E x \in Xct : Logging(x)
  <2>1. PICK x \in Xct : Logging(x)
    BY <1>2
  <2>2. UNCHANGED <<sealed, durable, low, master, pageVars, chk, restartVars, crashes>>
    BY <1>0, <2>1, LoggingIs
  <2>3. XctTypes' /\ log' \in Seq(LogRec)
    BY <1>0, <2>1, LogTypes DEF Logging
  <2>4. StoreTypes'
    BY <1>0, <2>2, <2>3 DEF StoreTypes, TypeOK, pageVars, restartVars
  <2>. QED
    BY <1>0, <2>3, <2>4, <1>14
<1>3. CASE \E x \in Xct : CompensateInLog(x)
  <2>1. PICK x \in Xct : CompensateInLog(x)
    BY <1>3
  <2>2. UNCHANGED <<sealed, durable, low, master, pageVars, chk, restartVars, crashes>>
    BY <1>0, <2>1, CompensateIs
  <2>3. XctTypes' /\ log' \in Seq(LogRec)
    BY <1>0, <2>1, CompensateTypes
  <2>4. StoreTypes'
    BY <1>0, <2>2, <2>3 DEF StoreTypes, TypeOK, pageVars, restartVars
  <2>. QED
    BY <1>0, <2>3, <2>4, <1>14
<1>4. CASE \E p \in Page : Copy(p)
  <2>1. PICK p \in Page : Copy(p)
    BY <1>4
  <2>2. UNCHANGED <<logVars, disk, latch, xct, thread, chk, restartVars, hist, crashes>>
    BY <2>1 DEF Copy
  <2>3. frame' \in [Page -> Frame] /\ copy' \in [Page -> OnVolume]
    BY <1>0, <2>1, CopyIs
  <2>4. StoreTypes'
    BY <1>0, <2>2, <2>3 DEF StoreTypes, TypeOK, logVars, restartVars
  <2>5. XctTypes'
    BY <1>0, <2>2 DEF XctTypes, TypeOK
  <2>. QED
    BY <1>0, <2>4, <2>5, <1>14
<1>5. CASE \E p \in Page : WriteCopy(p)
  <2>1. PICK p \in Page : WriteCopy(p)
    BY <1>5
  <2>2. UNCHANGED <<logVars, latch, xct, thread, chk, restartVars, hist, crashes>>
    BY <2>1 DEF WriteCopy
  <2>3. frame' \in [Page -> Frame] /\ copy' \in [Page -> OnVolume] /\ disk' \in [Page -> OnVolume]
    BY <1>0, <2>1, WriteCopyIs
  <2>4. StoreTypes'
    BY <1>0, <2>2, <2>3 DEF StoreTypes, TypeOK, logVars, restartVars
  <2>5. XctTypes'
    BY <1>0, <2>2 DEF XctTypes, TypeOK
  <2>. QED
    BY <1>0, <2>4, <2>5, <1>14
<1>6. CASE \E p \in Page : Drop(p)
  <2>1. PICK p \in Page : Drop(p)
    BY <1>6
  <2>2. UNCHANGED <<logVars, copy, latch, xct, thread, chk, restartVars, hist, crashes>>
    BY <2>1 DEF Drop
  <2>3. frame' \in [Page -> Frame] /\ disk' \in [Page -> OnVolume]
    BY <1>0, <2>1, DropIs
  <2>4. StoreTypes'
    BY <1>0, <2>2, <2>3 DEF StoreTypes, TypeOK, logVars, restartVars
  <2>5. XctTypes'
    BY <1>0, <2>2 DEF XctTypes, TypeOK
  <2>. QED
    BY <1>0, <2>4, <2>5, <1>14
<1>7. CASE \E p \in Page : ChkptScan(p)
  <2>1. PICK p \in Page : ChkptScan(p)
    BY <1>7
  <2>2. UNCHANGED <<logVars, pageVars, xct, thread, restartVars, hist, crashes>>
    BY <2>1 DEF ChkptScan
  <2>3. chk' \in Chkpt
    BY <1>0, <2>1, ChkptScanIs
  <2>. QED
    BY <1>0, <2>2, <2>3 DEF TypeOK, logVars, pageVars, restartVars
<1>8. CASE Checkpointing
  <2>1. /\ chk' \in Chkpt /\ log' \in Seq(LogRec)
        /\ UNCHANGED <<sealed, durable, low, master, pageVars, xct, thread, restartVars, hist, crashes>>
    BY <1>0, <1>8, ChkptLogs DEF Checkpointing
  <2>. QED
    BY <1>0, <2>1 DEF TypeOK, pageVars, restartVars
<1>9. CASE Flushing
  BY <1>0, <1>9, <1>14, FlushingTypes
<1>10. CASE Crash
  <2>1. /\ log' \in Seq(LogRec) /\ sealed' = Len(log') /\ durable' = Len(log')
        /\ chk' \in Chkpt /\ mode' = "analysis" /\ hist' \in History
        /\ \A x \in Xct : hist'.wrote[x] = hist.wrote[x]
        /\ redo' = 0 /\ dptab' \in [Page -> Nat]
        /\ xct' \in [Xct -> Entry] /\ thread' \in [Xct -> Thread] /\ frame' \in [Page -> Frame]
        /\ copy' \in [Page -> OnVolume] /\ latch' \in [Page -> Xct \union {NoXct}]
        /\ UNCHANGED <<low, master, disk>>
    BY <1>0, <1>10, CrashIs
  <2>2. Len(log') \in Nat
    BY <2>1
  <2>. QED
    BY <1>0, <2>1, <2>2 DEF TypeOK, Mode
<1>11. CASE Analyse
  <2>1. UNCHANGED <<logVars, pageVars, thread, chk, hist, crashes>>
    BY <1>11 DEF Analyse
  <2>2. mode' = "redo" /\ dptab' \in [Page -> Nat] /\ redo' \in Nat /\ xct' \in [Xct -> Entry]
    BY <1>0, <1>11, AnalyseIs
  <2>. QED
    BY <1>0, <2>1, <2>2 DEF TypeOK, Mode, logVars, pageVars
<1>12. CASE RedoRecord
  <2>1. UNCHANGED <<logVars, disk, copy, latch, xct, thread, chk, mode, hist, crashes>>
    BY <1>12 DEF RedoRecord
  <2>2. redo # 0
    BY <1>0, <1>12 DEF RedoRecord, LogInv
  <2>3. frame' \in [Page -> Frame] /\ dptab' \in [Page -> Nat] /\ redo' \in Nat
    BY <1>0, <1>12, <2>2, RedoIs
  <2>4. StoreTypes'
    BY <1>0, <2>1, <2>2, <2>3 DEF StoreTypes, TypeOK, logVars
  <2>5. XctTypes'
    BY <1>0, <2>1 DEF XctTypes, TypeOK
  <2>. QED
    BY <1>0, <2>4, <2>5, <1>14
<1>13. CASE UndoEnds
  <2>1. /\ UNCHANGED <<logVars, pageVars, chk, dptab, redo, hist, crashes>> /\ mode' \in {"up", "halted"}
        /\ xct' \in [Xct -> Entry] /\ thread' \in [Xct -> Thread]
    BY <1>0, <1>13, UndoEndsIs
  <2>. QED
    BY <1>0, <2>1 DEF TypeOK, Mode, logVars, pageVars
<1>. QED
  BY <1>1, <1>2, <1>3, <1>4, <1>5, <1>6, <1>7, <1>8, <1>9, <1>10, <1>11, <1>12, <1>13, StepCases

-----------------------------------------------------------------------------
(***************************************************************************)
(* The lsns that order everything.                                         *)
(***************************************************************************)
\* The checkpoint's steps, and the record each adds at n.
LEMMA ChkptSteps ==
  ASSUME TypeOK, Checkpointing
  PROVE  LET n == Len(log) + 1  c == chk  d == chk' IN
         \/ /\ c.at = "off" /\ mode = "up" /\ d.at = "scan" /\ d.todo = Page /\ d.lsn = n
            /\ Len(log') = n /\ log'[n].k = "begin" /\ \A p \in Page : d.tab[p] = 0
         \/ /\ c.at = "scan" /\ c.todo = {} /\ d.at = "xcts" /\ d.todo = {} /\ d.lsn = c.lsn /\ d.tab = c.tab
            /\ IF \E p \in Page : c.tab[p] # 0
               THEN Len(log') = n /\ log'[n].k = "bftab" /\ log'[n].tab = c.tab
               ELSE log' = log
         \/ /\ c.at = "xcts" /\ d.at = "end" /\ d.todo = c.todo /\ d.lsn = c.lsn /\ d.tab = c.tab
            /\ Len(log') = n /\ log'[n].k = "xtab"
         \/ /\ c.at = "end" /\ d.at = "sync" /\ d.todo = c.todo /\ d.lsn = c.lsn /\ d.tab = c.tab
            /\ Len(log') = n /\ log'[n].k = "cend"
<1>1. chk \in Chkpt /\ log \in Seq(LogRec) /\ CurrLsn = Len(log) + 1
  BY DEF TypeOK, CurrLsn
<1>2. \A r : LogsForCheckpoint(r) => Len(log') = Len(log) + 1 /\ log'[Len(log) + 1] = r
  BY <1>1 DEF LogsForCheckpoint, Logs
<1>3. CASE ChkptBegin
  <2>1. /\ mode = "up" /\ chk.at = "off" /\ LogsForCheckpoint([k |-> "begin"])
        /\ chk' = [NoChkpt EXCEPT !.at = "scan", !.todo = Page, !.lsn = CurrLsn, !.taken = chk.taken]
    BY <1>3 DEF ChkptBegin
  <2>2. Len(log') = Len(log) + 1 /\ log'[Len(log) + 1].k = "begin"
    BY <1>2, <2>1
  <2>3. chk'.at = "scan" /\ chk'.todo = Page /\ chk'.lsn = Len(log) + 1 /\ \A p \in Page : chk'.tab[p] = 0
    BY <1>1, <2>1 DEF NoChkpt, NoLsn
  <2>. QED
    BY <2>1, <2>2, <2>3
<1>4. CASE ChkptPages
  <2>1. chk.at = "scan" /\ chk.todo = {} /\ chk' = [chk EXCEPT !.at = "xcts"]
    BY <1>4 DEF ChkptPages
  <2>2. chk'.at = "xcts" /\ chk'.todo = {} /\ chk'.lsn = chk.lsn /\ chk'.tab = chk.tab
    BY <1>1, <2>1 DEF Chkpt
  <2>3. IF \E p \in Page : chk.tab[p] # 0
        THEN LogsForCheckpoint([k |-> "bftab", tab |-> chk.tab]) ELSE log' = log
    BY <1>4 DEF ChkptPages, NoLsn, logVars
  <2>. QED
    BY <1>2, <2>1, <2>2, <2>3
<1>5. CASE ChkptXcts
  <2>. DEFINE r == [k |-> "xtab", tab |-> [x \in Xct |-> ListedAs(x)]]
  <2>1. /\ chk.at = "xcts" /\ LogsForCheckpoint(r)
        /\ \E n : chk' = [chk EXCEPT !.at = "end", !.minXct = n]
    BY <1>5 DEF ChkptXcts
  <2>2. chk'.at = "end" /\ chk'.todo = chk.todo /\ chk'.lsn = chk.lsn /\ chk'.tab = chk.tab
    BY <1>1, <2>1 DEF Chkpt
  <2>3. r.k = "xtab"
    OBVIOUS
  <2>. HIDE DEF r
  <2>. QED
    BY <1>2, <2>1, <2>2, <2>3
<1>6. CASE ChkptEnd
  <2>1. chk.at = "end" /\ LogsForCheckpoint([k |-> "cend"]) /\ chk' = [chk EXCEPT !.at = "sync"]
    BY <1>6 DEF ChkptEnd
  <2>2. chk'.at = "sync" /\ chk'.todo = chk.todo /\ chk'.lsn = chk.lsn /\ chk'.tab = chk.tab
    BY <1>1, <2>1 DEF Chkpt
  <2>. QED
    BY <1>2, <2>1, <2>2
<1>. QED
  BY <1>3, <1>4, <1>5, <1>6 DEF Checkpointing

\* A step that leaves the lsns alone keeps their order.
LEMMA LogKept ==
  ASSUME TypeOK, TypeOK', LogInv, UNCHANGED <<sealed, durable, low, master, disk, chk, mode, redo>>,
         Len(log) <= Len(log'), Restarting => Len(log') = Len(log)
  PROVE  LogInv'
BY DEF TypeOK, LogInv, Restarting, Chkpt

\* Pages are written by the cleaner and by replacement; either looks at the durable lsn.
LEMMA LogWrites ==
  ASSUME TypeOK, TypeOK', LogInv, UNCHANGED <<logVars, chk, mode, redo>>,
         \A p \in Page : disk'[p].lsn <= durable
  PROVE  LogInv'
BY DEF TypeOK, LogInv, Restarting, logVars

\* chkpt sets the master record only once its end is durable.
LEMMA SetMasterIs ==
  ASSUME TypeOK, SetMaster
  PROVE  /\ chk.at = "sync" /\ \E i \in chk.lsn .. durable : log[i].k = "cend"
         /\ master' = chk.lsn /\ chk'.at = "scavenge" /\ chk'.lsn = chk.lsn /\ chk'.tab = chk.tab
         /\ chk'.todo = chk.todo
         /\ UNCHANGED <<log, sealed, durable, low, pageVars, xct, thread, restartVars, hist, crashes>>
BY DEF TypeOK, Chkpt, SetMaster

\* The order of the lsns under a flush, a new master record, scavenge and the passes' ends,
LEMMA LogFlushing ==
  ASSUME TypeOK, TypeOK', LogInv, Flushing
  PROVE  LogInv'
<1>0. Len(log) \in Nat /\ sealed \in Nat /\ durable \in Nat /\ master \in Nat /\ disk \in [Page -> OnVolume]
      /\ \A p \in Page : disk[p].lsn \in Nat
  BY DEF TypeOK, OnVolume
<1>1. CASE FlushBegins \/ FlushEnds
  <2>1. UNCHANGED <<log, low, master, disk, chk, mode, redo>>
    BY <1>1 DEF FlushBegins, FlushEnds, pageVars, restartVars
  <2>2. \/ sealed = durable /\ sealed < Len(log) /\ sealed' = Len(log) /\ durable' = durable
        \/ durable < sealed /\ durable' = sealed /\ sealed' = sealed
    BY <1>1 DEF FlushBegins, FlushEnds
  <2>. QED
    BY <1>0, <2>1, <2>2 DEF LogInv, Restarting
<1>2. CASE SetMaster
  <2>1. /\ UNCHANGED <<log, sealed, durable, low, mode, redo, disk>> /\ chk.at = "sync"
        /\ master' = chk.lsn /\ chk'.at = "scavenge" /\ chk'.lsn = chk.lsn
        /\ \E i \in chk.lsn .. durable : log[i].k = "cend"
    BY <1>2, SetMasterIs DEF pageVars, restartVars
  <2>2. chk.lsn \in Nat /\ low <= master
    BY DEF TypeOK, Chkpt, LogInv
  <2>3. chk.lsn <= durable
    BY <1>0, <2>1, <2>2
  <2>4. ~Restarting /\ master <= chk.lsn /\ chk.lsn \in Nat /\ low \in Nat /\ mode = "up" /\ chk.lsn <= Len(log)
    BY <2>1 DEF LogInv, Restarting, TypeOK, Chkpt
  <2>. QED
    BY <1>0, <2>1, <2>2, <2>3, <2>4 DEF LogInv, Restarting
<1>3. CASE Scavenge
  <2>1. UNCHANGED <<log, sealed, durable, master, mode, redo, disk>>
    BY <1>3 DEF Scavenge, pageVars, restartVars
  <2>2. chk.at = "scavenge" /\ chk'.at = "off" /\ low' \in Nat /\ low <= low'
        /\ (low' = low \/ low' <= chk.lsn)
    BY <1>3, ScavengeIs
  <2>. QED
    BY <2>1, <2>2 DEF LogInv, TypeOK, Restarting
<1>4. CASE RedoEnds
  BY <1>4 DEF RedoEnds, LogInv, TypeOK, Restarting, logVars, pageVars
<1>5. CASE ForceEnds
  BY <1>5 DEF ForceEnds, LogInv, TypeOK, Restarting, logVars, pageVars
<1>. QED
  BY <1>1, <1>2, <1>3, <1>4, <1>5 DEF Flushing

\* under the records of a checkpoint,
LEMMA LogCheckpointing ==
  ASSUME TypeOK, TypeOK', LogInv, Checkpointing
  PROVE  LogInv'
<1>1. /\ UNCHANGED <<sealed, durable, low, master, disk, mode, redo>> /\ Len(log) <= Len(log')
  <2>1. Len(log) \in Nat
    BY DEF TypeOK
  <2>. QED
    BY <2>1, ChkptLogs DEF Checkpointing, pageVars, restartVars
<1>2. PICK n, m \in Nat : n = Len(log) /\ m = Len(log')
  BY DEF TypeOK
<1>3. /\ \/ chk'.at = "scan" /\ chk.at = "off" /\ mode = "up" /\ chk'.lsn = n + 1 /\ m = n + 1
         \/ chk.at # "off" /\ chk'.at \in {"xcts", "end", "sync"} /\ chk'.lsn = chk.lsn
  BY <1>2, ChkptSteps
<1>4. ~Restarting'
  BY <1>1, <1>3 DEF LogInv, Restarting
<1>5. chk.lsn \in Nat /\ chk'.lsn \in Nat
  BY DEF TypeOK, Chkpt
<1>. QED
  BY <1>1, <1>2, <1>3, <1>4, <1>5 DEF LogInv, TypeOK

\* under a crash,
LEMMA LogCrash ==
  ASSUME TypeOK, TypeOK', LogInv, Crash
  PROVE  LogInv'
<1>0. log' \in Seq(LogRec) /\ durable \in Nat
  BY DEF TypeOK
<1>1. PICK k \in Nat, n \in Nat : k = durable /\ n = Len(log')
  BY <1>0
<1>2. /\ k <= n /\ sealed' = n /\ durable' = n /\ chk'.at = "off" /\ mode' = "analysis"
      /\ UNCHANGED <<low, master, disk>>
  BY <1>1, CrashIs
<1>3. /\ 1 <= master /\ master <= k /\ 1 <= low /\ low <= master /\ master \in Nat
      /\ \A p \in Page : disk[p].lsn <= k /\ disk[p].lsn \in Nat
  BY <1>1 DEF LogInv, TypeOK, OnVolume
<1>. QED
  BY <1>1, <1>2, <1>3 DEF LogInv

\* and under every step.
LEMMA LogStep ==
  ASSUME Base, TypeOK', Step
  PROVE  LogInv'
<1>0. TypeOK /\ LogInv /\ ChainInv /\ LatchInv /\ PageInv /\ Len(log) \in Nat
  BY DEF Base, TypeOK
<1>1. CASE \E x \in Xct : Quiet(x)
  <2>1. PICK x \in Xct : Quiet(x)
    BY <1>1
  <2>2. UNCHANGED disk
    <3>1. CASE Begin(x) \/ SkipRecord(x) \/ RolledBack(x) \/ Commit(x) \/ EndUnlogged(x) \/ Synced(x)
      BY <3>1 DEF Begin, SkipRecord, RolledBack, Commit, EndUnlogged, Synced, pageVars
    <3>2. CASE Quits(x) \/ RollBackFirst(x)
      BY <3>2 DEF Quits, RollBackFirst, pageVars
    <3>3. CASE Fix(x) \/ UndoRecord(x) \/ Unfix(x)
      BY <3>3 DEF Fix, UndoRecord, Unfix
    <3>4. CASE Apply(x)
      BY <3>4 DEF Apply
    <3>. QED
      BY <2>1, <3>1, <3>2, <3>3, <3>4 DEF Quiet
  <2>3. UNCHANGED <<logVars, chk, mode, redo>>
    BY <1>0, <2>1, QuietKeeps DEF restartVars
  <2>. QED
    BY <1>0, <2>2, <2>3, LogKept DEF logVars
<1>2. CASE \E x \in Xct : Logging(x) \/ CompensateInLog(x)
  <2>1. PICK x \in Xct : Logging(x) \/ CompensateInLog(x)
    BY <1>2
  <2>2. UNCHANGED <<sealed, durable, low, master, disk, chk, mode, redo>>
    BY <1>0, <2>1, LoggingIs, CompensateIs DEF pageVars, restartVars
  <2>3. Len(log) <= Len(log')
    <3>1. CASE Logging(x)
      <4>1. Len(log') = Len(log) + 1
        BY <1>0, <2>1, <3>1, LogTypes DEF Logging
      <4>. QED
        BY <1>0, <4>1
    <3>2. CASE CompensateInLog(x)
      <4>1. Len(log') = Len(log)
        BY <1>0, <2>1, <3>2, CompensateTypes
      <4>. QED
        BY <1>0, <4>1
    <3>. QED
      BY <2>1, <3>1, <3>2
  <2>. QED
    BY <1>0, <2>1, <2>2, <2>3, NotRestarting, LogKept
<1>3. CASE \E p \in Page : Copy(p)
  BY <1>0, <1>3, LogKept DEF Copy, logVars, restartVars
<1>4. CASE \E p \in Page : WriteCopy(p)
  <2>1. PICK p \in Page : WriteCopy(p)
    BY <1>4
  <2>2. UNCHANGED <<logVars, chk, mode, redo>>
    BY <2>1 DEF WriteCopy, restartVars
  <2>3. \A q \in Page : disk'[q].lsn <= durable
    BY <1>0, <2>1, WriteCopyIs DEF LogInv
  <2>. QED
    BY <1>0, <2>2, <2>3, LogWrites
<1>5. CASE \E p \in Page : Drop(p)
  <2>1. PICK p \in Page : Drop(p)
    BY <1>5
  <2>2. UNCHANGED <<logVars, chk, mode, redo>>
    BY <2>1 DEF Drop, restartVars
  <2>3. \A q \in Page : disk'[q].lsn <= durable
    BY <1>0, <2>1, DropIs DEF LogInv
  <2>. QED
    BY <1>0, <2>2, <2>3, LogWrites
<1>6. CASE \E p \in Page : ChkptScan(p)
  <2>1. PICK p \in Page : ChkptScan(p)
    BY <1>6
  <2>2. UNCHANGED <<logVars, mode, redo, disk>>
    BY <2>1 DEF ChkptScan, restartVars, pageVars
  <2>3. chk.at = "scan" /\ chk'.at = "scan" /\ chk'.lsn = chk.lsn
    BY <1>0, <2>1, ChkptScanIs
  <2>. QED
    BY <1>0, <2>2, <2>3 DEF LogInv, TypeOK, logVars, Restarting
<1>7. CASE Checkpointing
  BY <1>0, <1>7, LogCheckpointing
<1>8. CASE Flushing
  BY <1>0, <1>8, LogFlushing
<1>9. CASE Crash
  BY <1>0, <1>9, LogCrash
<1>10. CASE Analyse
  <2>1. UNCHANGED <<logVars, disk, chk>>
    BY <1>10 DEF Analyse, pageVars
  <2>2. mode = "analysis" /\ mode' = "redo" /\ redo' # 0
    BY <1>0, <1>10, AnalyseIs
  <2>. QED
    BY <1>0, <2>1, <2>2 DEF LogInv, TypeOK, logVars, Restarting
<1>11. CASE RedoRecord
  <2>1. UNCHANGED <<logVars, disk, chk, mode>>
    BY <1>11 DEF RedoRecord
  <2>2. mode = "redo" /\ redo' = redo + 1 /\ redo \in Nat
    BY <1>0, <1>11 DEF RedoRecord, TypeOK
  <2>. QED
    BY <1>0, <2>1, <2>2 DEF LogInv, TypeOK, logVars, Restarting
<1>12. CASE UndoEnds
  <2>1. UNCHANGED <<logVars, disk, chk, redo>> /\ mode = "undo" /\ mode' \in {"up", "halted"}
    BY <1>0, <1>12, UndoEndsIs DEF pageVars
  <2>. QED
    BY <1>0, <2>1 DEF LogInv, TypeOK, logVars, Restarting
<1>. QED
  BY <1>1, <1>2, <1>3, <1>4, <1>5, <1>6, <1>7, <1>8, <1>9, <1>10, <1>11, <1>12, StepCases

-----------------------------------------------------------------------------
(***************************************************************************)
(* Latches.                                                                *)
(***************************************************************************)
Latching == {"fixed", "logged"}

\* What x does has nothing to do with a latch.
Stays(x) ==
  \/ /\ thread'[x].at = thread[x].at /\ thread'[x].page = thread[x].page
     /\ xct'[x].last = xct[x].last
  \/ thread[x].at \notin Latching /\ thread'[x].at \notin Latching

\* The steps that take an EX latch.
LEMMA FixingIs ==
  ASSUME TypeOK, ChainInv, NEW x \in Xct, Fix(x) \/ UndoRecord(x)
  PROVE  \E p \in Page : /\ FixEX(x, p) /\ thread[x].at \notin Latching
                         /\ thread'[x].at = "fixed" /\ thread'[x].page = p
                         /\ UNCHANGED <<logVars, disk, copy, xct, chk, restartVars>>
<1>1. thread[x] \in Thread /\ thread \in [Xct -> Thread] /\ Idle \in Thread
  BY Starts DEF TypeOK
<1>2. CASE Fix(x)
  <2>. DEFINE n == Cardinality(hist.wrote[x]) + 1
              p == load.pages[x][n]
  <2>1. /\ FixEX(x, p) /\ thread[x].at = "idle" /\ n <= Len(load.pages[x]) /\ mode = "up"
        /\ UNCHANGED <<logVars, disk, copy, xct, chk, restartVars>>
        /\ thread' = [thread EXCEPT ![x] = [Idle EXCEPT !.at = "fixed", !.page = p, !.item = [xct |-> x, no |-> n]]]
    BY <1>2 DEF Fix, At
  <2>2. n \in Nat /\ n >= 1
    BY FS_CardinalityType DEF TypeOK
  <2>3. load.pages[x] \in Seq(Page)
    BY LoadsAssumption DEF TypeOK
  <2>4. p \in Page
    BY <2>1, <2>2, <2>3
  <2>. HIDE DEF p, n
  <2>5. thread'[x].at = "fixed" /\ thread'[x].page = p
    BY <1>1, <2>1 DEF Thread
  <2>. QED
    BY <2>1, <2>4, <2>5 DEF Latching
<1>3. CASE UndoRecord(x)
  <2>. DEFINE t == thread[x]  r == log[t.next]  p == r.page
  <2>1. /\ FixEX(x, p) /\ t.at = "undo" /\ IsUndo(r) /\ t.next > t.save
        /\ UNCHANGED <<logVars, disk, copy, xct, chk, restartVars>>
        /\ thread' = [thread EXCEPT ![x] = [t EXCEPT !.at = "fixed", !.page = p, !.item = r.item,
                                               !.kind = Opposite(r.k), !.back = t.next]]
    BY <1>3 DEF UndoRecord, Undoing, At
  <2>2. t.next # 0 /\ t.next \in Own(x)
    <3>1. t.next \in Nat /\ t.save \in Nat /\ Chain(x)
      BY <1>1 DEF Thread, ChainInv
    <3>. QED
      BY <2>1, <3>1 DEF Chain
  <2>3. p \in Page
    <3>1. r \in LogRec
      BY <2>2 DEF Own, TypeOK
    <3>. QED
      BY <2>1, <3>1, Kinds DEF IsUndo
  <2>. HIDE DEF r, p
  <2>4. thread'[x].at = "fixed" /\ thread'[x].page = p
    BY <1>1, <2>1 DEF Thread
  <2>. QED
    BY <2>1, <2>3, <2>4 DEF Latching
<1>. QED
  BY <1>2, <1>3

\* The steps that release it.
LEMMA ReleasingIs ==
  ASSUME Base, NEW x \in Xct, Unfix(x) \/ Apply(x)
  PROVE  LET p == thread[x].page IN
         /\ p \in Page /\ latch[p] = x /\ latch' = [latch EXCEPT ![p] = NoXct]
         /\ thread[x].at \in Latching /\ thread'[x].at \notin Latching
         /\ UNCHANGED <<logVars, disk, copy>>
         /\ frame'[p].in = frame[p].in /\ frame'[p].old = frame[p].old
         /\ \A q \in Page : q # p => frame'[q] = frame[q]
         /\ \/ /\ Unfix(x) /\ thread[x].at = "fixed"
               /\ frame'[p].lsn = frame[p].lsn /\ frame'[p].dirty = frame[p].dirty
               /\ frame'[p].rec = IF frame[p].dirty THEN frame[p].rec ELSE 0
            \/ /\ Apply(x) /\ thread[x].at = "logged"
               /\ xct[x].last \in OfPage(p) /\ frame[p].lsn < xct[x].last
               /\ frame'[p].lsn = xct[x].last /\ frame'[p].dirty /\ frame'[p].rec = frame[p].rec
<1>1. /\ TypeOK /\ ChainInv /\ LatchInv /\ PageInv
      /\ thread[x] \in Thread /\ thread \in [Xct -> Thread]
  BY DEF Base, TypeOK
<1>2. CASE Unfix(x)
  <2>1. thread[x].at = "fixed" /\ thread' = [thread EXCEPT ![x].at = "idle"] /\ UNCHANGED <<logVars, disk, copy>>
    BY <1>2 DEF Unfix, Goes, At
  <2>2. thread'[x].at = "idle"
    BY <1>1, <2>1 DEF Thread
  <2>3. PICK p \in Page : p = thread[x].page
    BY <1>1, <1>2, UnfixIs
  <2>4. /\ latch[p] = x /\ latch' = [latch EXCEPT ![p] = NoXct]
        /\ \A q \in Page : q # p => frame'[q] = frame[q]
        /\ frame'[p].in = frame[p].in /\ frame'[p].lsn = frame[p].lsn
        /\ frame'[p].dirty = frame[p].dirty /\ frame'[p].old = frame[p].old
        /\ frame'[p].rec = IF frame[p].dirty THEN frame[p].rec ELSE 0
    BY <1>1, <1>2, <2>3, UnfixIs
  <2>. QED
    BY <1>2, <2>1, <2>2, <2>3, <2>4 DEF Latching
<1>3. CASE Apply(x)
  <2>1. thread[x].at = "logged" /\ UNCHANGED <<logVars, disk, copy>>
        /\ (thread' = [thread EXCEPT ![x].at = "idle"] \/ thread' = [thread EXCEPT ![x].at = "comp"])
    BY <1>3 DEF Apply, Goes, At
  <2>2. thread'[x].at \in {"idle", "comp"}
    BY <1>1, <2>1 DEF Thread
  <2>3. PICK p \in Page : p = thread[x].page
    BY <1>1, <1>3, ApplyTypes
  <2>4. PICK l : l = xct[x].last
    OBVIOUS
  <2>5. /\ latch[p] = x /\ l \in OfPage(p) /\ frame[p].lsn < l
        /\ latch' = [latch EXCEPT ![p] = NoXct]
        /\ frame'[p].lsn = l /\ frame'[p].dirty /\ frame'[p].in = frame[p].in
        /\ frame'[p].rec = frame[p].rec /\ frame'[p].old = frame[p].old
        /\ \A q \in Page : q # p => frame'[q] = frame[q]
    BY <1>1, <1>3, <2>3, <2>4, ApplyTypes
  <2>. QED
    BY <1>3, <2>1, <2>2, <2>3, <2>4, <2>5 DEF Latching
<1>. QED
  BY <1>2, <1>3

\* All others leave the latches alone.
LEMMA StaysIs ==
  ASSUME TypeOK, ChainInv, LatchInv, NEW x \in Xct,
         \/ Begin(x) \/ SkipRecord(x) \/ RolledBack(x) \/ Commit(x) \/ Quits(x) \/ EndUnlogged(x)
         \/ Synced(x) \/ RollBackFirst(x)
         \/ LogCompensation(x) \/ LogFreeing(x) \/ LogEnd(x) \/ CompensateInLog(x)
  PROVE  Stays(x) /\ UNCHANGED pageVars
<1>1. /\ xct[x] \in Entry /\ thread[x] \in Thread /\ xct \in [Xct -> Entry] /\ thread \in [Xct -> Thread]
      /\ Idle \in Thread
  BY Starts DEF TypeOK
<1>2. CASE Begin(x)
  BY <1>1, <1>2 DEF Begin, Stays, Entry
<1>3. CASE SkipRecord(x)
  <2>1. thread[x].at = "undo" /\ UNCHANGED pageVars /\ \E n : thread' = [thread EXCEPT ![x].next = n]
    BY <1>3 DEF SkipRecord, Undoing, At
  <2>. QED
    BY <1>1, <2>1 DEF Stays, Latching, Thread
<1>4. CASE RolledBack(x)
  <2>1. thread[x].at = "undo" /\ UNCHANGED pageVars
        /\ thread' = [thread EXCEPT ![x] = [Idle EXCEPT !.at = IF xct[x].st = "aborting" THEN "ask" ELSE "idle"]]
    BY <1>4 DEF RolledBack, At
  <2>. QED
    BY <1>1, <2>1 DEF Stays, Latching, Thread
<1>5. CASE Commit(x) \/ EndUnlogged(x) \/ Synced(x)
  <2>1. thread[x].at \in {"idle", "ask", "sync"} /\ UNCHANGED pageVars
        /\ \E w \in {"ask", "done", "ending"} : thread' = [thread EXCEPT ![x].at = w]
    BY <1>5 DEF Commit, EndUnlogged, Synced, Goes, At
  <2>. QED
    BY <1>1, <2>1 DEF Stays, Latching, Thread
<1>6. CASE Quits(x) \/ RollBackFirst(x)
  <2>1. thread[x].at \in {"idle", "done"} /\ UNCHANGED pageVars /\ \E save : RollBackTo(x, save)
    BY <1>6 DEF Quits, RollBackFirst, Resting, At
  <2>2. thread'[x].at = "undo"
    BY <1>1, <2>1 DEF RollBackTo, Thread
  <2>. QED
    BY <2>1, <2>2 DEF Stays, Latching
<1>7. CASE LogCompensation(x)
  <2>1. thread[x].at = "comp" /\ UNCHANGED pageVars
        /\ \E n : thread' = [thread EXCEPT ![x].at = "undo", ![x].back = NoLsn, ![x].next = n]
    BY <1>7 DEF LogCompensation, Undone, At
  <2>. QED
    BY <1>1, <2>1 DEF Stays, Latching, Thread
<1>8. CASE LogFreeing(x) \/ LogEnd(x)
  <2>1. thread[x].at \in {"ask", "ending"} /\ UNCHANGED pageVars
        /\ \E w \in {"sync", "done"} : thread' = [thread EXCEPT ![x].at = w]
    BY <1>8 DEF LogFreeing, LogEnd, Goes, At
  <2>. QED
    BY <1>1, <2>1 DEF Stays, Latching, Thread
<1>9. CASE CompensateInLog(x)
  BY <1>9, CompensateIs DEF Stays, Latching
<1>. QED
  BY <1>2, <1>3, <1>4, <1>5, <1>6, <1>7, <1>8, <1>9

\* Latches when a thread fixes, logs, releases, or does something else.
LEMMA LatchFixing ==
  ASSUME TypeOK, LatchInv, NEW x \in Xct, NEW p \in Page, FixEX(x, p), ~Restarting', thread[x].at \notin Latching,
         thread'[x].at = "fixed", thread'[x].page = p,
         \A y \in Xct : y # x => thread'[y] = thread[y]
  PROVE  LatchInv'
<1>1. /\ latch[p] = NoXct /\ latch' = [latch EXCEPT ![p] = x] /\ latch \in [Page -> Xct \union {NoXct}]
      /\ \A q \in Page : q # p => frame'[q] = frame[q]
      /\ frame'[p].in /\ frame'[p].rec # 0
  <2>1. Len(log) + 1 # 0
    BY DEF TypeOK
  <2>2. /\ latch[p] = NoXct /\ latch' = [latch EXCEPT ![p] = x]
        /\ \A q \in Page : q # p => frame'[q] = frame[q]
    BY FixEXIs
  <2>3. /\ frame'[p].in
        /\ frame'[p].rec \in {Len(log) + 1, frame[p].rec} /\ (frame'[p].rec = Len(log) + 1 \/ frame[p].rec # 0)
    BY FixEXIs
  <2>. QED
    BY <2>1, <2>2, <2>3 DEF TypeOK
<1>2. \A y \in Xct : thread'[y].at \in Latching => thread'[y].page \in Page /\ latch'[thread'[y].page] = y
  BY <1>1, NoXctAssumption DEF LatchInv, Latching
<1>3. \A q \in Page : latch'[q] # NoXct => /\ thread'[latch'[q]].at \in Latching /\ thread'[latch'[q]].page = q
                                          /\ frame'[q].in /\ frame'[q].rec # 0
  <2>1. ASSUME NEW q \in Page, latch'[q] # NoXct
        PROVE  /\ thread'[latch'[q]].at \in Latching /\ thread'[latch'[q]].page = q
               /\ frame'[q].in /\ frame'[q].rec # 0
    <3>1. CASE q = p
      BY <1>1, <3>1 DEF Latching
    <3>2. CASE q # p
      <4>1. latch'[q] = latch[q] /\ frame'[q] = frame[q] /\ latch[q] \in Xct
        BY <1>1, <2>1, <3>2
      <4>2. /\ thread[latch[q]].at \in Latching /\ thread[latch[q]].page = q /\ frame[q].in /\ frame[q].rec # 0
        BY <2>1, <4>1 DEF LatchInv, Latching
      <4>. QED
        BY <4>1, <4>2
    <3>. QED
      BY <3>1, <3>2
  <2>. QED
    BY <2>1
<1>. QED
  BY <1>2, <1>3 DEF LatchInv, Latching

\* The latch that is released was held by the one who releases it.
LEMMA LatchReleasing ==
  ASSUME TypeOK, LatchInv, NEW x \in Xct, NEW p \in Page, ~Restarting',
         thread[x].page = p, thread[x].at \in Latching, thread'[x].at \notin Latching,
         latch' = [latch EXCEPT ![p] = NoXct],
         \A q \in Page : q # p => frame'[q] = frame[q],
         \A y \in Xct : y # x => thread'[y] = thread[y]
  PROVE  LatchInv'
<1>1. latch \in [Page -> Xct \union {NoXct}] /\ latch[p] = x
  BY DEF TypeOK, LatchInv, Latching
<1>2. \A y \in Xct : thread'[y].at \in Latching => thread'[y].page \in Page /\ latch'[thread'[y].page] = y
  BY <1>1 DEF LatchInv, Latching
<1>3. ASSUME NEW q \in Page, latch'[q] # NoXct
      PROVE  /\ thread'[latch'[q]].at \in Latching /\ thread'[latch'[q]].page = q
             /\ frame'[q].in /\ frame'[q].rec # 0
  <2>1. q # p /\ latch'[q] = latch[q] /\ frame'[q] = frame[q] /\ latch[q] \in Xct
    BY <1>1, <1>3
  <2>2. /\ thread[latch[q]].at \in Latching /\ thread[latch[q]].page = q /\ frame[q].in /\ frame[q].rec # 0
    BY <1>3, <2>1 DEF LatchInv, Latching
  <2>3. latch[q] # x
    BY <2>1, <2>2
  <2>. QED
    BY <2>1, <2>2, <2>3
<1>. QED
  BY <1>2, <1>3 DEF LatchInv, Latching

\* The frame of a latched page stays.
LEMMA LatchStays ==
  ASSUME TypeOK, LatchInv, latch' = latch,
         Restarting' => \A y \in Xct : thread'[y].at = "idle",
         \A y \in Xct : \/ thread'[y].at = thread[y].at /\ thread'[y].page = thread[y].page
                        \/ thread[y].at = "fixed" /\ thread'[y].at = "logged" /\ thread'[y].page = thread[y].page
                        \/ thread[y].at \notin Latching /\ thread'[y].at \notin Latching,
         \A q \in Page : latch[q] # NoXct => frame'[q].in /\ frame'[q].rec # 0
  PROVE  LatchInv'
<1>1. latch \in [Page -> Xct \union {NoXct}]
  BY DEF TypeOK
<1>2. \A y \in Xct : thread'[y].at \in Latching => thread'[y].page \in Page /\ latch'[thread'[y].page] = y
  BY DEF LatchInv, Latching
<1>3. ASSUME NEW q \in Page, latch[q] # NoXct
      PROVE  thread'[latch[q]].at \in Latching /\ thread'[latch[q]].page = q
  <2>1. latch[q] \in Xct /\ thread[latch[q]].at \in Latching /\ thread[latch[q]].page = q
    BY <1>1, <1>3 DEF LatchInv, Latching
  <2>. QED
    BY <2>1 DEF Latching
<1>. QED
  BY <1>2, <1>3 DEF LatchInv, Latching, At

\* While restart reads and redoes, no page is latched.
LEMMA Unlatched ==
  ASSUME TypeOK, LatchInv, Restarting
  PROVE  \A p \in Page : latch[p] = NoXct
<1>1. ASSUME NEW p \in Page, latch[p] # NoXct
      PROVE  FALSE
  <2>1. latch[p] \in Xct
    BY <1>1 DEF TypeOK
  <2>2. thread[latch[p]].at = "idle"
    BY <2>1 DEF LatchInv, At
  <2>3. thread[latch[p]].at \in {"fixed", "logged"}
    BY <1>1 DEF LatchInv
  <2>. QED
    BY <2>2, <2>3
<1>. QED
  BY <1>1

\* Every step keeps the latches' invariant.
LEMMA LatchStep ==
  ASSUME Base, Step
  PROVE  LatchInv'
<1>0. TypeOK /\ LogInv /\ ChainInv /\ LatchInv /\ PageInv
  BY DEF Base
<1>1. CASE \E x \in Xct : Quiet(x) \/ Logging(x) \/ CompensateInLog(x)
  <2>1. PICK x \in Xct : Quiet(x) \/ Logging(x) \/ CompensateInLog(x)
    BY <1>1
  <2>2. ~Restarting /\ UNCHANGED mode /\ \A y \in Xct : y # x => thread'[y] = thread[y]
    BY <1>0, <2>1, NotRestarting, QuietKeeps, LoggingIs, CompensateIs DEF restartVars
  <2>3. ~Restarting'
    BY <2>2 DEF Restarting
  <2>4. CASE Fix(x) \/ UndoRecord(x)
    BY <1>0, <2>1, <2>2, <2>3, <2>4, FixingIs, LatchFixing
  <2>5. CASE Unfix(x) \/ Apply(x)
    <3>1. PICK p : p = thread[x].page
      OBVIOUS
    <3>2. /\ p \in Page /\ latch' = [latch EXCEPT ![p] = NoXct]
          /\ thread[x].at \in Latching /\ thread'[x].at \notin Latching
          /\ \A q \in Page : q # p => frame'[q] = frame[q]
      BY <2>1, <2>5, <3>1, ReleasingIs
    <3>. QED
      BY <1>0, <2>1, <2>2, <2>3, <3>1, <3>2, LatchReleasing
  <2>6. CASE Insert(x)
    <3>1. thread[x].at = "fixed" /\ thread'[x].at = "logged" /\ thread'[x].page = thread[x].page
          /\ UNCHANGED pageVars
      BY <1>0, <2>1, <2>6, LoggingIs DEF Logging
    <3>. QED
      BY <1>0, <2>1, <2>2, <2>3, <3>1, LatchStays DEF pageVars, LatchInv
  <2>7. CASE \/ Begin(x) \/ SkipRecord(x) \/ RolledBack(x) \/ Commit(x) \/ Quits(x) \/ EndUnlogged(x)
             \/ Synced(x) \/ RollBackFirst(x)
             \/ LogCompensation(x) \/ LogFreeing(x) \/ LogEnd(x) \/ CompensateInLog(x)
    <3>1. Stays(x) /\ UNCHANGED pageVars
      BY <1>0, <2>1, <2>7, StaysIs
    <3>. QED
      BY <1>0, <2>1, <2>2, <2>3, <3>1, LatchStays DEF pageVars, LatchInv, Stays
  <2>. QED
    BY <2>1, <2>4, <2>5, <2>6, <2>7 DEF Quiet, Logging
<1>2. \A y \in Xct : Restarting => thread[y].at = "idle"
  BY <1>0 DEF LatchInv, At
<1>3. CASE \E p \in Page : Copy(p) \/ WriteCopy(p) \/ ChkptScan(p) \/ Drop(p)
  <2>1. PICK p \in Page : Copy(p) \/ WriteCopy(p) \/ ChkptScan(p) \/ Drop(p)
    BY <1>3
  <2>2. UNCHANGED <<latch, thread, mode>>
    BY <2>1 DEF Copy, WriteCopy, ChkptScan, Drop, pageVars, restartVars
  <2>3. \A q \in Page : latch[q] # NoXct => frame'[q].in /\ frame'[q].rec # 0
    <3>1. \A q \in Page : latch[q] # NoXct => frame[q].in /\ frame[q].rec # 0
      BY <1>0 DEF LatchInv
    <3>2. CASE ChkptScan(p)
      BY <3>1, <3>2 DEF ChkptScan, pageVars
    <3>3. CASE Copy(p)
      BY <1>0, <2>1, <3>1, <3>3, CopyIs
    <3>4. CASE WriteCopy(p)
      BY <1>0, <2>1, <3>1, <3>4, WriteCopyIs
    <3>5. CASE Drop(p)
      BY <1>0, <2>1, <3>1, <3>5, DropIs
    <3>. QED
      BY <2>1, <3>2, <3>3, <3>4, <3>5
  <2>. QED
    BY <1>0, <1>2, <2>2, <2>3, LatchStays DEF Restarting
<1>4. CASE Checkpointing \/ Flushing
  <2>1. UNCHANGED <<pageVars, thread>>
    BY <1>0, <1>4, ChkptLogs DEF Checkpointing, Flushing, FlushBegins, FlushEnds, SetMaster, Scavenge, RedoEnds, ForceEnds
  <2>2. Restarting' => Restarting
    <3>1. CASE Checkpointing \/ FlushBegins \/ FlushEnds \/ SetMaster \/ Scavenge
      <4>1. UNCHANGED mode
        BY <1>0, <3>1, ChkptLogs DEF Checkpointing, FlushBegins, FlushEnds, SetMaster, Scavenge, restartVars
      <4>. QED
        BY <4>1 DEF Restarting
    <3>2. CASE RedoEnds \/ ForceEnds
      BY <3>2 DEF RedoEnds, ForceEnds, Restarting
    <3>. QED
      BY <1>4, <3>1, <3>2 DEF Flushing
  <2>. QED
    BY <1>0, <1>2, <2>1, <2>2, LatchStays DEF pageVars, LatchInv
<1>5. CASE Crash
  BY <1>0, <1>5, CrashIs, Starts DEF LatchInv, At
<1>6. CASE Analyse
  <2>1. mode = "analysis" /\ UNCHANGED <<pageVars, thread>>
    BY <1>6 DEF Analyse
  <2>. QED
    BY <1>0, <1>2, <2>1, LatchStays DEF pageVars, LatchInv, Restarting
<1>7. CASE RedoRecord
  <2>1. mode = "redo" /\ UNCHANGED <<latch, thread>>
    BY <1>7 DEF RedoRecord
  <2>2. \A q \in Page : latch[q] = NoXct
    BY <1>0, <2>1, Unlatched DEF Restarting
  <2>. QED
    BY <1>0, <1>2, <2>1, <2>2, LatchStays DEF Restarting
<1>8. CASE UndoEnds
  <2>1. UNCHANGED pageVars /\ mode' \in {"up", "halted"}
        /\ \A x \in Xct : thread[x].at \in {"idle", "done"} /\ thread'[x] = Idle
    BY <1>0, <1>8, UndoEndsIs
  <2>. QED
    BY <1>0, <2>1, Starts, LatchStays DEF pageVars, LatchInv, Restarting, Latching
<1>. QED
  BY <1>1, <1>3, <1>4, <1>5, <1>6, <1>7, <1>8, StepCases

-----------------------------------------------------------------------------
(***************************************************************************)
(* What a step can do to a page, while the system is not redoing the log.  *)
(***************************************************************************)
\* The log may only get longer, by records that are no updates of p.
SameUpdates(p) == OfPage(p)' = OfPage(p) /\ Len(log) <= Len(log') /\ Len(log') \in Nat

Untouched(p) ==
  /\ frame'[p] = frame[p] /\ disk'[p] = disk[p] /\ copy'[p] = copy[p]
  /\ Logged(p)' = Logged(p) /\ SameUpdates(p) /\ latch'[p] = latch[p]

Fixed(p) ==
  /\ disk'[p] = disk[p] /\ copy'[p] = copy[p]
  /\ Logged(p) = 0 /\ Logged(p)' = 0 /\ SameUpdates(p) /\ latch[p] = NoXct /\ latch'[p] # NoXct
  /\ frame'[p].in /\ frame'[p].lsn = Lsn(p)
  /\ IF frame[p].in
     THEN /\ frame'[p].dirty = frame[p].dirty /\ frame'[p].old = frame[p].old
          /\ frame'[p].rec = IF frame[p].rec = 0 THEN Len(log) + 1 ELSE frame[p].rec
     ELSE ~frame'[p].dirty /\ frame'[p].old = 0 /\ frame'[p].rec = Len(log) + 1

Inserted(p) ==
  /\ frame'[p] = frame[p] /\ disk'[p] = disk[p] /\ copy'[p] = copy[p] /\ latch'[p] = latch[p]
  /\ Logged(p) = 0 /\ Logged(p)' = Len(log) + 1 /\ latch[p] # NoXct
  /\ OfPage(p)' = OfPage(p) \union {Len(log) + 1} /\ Len(log') = Len(log) + 1
  /\ frame[p].in /\ frame[p].rec # 0

Released(p) ==
  /\ disk'[p] = disk[p] /\ copy'[p] = copy[p] /\ SameUpdates(p) /\ latch[p] # NoXct
  /\ frame'[p].in = frame[p].in /\ frame'[p].old = frame[p].old /\ frame[p].in /\ frame[p].rec # 0
  /\ Logged(p)' = 0
  /\ \/ /\ Logged(p) = 0 /\ frame'[p].lsn = frame[p].lsn /\ frame'[p].dirty = frame[p].dirty
        /\ frame'[p].rec = IF frame[p].dirty THEN frame[p].rec ELSE 0
     \/ /\ Logged(p) # 0 /\ frame'[p].lsn = Logged(p) /\ frame'[p].dirty /\ frame'[p].rec = frame[p].rec

Copied(p) ==
  /\ disk'[p] = disk[p] /\ SameUpdates(p) /\ latch[p] = NoXct /\ latch'[p] = NoXct
  /\ Logged(p) = 0 /\ Logged(p)' = 0
  /\ frame[p].dirty /\ frame[p].old = 0
  /\ frame'[p].in = frame[p].in /\ frame'[p].lsn = frame[p].lsn
  /\ ~frame'[p].dirty /\ frame'[p].rec = 0 /\ frame'[p].old = frame[p].rec
  /\ copy'[p].lsn = frame[p].lsn

Written(p) ==
  /\ Logged(p)' = Logged(p) /\ SameUpdates(p) /\ latch'[p] = latch[p]
  /\ frame[p].old # 0
  /\ frame'[p].in = frame[p].in /\ frame'[p].lsn = frame[p].lsn
  /\ frame'[p].dirty = frame[p].dirty /\ frame'[p].rec = frame[p].rec /\ frame'[p].old = 0
  /\ disk'[p].lsn = copy[p].lsn

Dropped(p) ==
  /\ SameUpdates(p) /\ Logged(p) = 0 /\ Logged(p)' = 0 /\ latch[p] = NoXct /\ latch'[p] = NoXct
  /\ frame[p].in /\ frame[p].old = 0 /\ frame'[p] = Absent
  /\ disk'[p].lsn = IF frame[p].dirty THEN frame[p].lsn ELSE disk[p].lsn

Touch(p) ==
  Untouched(p) \/ Fixed(p) \/ Inserted(p) \/ Released(p) \/ Copied(p) \/ Written(p) \/ Dropped(p)

\* Every touch keeps frame, copy and disk of a page in order,
LEMMA PageKept ==
  ASSUME TypeOK, TypeOK', NEW p \in Page, PageOk(p), disk[p].lsn <= Len(log), Touch(p)
  PROVE  PageOk(p)'
<1>1. /\ frame[p].lsn \in Nat /\ frame[p].rec \in Nat /\ frame[p].old \in Nat /\ disk[p].lsn \in Nat
      /\ copy[p].lsn \in Nat /\ Len(log) \in Nat /\ frame[p].in \in BOOLEAN /\ frame[p].dirty \in BOOLEAN
  <2>1. /\ frame \in [Page -> Frame] /\ disk \in [Page -> OnVolume] /\ copy \in [Page -> OnVolume]
        /\ log \in Seq(LogRec)
    BY DEF TypeOK
  <2>2. Len(log) \in Nat
    BY <2>1
  <2>. QED
    BY <2>1, <2>2, FrameFields, DiskFields
<1>2. /\ frame'[p].lsn \in Nat /\ frame'[p].rec \in Nat /\ frame'[p].old \in Nat /\ disk'[p].lsn \in Nat
      /\ copy'[p].lsn \in Nat /\ Len(log') \in Nat /\ frame'[p].in \in BOOLEAN /\ frame'[p].dirty \in BOOLEAN
  <2>1. /\ frame' \in [Page -> Frame] /\ disk' \in [Page -> OnVolume] /\ copy' \in [Page -> OnVolume]
        /\ log' \in Seq(LogRec)
    BY DEF TypeOK
  <2>2. Len(log') \in Nat
    BY <2>1
  <2>. QED
    BY <2>1, <2>2, FrameFields, DiskFields
<1>3. \A i \in OfPage(p) : i \in 1 .. Len(log)
  BY DEF OfPage
<1>4. CASE Untouched(p)
  BY <1>1, <1>2, <1>4 DEF Untouched, PageOk, SameUpdates
<1>5. CASE Fixed(p)
  BY <1>1, <1>2, <1>5 DEF Fixed, PageOk, SameUpdates, Lsn
<1>6. CASE Inserted(p)
  BY <1>1, <1>2, <1>6 DEF Inserted, PageOk
<1>7. CASE Released(p)
  <2>1. /\ ~frame'[p].in => frame'[p] = Absent
        /\ frame'[p].in => disk'[p].lsn <= frame'[p].lsn
        /\ frame'[p].lsn <= Len(log')
    BY <1>1, <1>2, <1>3, <1>7 DEF Released, PageOk, SameUpdates
  <2>2. frame'[p].rec <= Len(log') + 1 /\ (frame'[p].dirty => frame'[p].rec # 0)
    BY <1>1, <1>2, <1>3, <1>7 DEF Released, PageOk, SameUpdates
  <2>3. frame'[p].old # 0 => disk'[p].lsn <= copy'[p].lsn /\ copy'[p].lsn <= frame'[p].lsn
    BY <1>1, <1>2, <1>3, <1>7 DEF Released, PageOk
  <2>4. Logged(p)' # 0 => Logged(p)' \in OfPage(p)' /\ frame'[p].lsn < Logged(p)'
    BY <1>7 DEF Released
  <2>. QED
    BY <2>1, <2>2, <2>3, <2>4 DEF PageOk
<1>8. CASE Copied(p)
  BY <1>1, <1>2, <1>8, Starts DEF Copied, PageOk, SameUpdates
<1>9. CASE Written(p)
  BY <1>1, <1>2, <1>9, Starts DEF Written, PageOk, SameUpdates
<1>10. CASE Dropped(p)
  BY <1>1, <1>2, <1>10, Starts DEF Dropped, PageOk, SameUpdates
<1>. QED
  BY <1>4, <1>5, <1>6, <1>7, <1>8, <1>9, <1>10 DEF Touch

\* and finds the updates that are not on disk where they should be.
LEMMA RunKept ==
  ASSUME TypeOK, TypeOK', NEW p \in Page, PageOk(p), RunOk(p), Touch(p)
  PROVE  RunOk(p)'
<1>1. /\ frame[p].lsn \in Nat /\ frame[p].rec \in Nat /\ frame[p].old \in Nat /\ disk[p].lsn \in Nat
      /\ copy[p].lsn \in Nat /\ Len(log) \in Nat /\ frame[p].in \in BOOLEAN /\ frame[p].dirty \in BOOLEAN
  <2>1. /\ frame \in [Page -> Frame] /\ disk \in [Page -> OnVolume] /\ copy \in [Page -> OnVolume]
        /\ log \in Seq(LogRec)
    BY DEF TypeOK
  <2>2. Len(log) \in Nat
    BY <2>1
  <2>. QED
    BY <2>1, <2>2, FrameFields, DiskFields
<1>2. /\ frame'[p].lsn \in Nat /\ frame'[p].rec \in Nat /\ frame'[p].old \in Nat /\ disk'[p].lsn \in Nat
      /\ copy'[p].lsn \in Nat /\ Len(log') \in Nat /\ frame'[p].in \in BOOLEAN /\ frame'[p].dirty \in BOOLEAN
  <2>1. /\ frame' \in [Page -> Frame] /\ disk' \in [Page -> OnVolume] /\ copy' \in [Page -> OnVolume]
        /\ log' \in Seq(LogRec)
    BY DEF TypeOK
  <2>2. Len(log') \in Nat
    BY <2>1
  <2>. QED
    BY <2>1, <2>2, FrameFields, DiskFields
<1>3. \A i \in OfPage(p) : i \in 1 .. Len(log)
  BY DEF OfPage
<1>4. CASE Untouched(p)
  BY <1>4 DEF Untouched, RunOk, SameUpdates, Lsn, Marked
<1>5. CASE Fixed(p)
  <2>1. SUFFICES ASSUME NEW i \in OfPage(p)
                 PROVE  /\ i <= Lsn(p)' \/ i = Logged(p)'
                        /\ frame'[p].in /\ frame'[p].old = 0 /\ disk'[p].lsn < i => Marked(p, i)'
                        /\ frame'[p].old # 0 /\ copy'[p].lsn < i => Marked(p, i)'
                        /\ frame'[p].old # 0 /\ disk'[p].lsn < i /\ i <= copy'[p].lsn => frame'[p].old <= i
    BY <1>5 DEF Fixed, SameUpdates, RunOk
  <2>2. i \in 1 .. Len(log) /\ i <= Lsn(p) /\ Lsn(p)' = Lsn(p)
    BY <1>3, <1>5 DEF Fixed, RunOk, Lsn
  <2>3. CASE frame[p].in
    BY <1>1, <1>2, <1>5, <2>2, <2>3 DEF Fixed, RunOk, Marked
  <2>4. CASE ~frame[p].in
    <3>1. frame'[p].old = 0 /\ Lsn(p) = disk[p].lsn /\ disk'[p] = disk[p]
      BY <1>5, <2>4 DEF Fixed, Lsn
    <3>. QED
      BY <1>1, <2>2, <3>1
  <2>. QED
    BY <2>3, <2>4
<1>6. CASE Inserted(p)
  BY <1>1, <1>2, <1>3, <1>6 DEF Inserted, PageOk, RunOk, Marked, Lsn
<1>7. CASE Released(p)
  BY <1>1, <1>2, <1>3, <1>7 DEF Released, PageOk, RunOk, Marked, SameUpdates, Lsn
<1>8. CASE Copied(p)
  BY <1>1, <1>2, <1>3, <1>8, Starts DEF Copied, PageOk, RunOk, Marked, SameUpdates, Lsn
<1>9. CASE Written(p)
  BY <1>1, <1>2, <1>3, <1>9, Starts DEF Written, PageOk, RunOk, Marked, SameUpdates, Lsn
<1>10. CASE Dropped(p)
  BY <1>1, <1>2, <1>3, <1>10, Starts DEF Dropped, PageOk, RunOk, Marked, SameUpdates, Lsn
<1>. QED
  BY <1>4, <1>5, <1>6, <1>7, <1>8, <1>9, <1>10 DEF Touch

\* What is logged and not yet marked stays so, if the latch stays.
LEMMA LoggedStays ==
  ASSUME TypeOK, LatchInv, NEW q \in Page, latch'[q] = latch[q],
         \A y \in Xct : latch[q] = y => thread'[y].at = thread[y].at /\ xct'[y].last = xct[y].last
  PROVE  Logged(q)' = Logged(q)
<1>1. latch[q] \in Xct \union {NoXct}
  BY DEF TypeOK
<1>. QED
  BY <1>1 DEF Logged, At

\* Updates of pages, as the log grows.
LEMMA UpdatesGrow ==
  ASSUME TypeOK, log' \in Seq(LogRec), Len(log') = Len(log) + 1, \A i \in 1 .. Len(log) : log'[i] = log[i],
         NEW p \in Page
  PROVE  LET n == Len(log) + 1 IN
         OfPage(p)' = IF IsUpdate(log'[n]) /\ log'[n].page = p THEN OfPage(p) \union {n} ELSE OfPage(p)
<1>1. Len(log) \in Nat
  BY DEF TypeOK
<1>2. \A i : i \in 1 .. Len(log') <=> i \in 1 .. Len(log) \/ i = Len(log) + 1
  BY <1>1
<1>. QED
  BY <1>2 DEF OfPage

\* The log stays, and so do the updates of a page.
LEMMA SameLogUpdates ==
  ASSUME TypeOK, log' = log
  PROVE  \A p \in Page : SameUpdates(p)
BY DEF TypeOK, SameUpdates, OfPage

\* A transaction's step, seen from a page.
LEMMA TouchFixing ==
  ASSUME Base, NEW x \in Xct, Fix(x) \/ UndoRecord(x), NEW q \in Page
  PROVE  Touch(q)
<1>0. TypeOK /\ ChainInv /\ LatchInv /\ UNCHANGED log /\ \A y \in Xct : y # x => xct'[y] = xct[y] /\ thread'[y] = thread[y]
  BY QuietKeeps DEF Base, Quiet, logVars
<1>1. PICK p \in Page : /\ FixEX(x, p) /\ thread[x].at \notin Latching
                        /\ thread'[x].at = "fixed" /\ UNCHANGED <<disk, copy>>
  BY <1>0, FixingIs
<1>2. /\ latch[p] = NoXct /\ latch' = [latch EXCEPT ![p] = x] /\ latch \in [Page -> Xct \union {NoXct}]
      /\ \A r \in Page : r # p => frame'[r] = frame[r]
      /\ frame'[p].in /\ frame'[p].lsn = Lsn(p)
      /\ IF frame[p].in
         THEN /\ frame'[p].dirty = frame[p].dirty /\ frame'[p].old = frame[p].old
              /\ frame'[p].rec = IF frame[p].rec = 0 THEN Len(log) + 1 ELSE frame[p].rec
         ELSE ~frame'[p].dirty /\ frame'[p].old = 0 /\ frame'[p].rec = Len(log) + 1
  BY <1>0, <1>1, FixEXIs DEF TypeOK
<1>3. SameUpdates(q)
  BY <1>0, SameLogUpdates
<1>4. CASE q = p
  <2>1. Logged(p) = 0
    BY <1>2 DEF Logged
  <2>2. Logged(p)' = 0 /\ latch'[p] # NoXct
    BY <1>1, <1>2, NoXctAssumption DEF Logged, At
  <2>. QED
    BY <1>1, <1>2, <1>3, <1>4, <2>1, <2>2 DEF Touch, Fixed
<1>5. CASE q # p
  <2>1. latch'[q] = latch[q] /\ latch[q] # x
    BY <1>0, <1>1, <1>2, <1>5, NoXctAssumption DEF LatchInv, Latching
  <2>2. Logged(q)' = Logged(q)
    BY <1>0, <2>1, LoggedStays
  <2>. QED
    BY <1>1, <1>2, <1>3, <1>5, <2>1, <2>2 DEF Touch, Untouched
<1>. QED
  BY <1>4, <1>5

\* Releasing the latch marks the page.
LEMMA TouchReleasing ==
  ASSUME Base, NEW x \in Xct, Unfix(x) \/ Apply(x), NEW q \in Page
  PROVE  Touch(q)
<1>0. TypeOK /\ ChainInv /\ LatchInv /\ UNCHANGED log /\ \A y \in Xct : y # x => xct'[y] = xct[y] /\ thread'[y] = thread[y]
  BY QuietKeeps DEF Base, Quiet, logVars
<1>1. PICK p, l : p = thread[x].page /\ l = xct[x].last
  OBVIOUS
<1>2. /\ p \in Page /\ latch[p] = x /\ latch' = [latch EXCEPT ![p] = NoXct]
      /\ thread[x].at \in Latching /\ thread'[x].at \notin Latching
      /\ UNCHANGED <<logVars, disk, copy>>
      /\ frame'[p].in = frame[p].in /\ frame'[p].old = frame[p].old
      /\ \A r \in Page : r # p => frame'[r] = frame[r]
      /\ \/ /\ thread[x].at = "fixed"
            /\ frame'[p].lsn = frame[p].lsn /\ frame'[p].dirty = frame[p].dirty
            /\ frame'[p].rec = IF frame[p].dirty THEN frame[p].rec ELSE 0
         \/ /\ thread[x].at = "logged"
            /\ l \in OfPage(p) /\ frame[p].lsn < l
            /\ frame'[p].lsn = l /\ frame'[p].dirty /\ frame'[p].rec = frame[p].rec
  BY <1>1, ReleasingIs
<1>3. SameUpdates(q) /\ latch \in [Page -> Xct \union {NoXct}] /\ x # NoXct
  BY <1>0, SameLogUpdates, NoXctAssumption DEF TypeOK
<1>4. CASE q = p
  <2>1. Logged(p) = IF thread[x].at = "logged" THEN l ELSE 0
    BY <1>1, <1>2, <1>3 DEF Logged, At
  <2>2. Logged(p)' = 0
    BY <1>2, <1>3 DEF Logged
  <2>3. l \in OfPage(p) => l # 0
    BY DEF OfPage
  <2>4. frame[p].in /\ frame[p].rec # 0
    BY <1>0, <1>2, <1>3 DEF LatchInv
  <2>. QED
    BY <1>2, <1>3, <1>4, <2>1, <2>2, <2>3, <2>4 DEF Touch, Released
<1>5. CASE q # p
  <2>1. latch'[q] = latch[q] /\ latch[q] # x
    BY <1>0, <1>1, <1>2, <1>3, <1>5 DEF LatchInv
  <2>2. Logged(q)' = Logged(q)
    BY <1>0, <2>1, LoggedStays
  <2>. QED
    BY <1>2, <1>3, <1>5, <2>1, <2>2 DEF Touch, Untouched
<1>. QED
  BY <1>4, <1>5

\* An insert leaves an update of the latched page to be marked.
LEMMA TouchInsert ==
  ASSUME Base, NEW x \in Xct, Insert(x), NEW q \in Page
  PROVE  Touch(q)
<1>0. TypeOK /\ ChainInv /\ LatchInv
  BY DEF Base
<1>1. PICK p, n : p = thread[x].page /\ n = Len(log) + 1
  OBVIOUS
<1>2. /\ UNCHANGED pageVars /\ \A y \in Xct : y # x => xct'[y] = xct[y] /\ thread'[y] = thread[y]
      /\ xct'[x].last = n /\ thread'[x].at = "logged" /\ thread[x].at = "fixed"
      /\ log'[n].page = p
  BY <1>0, <1>1, LoggingIs DEF Logging
<1>3. /\ log' \in Seq(LogRec) /\ Len(log') = n /\ \A i \in 1 .. Len(log) : log'[i] = log[i]
      /\ log'[n] \in Update /\ n \in Nat /\ Len(log) \in Nat
  <2>1. Len(log) \in Nat
    BY <1>0 DEF TypeOK
  <2>. QED
    BY <1>0, <1>1, <2>1, LogTypes
<1>4. p \in Page /\ latch[p] = x /\ x # NoXct
  BY <1>0, <1>1, <1>2, NoXctAssumption DEF LatchInv
<1>5. IsUpdate(log'[n])
  BY <1>3 DEF Update, IsUpdate
<1>6. CASE q = p
  <2>1. Logged(p) = 0 /\ Logged(p)' = n
    BY <1>2, <1>4 DEF Logged, At, pageVars
  <2>2. frame[p].in /\ frame[p].rec # 0
    BY <1>0, <1>4 DEF LatchInv
  <2>3. OfPage(p)' = OfPage(p) \union {n}
    BY <1>0, <1>1, <1>2, <1>3, <1>4, <1>5, UpdatesGrow
  <2>. QED
    BY <1>1, <1>2, <1>3, <1>4, <1>6, <2>1, <2>2, <2>3 DEF Touch, Inserted, pageVars
<1>7. CASE q # p
  <2>1. latch'[q] = latch[q] /\ latch[q] # x
    BY <1>0, <1>1, <1>2, <1>4, <1>7 DEF LatchInv, pageVars
  <2>2. Logged(q)' = Logged(q)
    BY <1>0, <1>2, <2>1, LoggedStays
  <2>3. OfPage(q)' = OfPage(q)
    BY <1>0, <1>1, <1>2, <1>3, <1>7, UpdatesGrow
  <2>. QED
    BY <1>1, <1>2, <1>3, <2>1, <2>2, <2>3 DEF Touch, Untouched, SameUpdates, pageVars
<1>. QED
  BY <1>6, <1>7

\* What else a transaction does touches no page.
LEMMA TouchStays ==
  ASSUME Base, NEW x \in Xct,
         \/ Begin(x) \/ SkipRecord(x) \/ RolledBack(x) \/ Commit(x) \/ (Quits(x) /\ ~Restarting)
         \/ EndUnlogged(x) \/ Synced(x) \/ RollBackFirst(x)
         \/ LogCompensation(x) \/ LogFreeing(x) \/ LogEnd(x) \/ CompensateInLog(x),
         NEW q \in Page
  PROVE  Touch(q)
<1>0. TypeOK /\ ChainInv /\ LatchInv
  BY DEF Base
<1>1. Stays(x) /\ UNCHANGED pageVars
  BY <1>0, StaysIs
<1>2. \A y \in Xct : y # x => xct'[y] = xct[y] /\ thread'[y] = thread[y]
  BY <1>0, QuietKeeps, LoggingIs, CompensateIs DEF Quiet, Logging
<1>3. Logged(q)' = Logged(q)
  <2>1. \A y \in Xct : latch[q] = y => thread'[y].at = thread[y].at /\ xct'[y].last = xct[y].last
    BY <1>0, <1>1, <1>2, NoXctAssumption DEF Stays, LatchInv, Latching
  <2>. QED
    BY <1>0, <1>1, <2>1, LoggedStays DEF pageVars
<1>4. SameUpdates(q)
  <2>1. CASE \/ Begin(x) \/ SkipRecord(x) \/ RolledBack(x) \/ Commit(x) \/ (Quits(x) /\ ~Restarting)
             \/ EndUnlogged(x) \/ Synced(x) \/ RollBackFirst(x)
    <3>1. log' = log
      BY <1>0, <2>1, QuietKeeps DEF Quiet, logVars
    <3>. QED
      BY <1>0, <3>1, SameLogUpdates
  <2>2. CASE LogCompensation(x) \/ LogFreeing(x) \/ LogEnd(x)
    <3>1. PICK n : n = Len(log) + 1
      OBVIOUS
    <3>2. Len(log) \in Nat /\ ~Insert(x)
      BY <1>0, <2>2 DEF TypeOK, Insert, LogCompensation, LogFreeing, LogEnd, At
    <3>3. /\ log' \in Seq(LogRec) /\ Len(log') = n /\ \A i \in 1 .. Len(log) : log'[i] = log[i]
          /\ log'[n] \notin Update
      BY <1>0, <2>2, <3>1, <3>2, LogTypes
    <3>4. ~IsUpdate(log'[n])
      <4>1. log'[n] \in LogRec
        BY <3>1, <3>2, <3>3
      <4>. QED
        BY <3>3, <4>1, Kinds
    <3>5. OfPage(q)' = OfPage(q)
      BY <1>0, <3>1, <3>3, <3>4, UpdatesGrow
    <3>. QED
      BY <3>1, <3>2, <3>3, <3>5 DEF SameUpdates
  <2>3. CASE CompensateInLog(x)
    <3>1. Len(log) \in Nat /\ Len(log') = Len(log)
      <4>1. Len(log') = Len(log)
        BY <1>0, <2>3, CompensateTypes
      <4>. QED
        BY <1>0, <4>1 DEF TypeOK
    <3>2. OfPage(q)' = OfPage(q)
      BY <1>0, <2>3, CompensateOwn
    <3>. QED
      BY <3>1, <3>2 DEF SameUpdates
  <2>. QED
    BY <2>1, <2>2, <2>3
<1>. QED
  BY <1>1, <1>3, <1>4 DEF Touch, Untouched, pageVars

\* A step of nobody's thread.
LEMMA TouchThreadless ==
  ASSUME TypeOK, LatchInv, NEW q \in Page, UNCHANGED <<latch, thread, xct>>
  PROVE  Logged(q)' = Logged(q)
BY DEF Logged, At

\* The cleaner and replacement.
LEMMA TouchPages ==
  ASSUME Base, NEW p \in Page, Copy(p) \/ WriteCopy(p) \/ Drop(p) \/ ChkptScan(p), NEW q \in Page
  PROVE  Touch(q)
<1>0. TypeOK /\ LatchInv
  BY DEF Base
<1>1. UNCHANGED <<log, latch, thread, xct>>
  BY DEF Copy, WriteCopy, Drop, ChkptScan, logVars, pageVars
<1>2. Logged(q)' = Logged(q) /\ SameUpdates(q)
  BY <1>0, <1>1, TouchThreadless, SameLogUpdates
<1>3. latch[q] = NoXct => Logged(q) = 0
  BY DEF Logged
<1>4. CASE ChkptScan(p)
  BY <1>1, <1>2, <1>4 DEF ChkptScan, Touch, Untouched, pageVars
<1>5. CASE Copy(p)
  <2>1. disk' = disk
    BY <1>5 DEF Copy
  <2>2. /\ frame[p].dirty /\ latch[p] = NoXct /\ frame[p].old = 0
        /\ \A r \in Page : r # p => frame'[r] = frame[r] /\ copy'[r] = copy[r]
        /\ frame'[p].in = frame[p].in /\ frame'[p].lsn = frame[p].lsn
        /\ ~frame'[p].dirty /\ frame'[p].rec = 0 /\ frame'[p].old = frame[p].rec
        /\ copy'[p].lsn = frame[p].lsn
    BY <1>0, <1>5, CopyIs
  <2>. QED
    BY <1>1, <1>2, <1>3, <2>1, <2>2 DEF Touch, Untouched, Copied
<1>6. CASE WriteCopy(p)
  <2>1. /\ frame[p].old # 0
        /\ \A r \in Page : r # p => frame'[r] = frame[r] /\ copy'[r] = copy[r] /\ disk'[r] = disk[r]
        /\ frame'[p].in = frame[p].in /\ frame'[p].lsn = frame[p].lsn
        /\ frame'[p].dirty = frame[p].dirty /\ frame'[p].rec = frame[p].rec /\ frame'[p].old = 0
        /\ disk'[p].lsn = copy[p].lsn
    BY <1>0, <1>6, WriteCopyIs
  <2>. QED
    BY <1>1, <1>2, <2>1 DEF Touch, Untouched, Written
<1>7. CASE Drop(p)
  <2>1. copy' = copy
    BY <1>7 DEF Drop
  <2>2. /\ frame[p].in /\ latch[p] = NoXct /\ frame[p].old = 0 /\ frame'[p] = Absent
        /\ disk'[p].lsn = IF frame[p].dirty THEN frame[p].lsn ELSE disk[p].lsn
        /\ \A r \in Page : r # p => frame'[r] = frame[r] /\ disk'[r] = disk[r]
    BY <1>0, <1>7, DropIs
  <2>. QED
    BY <1>1, <1>2, <1>3, <2>1, <2>2 DEF Touch, Untouched, Dropped
<1>. QED
  BY <1>4, <1>5, <1>6, <1>7

\* The checkpoint and the flusher touch no page.
LEMMA TouchOther ==
  ASSUME Base, Checkpointing \/ Flushing \/ Analyse \/ UndoEnds, NEW q \in Page
  PROVE  Touch(q)
<1>0. TypeOK /\ LogInv /\ ChainInv /\ LatchInv /\ Len(log) \in Nat
  BY DEF Base, TypeOK
<1>1. CASE Checkpointing
  <2>1. UNCHANGED <<pageVars, thread, xct>>
    BY <1>0, <1>1, ChkptLogs DEF Checkpointing
  <2>2. SameUpdates(q)
    <3>1. CASE log' = log
      BY <1>0, <3>1, SameLogUpdates
    <3>2. CASE log' # log
      <4>1. PICK n : n = Len(log) + 1
        OBVIOUS
      <4>2. /\ log' \in Seq(LogRec) /\ Len(log') = n /\ log'[n] \in ChkptRec
            /\ \A i \in 1 .. Len(log) : log'[i] = log[i]
        BY <1>0, <1>1, <3>2, <4>1, ChkptLogs DEF Checkpointing
      <4>3. ~IsUpdate(log'[n])
        BY <4>2 DEF ChkptRec, Bound, PageTab, XctTab, IsUpdate
      <4>4. OfPage(q)' = OfPage(q)
        BY <1>0, <4>1, <4>2, <4>3, UpdatesGrow
      <4>. QED
        BY <1>0, <4>1, <4>2, <4>4 DEF SameUpdates
    <3>. QED
      BY <3>1, <3>2
  <2>3. Logged(q)' = Logged(q)
    BY <1>0, <2>1, TouchThreadless DEF pageVars
  <2>. QED
    BY <2>1, <2>2, <2>3 DEF Touch, Untouched, pageVars
<1>2. CASE Flushing
  <2>1. UNCHANGED <<pageVars, thread, xct, log>>
    BY <1>2 DEF Flushing, FlushBegins, FlushEnds, SetMaster, Scavenge, RedoEnds, ForceEnds, logVars
  <2>2. Logged(q)' = Logged(q) /\ SameUpdates(q)
    BY <1>0, <2>1, TouchThreadless, SameLogUpdates DEF pageVars
  <2>. QED
    BY <2>1, <2>2 DEF Touch, Untouched, pageVars
<1>3. CASE Analyse
  <2>1. UNCHANGED <<pageVars, log>>
    BY <1>3 DEF Analyse, logVars
  <2>2. latch[q] = NoXct
    BY <1>0, <1>3, Unlatched DEF Analyse, Restarting
  <2>3. Logged(q) = 0 /\ Logged(q)' = 0
    BY <2>1, <2>2 DEF Logged, pageVars
  <2>. QED
    BY <1>0, <2>1, <2>3, SameLogUpdates DEF Touch, Untouched, pageVars
<1>4. CASE UndoEnds
  <2>1. /\ UNCHANGED <<pageVars, log>>
        /\ \A x \in Xct : thread[x].at \in {"idle", "done"} /\ thread'[x] = Idle
    BY <1>0, <1>4, UndoEndsIs DEF logVars
  <2>2. latch[q] \in Xct \union {NoXct} /\ latch' = latch
    BY <1>0, <2>1 DEF TypeOK, pageVars
  <2>3. Logged(q) = 0 /\ Logged(q)' = 0
    BY <2>1, <2>2, Starts DEF Logged, At
  <2>. QED
    BY <1>0, <2>1, <2>3, SameLogUpdates DEF Touch, Untouched, pageVars
<1>. QED
  BY <1>1, <1>2, <1>3, <1>4

\* Every step but a crash and those of restart touches each page in one of the ways listed.
LEMMA TouchStep ==
  ASSUME Base, Step, ~Crash, ~RedoRecord
  PROVE  \A q \in Page : Touch(q)
<1>1. CASE \E x \in Xct : Quiet(x) \/ Logging(x) \/ CompensateInLog(x)
  <2>1. PICK x \in Xct : Quiet(x) \/ Logging(x) \/ CompensateInLog(x)
    BY <1>1
  <2>. QED
    BY <2>1, TouchFixing, TouchReleasing, TouchInsert, TouchStays DEF Quiet, Logging
<1>2. CASE \E p \in Page : Copy(p) \/ WriteCopy(p) \/ Drop(p) \/ ChkptScan(p)
  BY <1>2, TouchPages
<1>3. CASE Checkpointing \/ Flushing \/ Analyse \/ UndoEnds
  BY <1>3, TouchOther
<1>. QED
  BY <1>1, <1>2, <1>3, StepCases

\* A crash empties the frames.
LEMMA PageCrash ==
  ASSUME Base, Crash
  PROVE  PageInv'
<1>1. /\ log' \in Seq(LogRec)
      /\ \A p \in Page : frame'[p] = Absent /\ latch'[p] = NoXct
  BY CrashIs DEF Base
<1>2. Len(log') \in Nat
  BY <1>1
<1>3. \A p \in Page : Logged(p)' = 0
  BY <1>1 DEF Logged
<1>. QED
  BY <1>1, <1>2, <1>3, Starts DEF PageInv, PageOk

\* Redo brings a page on in step with the log.
LEMMA PageRedo ==
  ASSUME Base, TypeOK', RedoRecord
  PROVE  PageInv'
<1>0. TypeOK /\ LogInv /\ LatchInv /\ PageInv
  BY DEF Base
<1>1. mode = "redo" /\ redo # 0 /\ UNCHANGED <<log, disk, copy, latch, thread, xct>>
  BY <1>0 DEF RedoRecord, LogInv, logVars
<1>2. SUFFICES ASSUME NEW q \in Page
               PROVE  PageOk(q)'
  BY DEF PageInv
<1>3. PageOk(q) /\ latch[q] = NoXct /\ Logged(q)' = 0
  <2>1. latch[q] = NoXct
    BY <1>0, <1>1, Unlatched DEF Restarting
  <2>. QED
    BY <1>0, <1>1, <2>1 DEF PageInv, Logged
<1>4. /\ frame[q].lsn \in Nat /\ frame[q].rec \in Nat /\ frame[q].old \in Nat /\ disk[q].lsn \in Nat
      /\ copy[q].lsn \in Nat /\ Len(log) \in Nat /\ frame[q].in \in BOOLEAN /\ frame[q].dirty \in BOOLEAN
      /\ frame'[q].lsn \in Nat /\ frame'[q].rec \in Nat /\ frame'[q].old \in Nat
      /\ frame'[q].in \in BOOLEAN /\ frame'[q].dirty \in BOOLEAN
      /\ disk[q].lsn <= Len(log)
  <2>1. /\ durable \in Nat /\ sealed \in Nat /\ Len(log) \in Nat
        /\ disk[q].lsn <= durable /\ durable <= sealed /\ sealed <= Len(log)
    BY <1>0 DEF TypeOK, LogInv
  <2>0. disk[q].lsn \in Nat
    BY <1>0, DiskFields DEF TypeOK
  <2>2. disk[q].lsn <= Len(log)
    BY <2>0, <2>1
  <2>3. frame \in [Page -> Frame] /\ frame' \in [Page -> Frame] /\ copy \in [Page -> OnVolume]
    BY <1>0 DEF TypeOK
  <2>4. /\ frame[q].lsn \in Nat /\ frame[q].rec \in Nat /\ frame[q].old \in Nat
        /\ frame[q].in \in BOOLEAN /\ frame[q].dirty \in BOOLEAN
    BY <2>3, FrameFields
  <2>5. /\ frame'[q].lsn \in Nat /\ frame'[q].rec \in Nat /\ frame'[q].old \in Nat
        /\ frame'[q].in \in BOOLEAN /\ frame'[q].dirty \in BOOLEAN
    BY <2>3, FrameFields
  <2>6. copy[q].lsn \in Nat
    BY <2>3, DiskFields
  <2>. QED
    BY <2>0, <2>1, <2>2, <2>4, <2>5, <2>6
<1>5. CASE frame'[q] = frame[q]
  BY <1>1, <1>3, <1>4, <1>5 DEF PageOk
<1>6. CASE frame'[q] # frame[q]
  <2>1. redo \in Nat /\ redo <= Len(log)
    BY <1>0, <1>1, RedoIs
  <2>2. /\ frame'[q].in
        /\ frame'[q].old = IF frame[q].in THEN frame[q].old ELSE 0
        /\ IF Lsn(q) < redo
           THEN /\ frame'[q].lsn = redo /\ frame'[q].dirty
                /\ frame'[q].rec = IF frame[q].in /\ frame[q].dirty THEN frame[q].rec ELSE redo
           ELSE /\ frame'[q].lsn = Lsn(q)
                /\ frame'[q].dirty = (frame[q].in /\ frame[q].dirty)
                /\ frame'[q].rec = IF frame[q].in THEN frame[q].rec ELSE 0
    <3>1. Wanted(log[redo], redo, dptab)
      BY <1>0, <1>1, <1>6, RedoIs
    <3>2. PICK p : p = log[redo].page
      OBVIOUS
    <3>3. q = p
      BY <1>0, <1>1, <1>6, <3>1, <3>2, RedoIs
    <3>. QED
      BY <1>0, <1>1, <3>1, <3>2, <3>3, RedoIs
  <2>3. disk'[q] = disk[q] /\ copy'[q] = copy[q] /\ Len(log') = Len(log) /\ Logged(q)' = 0
    BY <1>1, <1>3
  <2>4. CASE Lsn(q) < redo
    BY <1>3, <1>4, <2>1, <2>2, <2>3, <2>4 DEF PageOk, Lsn
  <2>5. CASE ~(Lsn(q) < redo)
    BY <1>3, <1>4, <2>1, <2>2, <2>3, <2>5 DEF PageOk, Lsn
  <2>. QED
    BY <2>4, <2>5
<1>. QED
  BY <1>5, <1>6

\* Every step keeps frame, copy and disk in order.
LEMMA PageStep ==
  ASSUME Base, TypeOK', Step
  PROVE  PageInv'
<1>1. CASE Crash
  BY <1>1, PageCrash
<1>2. CASE RedoRecord
  BY <1>2, PageRedo
<1>3. CASE ~Crash /\ ~RedoRecord
  <2>1. ASSUME NEW p \in Page
        PROVE  PageOk(p)'
    <3>1. disk[p].lsn <= Len(log)
      <4>1. /\ durable \in Nat /\ sealed \in Nat /\ Len(log) \in Nat
            /\ disk[p].lsn <= durable /\ durable <= sealed /\ sealed <= Len(log)
        BY DEF Base, TypeOK, LogInv
      <4>2. disk[p].lsn \in Nat
        BY DiskFields DEF Base, TypeOK
      <4>. QED
        BY <4>1, <4>2
    <3>2. Touch(p) /\ PageOk(p) /\ TypeOK
      BY <1>3, TouchStep DEF Base, PageInv
    <3>. QED
      BY <3>1, <3>2, PageKept
  <2>. QED
    BY <2>1 DEF PageInv
<1>. QED
  BY <1>1, <1>2, <1>3

\* Every step keeps the chain.
LEMMA ChainStep ==
  ASSUME Base, TypeOK', Step
  PROVE  ChainInv'
<1>0. TypeOK /\ LogInv /\ ChainInv /\ LatchInv /\ PageInv /\ log \in Seq(LogRec)
  BY DEF Base, TypeOK
<1>1. XctTypes'
  BY DEF TypeOK, XctTypes
<1>2. CASE \E x \in Xct : Quiet(x)
  BY <1>0, <1>1, <1>2, ChainQuiet
<1>3. CASE \E x \in Xct : Logging(x) \/ CompensateInLog(x)
  BY <1>0, <1>3, ChainLogging, ChainCompensate
<1>4. CASE \E p \in Page : Copy(p) \/ WriteCopy(p) \/ Drop(p) \/ ChkptScan(p)
  <2>1. UNCHANGED <<log, xct, thread>>
    BY <1>4 DEF Copy, WriteCopy, Drop, ChkptScan, logVars
  <2>2. Extends /\ \A i : i \notin Len(log) + 1 .. Len(log')
    BY <1>0, <2>1, SameLog
  <2>. QED
    BY <1>0, <2>1, <2>2, ChainOther
<1>5. CASE Flushing \/ RedoRecord
  <2>1. UNCHANGED <<log, xct, thread>>
    BY <1>5 DEF Flushing, FlushBegins, FlushEnds, SetMaster, Scavenge, RedoEnds, ForceEnds, RedoRecord, logVars
  <2>2. Extends /\ \A i : i \notin Len(log) + 1 .. Len(log')
    BY <1>0, <2>1, SameLog
  <2>. QED
    BY <1>0, <2>1, <2>2, ChainOther
<1>6. CASE Checkpointing
  <2>1. UNCHANGED <<xct, thread>>
    BY <1>0, <1>6, ChkptLogs DEF Checkpointing
  <2>2. Extends /\ \A i \in Len(log) + 1 .. Len(log') : log'[i] \in ChkptRec
    <3>1. CASE log' = log
      BY <1>0, <3>1, SameLog
    <3>2. CASE log' # log
      <4>1. /\ log' \in Seq(LogRec) /\ Len(log') = Len(log) + 1 /\ log'[Len(log) + 1] \in ChkptRec
            /\ \A i \in 1 .. Len(log) : log'[i] = log[i]
        BY <1>0, <1>6, <3>2, ChkptLogs DEF Checkpointing
      <4>2. Len(log) \in Nat
        BY <1>0
      <4>. QED
        BY <4>1, <4>2 DEF Extends
    <3>. QED
      BY <3>1, <3>2
  <2>. QED
    BY <1>0, <2>1, <2>2, ChainOther
<1>7. CASE Crash \/ Analyse \/ UndoEnds
  BY <1>0, <1>7, ChainCrash, ChainAnalyse, ChainUndoEnds
<1>. QED
  BY <1>2, <1>3, <1>4, <1>5, <1>6, <1>7, StepCases

-----------------------------------------------------------------------------
(***************************************************************************)
(* The write-ahead rule.                                                   *)
(***************************************************************************)
\* Every step keeps Base,
LEMMA BaseStep ==
  ASSUME Base, [Next]_vars
  PROVE  Base'
<1>1. CASE Next
  <2>1. Step /\ UNCHANGED load
    BY <1>1 DEF Next
  <2>2. TypeOK'
    BY <2>1, TypeStep
  <2>. QED
    BY <2>1, <2>2, LogStep, ChainStep, LatchStep, PageStep DEF Base
<1>2. CASE UNCHANGED vars
  <2>1. UNCHANGED <<log, sealed, durable, low, master, disk, frame, copy, latch, xct, thread, chk,
                    mode, dptab, redo, hist, load>>
    BY <1>2 DEF vars, logVars, pageVars, restartVars
  <2>2. TypeOK' /\ LogInv'
    BY <2>1 DEF Base, TypeOK, LogInv, Restarting
  <2>3. ChainInv'
    BY <2>1 DEF Base, ChainInv, Links, Chain, Own, At
  <2>4. LatchInv'
    BY <2>1 DEF Base, LatchInv, Restarting, At
  <2>5. PageInv'
    BY <2>1 DEF Base, PageInv, PageOk, Logged, OfPage, At
  <2>. QED
    BY <2>2, <2>3, <2>4, <2>5 DEF Base
<1>. QED
  BY <1>1, <1>2

\* and it holds to begin with.
LEMMA BaseInit ==
  ASSUME Init
  PROVE  Base
<1>1. /\ log = FirstLog /\ sealed = Len(FirstLog) /\ durable = Len(FirstLog) /\ low = 1 /\ master = 1
      /\ disk = [p \in Page |-> CleanPage] /\ frame = [p \in Page |-> Absent]
      /\ copy = [p \in Page |-> CleanPage] /\ latch = [p \in Page |-> NoXct]
      /\ xct = [x \in Xct |-> NewXct] /\ thread = [x \in Xct |-> Idle] /\ chk = NoChkpt /\ mode = "up"
      /\ dptab = [p \in Page |-> NoLsn] /\ redo = NoLsn /\ load \in Loads
      /\ hist = [wrote |-> [x \in Xct |-> {}], asked |-> {}, told |-> {}, quit |-> {}, cut |-> {}]
  BY DEF Init
<1>2. TypeOK
  <2>1. hist \in History /\ \A x \in Xct : hist.wrote[x] = {}
    BY <1>1 DEF History
  <2>2. \A x \in Xct : IsFiniteSet(hist.wrote[x])
    BY <2>1, FS_EmptySet
  <2>3. log \in Seq(LogRec) /\ sealed = 3 /\ durable = 3
    BY <1>1, FirstLogIs
  <2>. QED
    BY <1>1, <2>1, <2>2, <2>3, Starts DEF TypeOK, Mode, NoLsn
<1>3. LogInv
  BY <1>1, FirstLogIs, Starts DEF LogInv, Restarting
<1>4. \A i \in 1 .. Len(log) : log[i] \notin Update \union Mark
  BY <1>1, FirstLogIs DEF Update, Mark
<1>5. ChainInv
  BY <1>1, <1>4, Starts DEF ChainInv, Links, Chain, At
<1>6. LatchInv
  BY <1>1, Starts DEF LatchInv, Restarting, At
<1>7. PageInv
  <2>1. \A p \in Page : Logged(p) = 0
    BY <1>1 DEF Logged
  <2>. QED
    BY <1>1, <2>1, FirstLogIs, Starts DEF PageInv, PageOk
<1>. QED
  BY <1>2, <1>3, <1>5, <1>6, <1>7 DEF Base

\* What is true whenever a checkpoint looks at the frames, whatever it meets there: the
\* records of a transaction are chained in order of lsn, an EX latch is held from the fix to the
\* marks, and disk, cleaner's copy and frame of a page are in order of lsn.
THEOREM BaseHolds == Spec => []Base
<1>1. Init => Base
  BY BaseInit
<1>2. Base /\ [Next]_vars => Base'
  BY BaseStep
<1>. QED
  BY <1>1, <1>2, PTL DEF Spec

\* The write-ahead rule: no page on disk is ahead of the durable log, although the cleaner
\* writes a copy that it took earlier, replacement writes what it finds, and a crash, a restart
\* and another crash may come between any two steps.
THEOREM WritesFollowLog == Spec => []WriteAhead
<1>1. Base => WriteAhead
  BY DEF Base, LogInv, WriteAhead
<1>. QED
  BY <1>1, BaseHolds, PTL

-----------------------------------------------------------------------------
(***************************************************************************)
(* What the pages and their updates are while the system runs, and while   *)
(* it restarts.                                                            *)
(***************************************************************************)
\* What can happen while restart reads and redoes the log.
LEMMA RestartSteps ==
  ASSUME Base, RestartInv, Step, Restarting
  PROVE  Crash \/ Analyse \/ RedoRecord \/ RedoEnds \/ ForceEnds \/ \E p \in Page : Drop(p)
<1>0. TypeOK /\ LogInv /\ LatchInv
  BY DEF Base
<1>1. ~\E x \in Xct : Quiet(x) \/ Logging(x) \/ CompensateInLog(x)
  BY <1>0, NotRestarting
<1>2. ~(Checkpointing \/ SetMaster \/ Scavenge \/ UndoEnds) /\ ~\E p \in Page : ChkptScan(p)
  BY <1>0, NotRestarting
<1>3. ~\E p \in Page : Copy(p) \/ WriteCopy(p)
  BY DEF RestartInv, Restarting, Copy, WriteCopy, NoLsn
<1>4. ~FlushBegins /\ ~FlushEnds
  <2>1. durable = Len(log) /\ sealed = Len(log)
    BY <1>0 DEF LogInv, TypeOK
  <2>. QED
    BY <2>1 DEF FlushBegins, FlushEnds
<1>. QED
  BY <1>1, <1>2, <1>3, <1>4, StepCases DEF Flushing

\* Restart begins with a crash.
LEMMA RestartEntered ==
  ASSUME Base, Step, ~Restarting, Restarting'
  PROVE  Crash
<1>0. TypeOK
  BY DEF Base
<1>1. mode' # mode
  BY DEF Restarting
<1>2. ASSUME NEW x \in Xct, Quiet(x) \/ Logging(x) \/ CompensateInLog(x)
      PROVE  FALSE
  <2>1. UNCHANGED mode
    BY <1>0, <1>2, QuietKeeps
       DEF restartVars, Logging, Insert, LogCompensation, LogFreeing, LogEnd, CompensateInLog
  <2>. QED
    BY <1>1, <2>1
<1>3. ASSUME NEW p \in Page, Copy(p) \/ WriteCopy(p) \/ ChkptScan(p) \/ Drop(p)
      PROVE  FALSE
  BY <1>1, <1>3 DEF Copy, WriteCopy, ChkptScan, Drop, restartVars
<1>4. ~Checkpointing
  BY <1>0, <1>1, ChkptLogs DEF Checkpointing, restartVars
<1>5. ~Flushing
  BY <1>1 DEF Flushing, FlushBegins, FlushEnds, SetMaster, Scavenge, RedoEnds, ForceEnds, restartVars, Restarting
<1>6. ~Analyse /\ ~RedoRecord /\ ~UndoEnds
  BY <1>1 DEF Analyse, RedoRecord, UndoEnds, Restarting
<1>. QED
  BY <1>2, <1>3, <1>4, <1>5, <1>6, StepCases

\* It leaves the forced pages to the running system.
LEMMA RestartLeft ==
  ASSUME Base, RestartInv, Step, Restarting, ~Restarting'
  PROVE  ForceEnds
<1>1. mode' # mode
  BY DEF Restarting
<1>2. ~(Crash \/ Analyse \/ RedoRecord \/ RedoEnds \/ \E p \in Page : Drop(p))
  BY <1>1 DEF Crash, Analyse, RedoRecord, RedoEnds, Drop, restartVars, Restarting
<1>. QED
  BY <1>2, RestartSteps

\* While the system runs, every step keeps RunInv.
LEMMA RunStep ==
  ASSUME Base, TypeOK', Step, RunInv, RestartInv
  PROVE  RunInv'
<1>0. TypeOK /\ LogInv /\ LatchInv /\ PageInv
  BY DEF Base
<1>1. CASE Restarting'
  BY <1>1 DEF RunInv
<1>2. CASE ~Restarting' /\ ~Restarting
  <2>1. ~Crash /\ ~RedoRecord
    BY <1>2 DEF Crash, RedoRecord, Restarting
  <2>2. ASSUME NEW p \in Page
        PROVE  RunOk(p)'
    <3>1. Touch(p) /\ PageOk(p) /\ RunOk(p)
      BY <1>0, <1>2, <2>1, TouchStep DEF PageInv, RunInv
    <3>. QED
      BY <1>0, <3>1, RunKept
  <2>. QED
    BY <2>2 DEF RunInv
<1>3. CASE ~Restarting' /\ Restarting
  <2>1. ForceEnds
    BY <1>3, RestartLeft
  <2>2. /\ mode = "force" /\ \A p \in Page : ~frame[p].in
        /\ UNCHANGED <<log, disk, frame, copy, latch, xct, thread>>
    BY <2>1 DEF ForceEnds, logVars, pageVars
  <2>3. ASSUME NEW p \in Page, NEW i \in OfPage(p)
        PROVE  /\ i <= disk[p].lsn /\ frame[p] = Absent /\ Lsn(p) = disk[p].lsn /\ i \in Nat
               /\ disk[p].lsn \in Nat
    <3>1. Restarting
      BY <1>3
    <3>2. i <= Lsn(p)
      BY <1>0, <2>2, <3>1 DEF RestartInv
    <3>3. frame[p] = Absent
      BY <1>0, <2>2 DEF PageInv, PageOk
    <3>4. Lsn(p) = disk[p].lsn
      BY <2>2 DEF Lsn
    <3>5. i \in Nat
      BY DEF OfPage
    <3>6. disk[p].lsn \in Nat
      BY <1>0, DiskFields DEF TypeOK
    <3>. QED
      BY <3>2, <3>3, <3>4, <3>5, <3>6
  <2>4. ASSUME NEW p \in Page, NEW i \in OfPage(p)
        PROVE  ~(disk[p].lsn < i) /\ frame[p].old = 0 /\ ~frame[p].in
    BY <2>2, <2>3, Starts
  <2>5. \A p \in Page : RunOk(p)
    BY <2>3, <2>4 DEF RunOk
  <2>. QED
    BY <2>2, <2>5 DEF RunInv, RunOk, Lsn, Logged, Marked, OfPage, At
<1>. QED
  BY <1>1, <1>2, <1>3

\* A crash leaves no page in a frame.
LEMMA RestartCrash ==
  ASSUME Base, Crash
  PROVE  RestartInv'
<1>1. mode' = "analysis" /\ \A p \in Page : frame'[p] = Absent
  BY CrashIs DEF Base
<1>. QED
  BY <1>1, Starts DEF RestartInv, Restarting

\* The dirty page table that analysis computes has every update that is missing on disk.
LEMMA RestartAnalyse ==
  ASSUME Base, RestartInv, StoredInv, Analyse
  PROVE  RestartInv'
<1>0. TypeOK /\ LogInv /\ ChainInv /\ PageInv /\ log \in Seq(LogRec) /\ Len(log) \in Nat
  BY DEF Base, TypeOK
<1>1. /\ mode = "analysis" /\ mode' = "redo" /\ UNCHANGED <<log, disk, frame>>
      /\ dptab' = DptOf(log, master) /\ dptab' \in [Page -> Nat] /\ redo' = RedoLsn(dptab', log)
  BY <1>0, AnalyseIs DEF Analyse, logVars, pageVars
<1>2. durable = Len(log) /\ SubSeq(log, 1, Len(log)) = log
  BY <1>0, <1>1 DEF LogInv, Restarting
<1>3. outlook.dpt = dptab'
  <2>1. outlook.dpt = Outlook(log, master, disk).dpt
    BY <1>2 DEF StoredInv
  <2>2. Outlook(log, master, disk).dpt = Analysis(log, master).dpt
    BY DEF Outlook
  <2>. QED
    BY <1>1, <2>1, <2>2 DEF DptOf
<1>4. PICK d : d = dptab'
  OBVIOUS
<1>5. /\ d \in [Page -> Nat] /\ redo' \in Nat
      /\ \A p \in Page : d[p] # 0 => redo' <= d[p]
  BY <1>0, <1>1, <1>4, RedoLsnIs
<1>6. \A p \in Page : ~frame[p].in /\ frame[p].old = 0
  BY <1>1 DEF RestartInv, Restarting
<1>7. ASSUME NEW p \in Page, NEW i \in OfPage(p)
      PROVE  IF i < redo' THEN i <= disk[p].lsn ELSE disk[p].lsn < i => d[p] # 0 /\ d[p] <= i
  <2>1. i \in Nat /\ i <= durable /\ disk[p].lsn \in Nat /\ d[p] \in Nat
    BY <1>0, <1>2, <1>5 DEF OfPage, TypeOK, OnVolume
  <2>2. disk[p].lsn < i => d[p] # 0 /\ d[p] <= i
    BY <1>3, <1>4, <2>1 DEF StoredInv, Missed
  <2>. QED
    BY <2>1, <2>2, <1>5
<1>8. \A p \in Page : OfPage(p)' = OfPage(p) /\ Lsn(p)' = disk[p].lsn
  BY <1>1, <1>6 DEF OfPage, Lsn
<1>. QED
  BY <1>1, <1>4, <1>6, <1>7, <1>8 DEF RestartInv, Restarting

\* The redo pass brings every page up to the record it has read.
LEMMA RestartRedo ==
  ASSUME Base, TypeOK', RestartInv, RedoRecord
  PROVE  RestartInv'
<1>0. TypeOK /\ LogInv
  BY DEF Base
<1>1. mode = "redo" /\ mode' = "redo" /\ redo # 0 /\ UNCHANGED <<log, disk>>
  BY <1>0 DEF RedoRecord, LogInv, logVars
<1>2. redo \in Nat /\ redo <= Len(log) /\ redo' = redo + 1
  BY <1>0, <1>1, RedoIs
<1>3. ASSUME NEW p \in Page
      PROVE  /\ frame'[p].old = 0
             /\ frame'[p].in /\ ~frame'[p].dirty => frame'[p].lsn = disk'[p].lsn
             /\ \A i \in OfPage(p)' :
                  IF i < redo' THEN i <= Lsn(p)'
                  ELSE Lsn(p)' < i => dptab'[p] # 0 /\ dptab'[p] <= i
  <2>1. /\ frame[p].lsn \in Nat /\ disk[p].lsn \in Nat /\ Lsn(p) \in Nat /\ dptab[p] \in Nat
        /\ OfPage(p) \subseteq Nat /\ OfPage(p)' = OfPage(p)
        /\ frame[p].in \in BOOLEAN /\ frame[p].dirty \in BOOLEAN /\ frame'[p].in \in BOOLEAN
        /\ frame'[p].lsn \in Nat /\ dptab'[p] \in Nat
    <3>1. /\ frame \in [Page -> Frame] /\ frame' \in [Page -> Frame] /\ disk \in [Page -> OnVolume]
          /\ dptab \in [Page -> Nat] /\ dptab' \in [Page -> Nat]
      BY <1>0 DEF TypeOK
    <3>2. frame[p].lsn \in Nat /\ disk[p].lsn \in Nat /\ frame[p].in \in BOOLEAN /\ frame[p].dirty \in BOOLEAN
      BY <3>1, FrameFields, DiskFields
    <3>3. frame'[p].lsn \in Nat /\ frame'[p].in \in BOOLEAN
      BY <3>1, FrameFields
    <3>4. Lsn(p) \in Nat
      BY <3>2 DEF Lsn
    <3>5. OfPage(p) \subseteq Nat /\ OfPage(p)' = OfPage(p)
      BY <1>0, <1>1 DEF OfPage
    <3>. QED
      BY <3>1, <3>2, <3>3, <3>4, <3>5
  <2>2. /\ frame[p].old = 0
        /\ frame[p].in /\ ~frame[p].dirty => frame[p].lsn = disk[p].lsn
        /\ \A i \in OfPage(p) : IF i < redo THEN i <= Lsn(p)
                                ELSE Lsn(p) < i => dptab[p] # 0 /\ dptab[p] <= i
    BY <1>1 DEF RestartInv, Restarting
  <2>3. CASE Wanted(log[redo], redo, dptab) /\ log[redo].page = p
    <3>1. dptab[p] # 0 /\ dptab[p] <= redo
      BY <1>2, <2>1, <2>3 DEF Wanted, NoLsn
    <3>2. /\ frame'[p].in
          /\ frame'[p].old = IF frame[p].in THEN frame[p].old ELSE 0
          /\ IF Lsn(p) < redo
             THEN frame'[p].lsn = redo /\ frame'[p].dirty /\ dptab'[p] = dptab[p]
             ELSE /\ frame'[p].lsn = Lsn(p) /\ dptab'[p] = Lsn(p) + 1
                  /\ frame'[p].dirty = (frame[p].in /\ frame[p].dirty)
      BY <1>0, <1>1, <2>3, RedoIs
    <3>3. Lsn(p)' = frame'[p].lsn
      BY <3>2 DEF Lsn
    <3>4. frame'[p].old = 0 /\ (frame'[p].in /\ ~frame'[p].dirty => frame'[p].lsn = disk'[p].lsn)
      BY <1>1, <2>2, <3>2, <2>1 DEF Lsn
    <3>5. ASSUME NEW i \in OfPage(p)
          PROVE  IF i < redo' THEN i <= Lsn(p)'
                 ELSE Lsn(p)' < i => dptab'[p] # 0 /\ dptab'[p] <= i
      BY <1>2, <2>1, <2>2, <3>1, <3>2, <3>3
    <3>. QED
      BY <2>1, <3>4, <3>5
  <2>4. CASE ~(Wanted(log[redo], redo, dptab) /\ log[redo].page = p)
    <3>1. frame'[p] = frame[p] /\ dptab'[p] = dptab[p]
      <4>1. PICK q : q = log[redo].page
        OBVIOUS
      <4>. QED
        BY <1>0, <1>1, <2>4, <4>1, RedoIs
    <3>2. Lsn(p)' = Lsn(p)
      BY <1>1, <3>1 DEF Lsn
    <3>3. redo \in OfPage(p) => redo <= Lsn(p)
      BY <1>2, <2>1, <2>2, <2>4 DEF Wanted, OfPage, NoLsn
    <3>4. ASSUME NEW i \in OfPage(p)
          PROVE  IF i < redo' THEN i <= Lsn(p)
                 ELSE Lsn(p) < i => dptab[p] # 0 /\ dptab[p] <= i
      BY <1>2, <2>1, <2>2, <3>3
    <3>. QED
      BY <1>1, <2>1, <2>2, <3>1, <3>2, <3>4
  <2>. QED
    BY <2>3, <2>4
<1>. QED
  BY <1>1, <1>3 DEF RestartInv, Restarting

\* A clean page may leave its frame while restart redoes.
LEMMA RestartDrop ==
  ASSUME Base, RestartInv, Restarting, NEW p \in Page, Drop(p)
  PROVE  RestartInv'
<1>0. TypeOK
  BY DEF Base
<1>1. UNCHANGED <<log, mode, dptab, redo>>
  BY DEF Drop, logVars, restartVars
<1>2. /\ frame[p].in /\ frame'[p] = Absent
      /\ disk'[p].lsn = IF frame[p].dirty THEN frame[p].lsn ELSE disk[p].lsn
      /\ \A q \in Page : q # p => frame'[q] = frame[q] /\ disk'[q] = disk[q]
  BY <1>0, DropIs
<1>3. ~frame[p].dirty => frame[p].lsn = disk[p].lsn
  BY <1>2 DEF RestartInv
<1>4. \A q \in Page : Lsn(q)' = Lsn(q) /\ OfPage(q)' = OfPage(q)
  BY <1>1, <1>2, <1>3, Starts DEF Lsn, OfPage
<1>5. mode # "analysis"
  BY <1>2 DEF RestartInv
<1>6. \A q \in Page : /\ frame'[q].old = 0
                      /\ frame'[q].in /\ ~frame'[q].dirty => frame'[q].lsn = disk'[q].lsn
  BY <1>2, Starts DEF RestartInv
<1>. QED
  BY <1>1, <1>4, <1>5, <1>6 DEF RestartInv, Restarting

\* Every step keeps RestartInv.
LEMMA RestartStep ==
  ASSUME Base, TypeOK', Step, RestartInv, StoredInv
  PROVE  RestartInv'
<1>0. TypeOK
  BY DEF Base
<1>1. CASE ~Restarting'
  BY <1>1 DEF RestartInv
<1>2. CASE Crash
  BY <1>2, RestartCrash
<1>3. CASE Restarting' /\ ~Restarting
  BY <1>3, RestartEntered, RestartCrash
<1>4. CASE Restarting /\ RedoEnds
  <2>1. mode = "redo" /\ mode' = "force" /\ redo > Len(log) /\ UNCHANGED <<log, disk, frame>>
    BY <1>4 DEF RedoEnds, logVars, pageVars
  <2>2. Len(log) \in Nat /\ redo \in Nat
    BY <1>0 DEF TypeOK
  <2>3. \A p \in Page : OfPage(p)' = OfPage(p) /\ Lsn(p)' = Lsn(p)
    BY <2>1 DEF OfPage, Lsn
  <2>4. \A p \in Page : \A i \in OfPage(p) : i < redo
    BY <2>1, <2>2 DEF OfPage
  <2>. QED
    BY <2>1, <2>3, <2>4 DEF RestartInv, Restarting
<1>5. CASE Restarting /\ Restarting' /\ ~Crash /\ ~RedoEnds
  <2>1. Analyse \/ RedoRecord \/ \E p \in Page : Drop(p)
    <3>1. ~ForceEnds
      BY <1>5 DEF ForceEnds, Restarting
    <3>. QED
      BY <1>5, <3>1, RestartSteps
  <2>. QED
    BY <1>5, <2>1, RestartAnalyse, RestartRedo, RestartDrop
<1>. QED
  BY <1>1, <1>2, <1>3, <1>4, <1>5

-----------------------------------------------------------------------------
(***************************************************************************)
(* What a restart would find.                                              *)
(***************************************************************************)
\* Nothing but the checkpoint moves the master record.
LEMMA MasterStays ==
  ASSUME Base, Step, ~SetMaster
  PROVE  master' = master
<1>0. TypeOK /\ LogInv /\ ChainInv /\ LatchInv
  BY DEF Base
<1>1. CASE \E x \in Xct : Quiet(x) \/ Logging(x) \/ CompensateInLog(x)
  BY <1>0, <1>1, QuietKeeps, LoggingIs, CompensateIs DEF logVars
<1>2. CASE \E p \in Page : Copy(p) \/ WriteCopy(p) \/ ChkptScan(p) \/ Drop(p)
  BY <1>2 DEF Copy, WriteCopy, ChkptScan, Drop, logVars
<1>3. CASE Checkpointing
  BY <1>0, <1>3, ChkptLogs DEF Checkpointing
<1>4. CASE Flushing
  BY <1>4 DEF Flushing, FlushBegins, FlushEnds, Scavenge, RedoEnds, ForceEnds, logVars
<1>5. CASE Crash \/ Analyse \/ RedoRecord \/ UndoEnds
  BY <1>5 DEF Crash, Analyse, RedoRecord, UndoEnds, logVars
<1>. QED
  BY <1>1, <1>2, <1>3, <1>4, <1>5, StepCases

\* What is durable stays as it is.
LEMMA DurableStays ==
  ASSUME Base, TypeOK', LogInv', Step
  PROVE  /\ durable <= durable' /\ durable <= Len(log) /\ durable' <= Len(log')
         /\ \A i \in 1 .. durable : log'[i] = log[i]
<1>0. /\ TypeOK /\ LogInv /\ ChainInv /\ LatchInv
      /\ durable \in Nat /\ sealed \in Nat /\ Len(log) \in Nat /\ durable <= sealed /\ sealed <= Len(log)
      /\ durable' \in Nat /\ sealed' \in Nat /\ Len(log') \in Nat /\ durable' <= Len(log')
  <2>1. /\ TypeOK /\ LogInv /\ ChainInv /\ LatchInv /\ log \in Seq(LogRec) /\ log' \in Seq(LogRec)
        /\ durable \in Nat /\ sealed \in Nat /\ durable' \in Nat /\ sealed' \in Nat
    BY DEF Base, TypeOK
  <2>2. durable <= sealed /\ sealed <= Len(log) /\ durable' <= sealed' /\ sealed' <= Len(log')
    BY <2>1 DEF LogInv
  <2>. QED
    BY <2>1, <2>2
<1>. SUFFICES durable <= durable' /\ \A i \in 1 .. durable : log'[i] = log[i]
  BY <1>0
<1>1. CASE \E x \in Xct : Quiet(x)
  BY <1>0, <1>1, QuietKeeps DEF logVars
<1>2. ASSUME NEW x \in Xct, Logging(x)
      PROVE  durable <= durable' /\ \A i \in 1 .. durable : log'[i] = log[i]
  <2>1. UNCHANGED durable /\ Extends
    BY <1>0, <1>2, LoggingIs, ChainLogging
  <2>. QED
    BY <1>0, <2>1 DEF Extends
<1>3. ASSUME NEW x \in Xct, CompensateInLog(x)
      PROVE  durable <= durable' /\ \A i \in 1 .. durable : log'[i] = log[i]
  <2>1. UNCHANGED durable /\ xct[x].last > sealed
    BY <1>0, <1>3, CompensateIs
  <2>2. xct[x].last \in 1 .. Len(log) /\ \A i \in 1 .. Len(log) : i # xct[x].last => log'[i] = log[i]
    BY <1>0, <1>3, CompensateTypes, Zenon
  <2>. QED
    BY <1>0, <2>1, <2>2
<1>4. CASE \E p \in Page : Copy(p) \/ WriteCopy(p) \/ ChkptScan(p) \/ Drop(p)
  BY <1>0, <1>4 DEF Copy, WriteCopy, ChkptScan, Drop, logVars
<1>5. CASE Checkpointing
  <2>1. UNCHANGED durable /\ (log' = log \/ \A i \in 1 .. Len(log) : log'[i] = log[i])
    BY <1>0, <1>5, ChkptLogs DEF Checkpointing
  <2>. QED
    BY <1>0, <2>1
<1>6. CASE Flushing
  BY <1>0, <1>6 DEF Flushing, FlushBegins, FlushEnds, SetMaster, Scavenge, RedoEnds, ForceEnds, logVars
<1>7. CASE Crash
  BY <1>0, <1>7, CrashIs
<1>8. CASE Analyse \/ RedoRecord \/ UndoEnds
  BY <1>0, <1>8 DEF Analyse, RedoRecord, UndoEnds, logVars
<1>. QED
  BY <1>1, <1>2, <1>3, <1>4, <1>5, <1>6, <1>7, <1>8, StepCases

\* No page on disk is ever replaced by an older one.
LEMMA DiskGrows ==
  ASSUME Base, Step, NEW p \in Page
  PROVE  disk[p].lsn <= disk'[p].lsn
<1>0. TypeOK /\ PageOk(p)
  BY DEF Base, PageInv
<1>1. /\ disk[p].lsn \in Nat /\ copy[p].lsn \in Nat /\ frame[p].lsn \in Nat
  <2>1. disk[p] \in OnVolume /\ copy[p] \in OnVolume /\ frame[p] \in Frame
    BY <1>0 DEF TypeOK
  <2>. QED
    BY <2>1 DEF OnVolume, Frame
<1>2. CASE Crash \/ RedoRecord
  BY <1>1, <1>2 DEF Crash, RedoRecord
<1>3. CASE ~Crash /\ ~RedoRecord
  <2>1. Touch(p)
    BY <1>3, TouchStep
  <2>2. CASE Written(p)
    BY <1>0, <2>2 DEF Written, PageOk
  <2>3. CASE Dropped(p)
    BY <1>0, <1>1, <2>3 DEF Dropped, PageOk
  <2>4. CASE ~Written(p) /\ ~Dropped(p)
    BY <1>1, <2>1, <2>4 DEF Touch, Untouched, Fixed, Inserted, Released, Copied
  <2>. QED
    BY <2>2, <2>3, <2>4
<1>. QED
  BY <1>2, <1>3

\* What a restart would find is a function of the durable log, the master record and the disk.
LEMMA OutlookIs ==
  ASSUME StoredInv, Next
  PROVE  outlook' = Outlook(SubSeq(log', 1, durable'), master', disk')
<1>1. CASE Stored' = Stored
  BY <1>1 DEF Next, Stored, StoredInv
<1>2. CASE Stored' # Stored
  BY <1>2 DEF Next
<1>. QED
  BY <1>1, <1>2

\* Its dirty page table does not depend on the disk.
LEMMA OutlookDpt ==
  ASSUME NEW L, NEW m, NEW d
  PROVE  Outlook(L, m, d).dpt = DptOf(L, m)
BY DEF Outlook, DptOf

\* The durable log.
LEMMA Prefix ==
  ASSUME NEW L \in Seq(LogRec), NEW n \in Nat, n <= Len(L)
  PROVE  LET K == SubSeq(L, 1, n) IN
         K \in Seq(LogRec) /\ Len(K) = n /\ \A i \in 1 .. n : K[i] = L[i] /\ L[i] \in LogRec
OBVIOUS

\* The dirty page table that a restart would compute, as the durable log grows.
LEMMA OutlookGrows ==
  ASSUME Base, Base', StoredInv, Next, ~SetMaster, NEW p \in Page
  PROVE  LET d == outlook.dpt[p]  e == outlook'.dpt[p] IN
         /\ d \in Nat /\ e \in Nat
         /\ d # 0 => e = d
         /\ \A u \in durable + 1 .. durable' : Updates(log'[u], p) => (e # 0 /\ e <= u) \/ d # 0
         /\ d = 0 => e = 0 \/ (e > durable /\ e <= durable')
<1>0. /\ TypeOK /\ LogInv /\ Step /\ TypeOK' /\ LogInv'
      /\ log \in Seq(LogRec) /\ log' \in Seq(LogRec) /\ Len(log) \in Nat /\ Len(log') \in Nat
      /\ durable \in Nat /\ durable' \in Nat /\ master \in Nat /\ master <= durable
  <2>1. TypeOK /\ LogInv /\ Step /\ TypeOK' /\ LogInv'
    BY DEF Base, Next
  <2>. QED
    BY <2>1 DEF TypeOK, LogInv
<1>1. /\ master' = master
      /\ durable <= durable' /\ durable <= Len(log) /\ durable' <= Len(log')
      /\ \A i \in 1 .. durable : log'[i] = log[i]
  BY <1>0, MasterStays, DurableStays
<1>2. outlook' = Outlook(SubSeq(log', 1, durable'), master', disk')
  BY OutlookIs
<1>3. PICK L : L = SubSeq(log, 1, durable)
  OBVIOUS
<1>4. PICK K : K = SubSeq(log', 1, durable')
  OBVIOUS
<1>5. L \in Seq(LogRec) /\ Len(L) = durable /\ \A i \in 1 .. durable : L[i] = log[i] /\ log[i] \in LogRec
  BY <1>0, <1>1, <1>3, Prefix
<1>6. K \in Seq(LogRec) /\ Len(K) = durable' /\ \A i \in 1 .. durable' : K[i] = log'[i] /\ log'[i] \in LogRec
  BY <1>0, <1>1, <1>4, Prefix
<1>7. PICK c \in master + 1 .. durable : log[c].k = "cend"
  BY DEF StoredInv
<1>8. c \in master + 1 .. durable' /\ log'[c].k = "cend" /\ L[c].k = "cend"
  BY <1>0, <1>1, <1>5, <1>7
<1>9. outlook.dpt = DptOf(L, master) /\ outlook'.dpt = DptOf(K, master)
  BY <1>1, <1>2, <1>3, <1>4, OutlookDpt DEF StoredInv
<1>10. DptOf(L, master) \in [Page -> Nat] /\ DptOf(K, master) \in [Page -> Nat]
  <2>1. master <= Len(L) /\ master <= Len(K)
    BY <1>0, <1>1, <1>5, <1>6
  <2>. QED
    BY <1>0, <1>5, <1>6, <2>1, DptIs
<1>11. LET d == DptOf(L, master)[p]  e == DptOf(K, master)[p] IN
       /\ d # 0 => e = d
       /\ \A u \in Len(L) + 1 .. Len(K) : Updates(K[u], p) => (e # 0 /\ e <= u) \/ d # 0
       /\ d = 0 => e = 0 \/ (e > Len(L) /\ e <= Len(K))
  <2>1. master <= Len(L) /\ Len(L) <= Len(K) /\ c \in master + 1 .. Len(L)
    BY <1>0, <1>1, <1>5, <1>6, <1>7
  <2>2. \A i \in 1 .. Len(L) : K[i] = L[i]
    BY <1>0, <1>1, <1>5, <1>6
  <2>. QED
    BY <1>0, <1>5, <1>6, <1>8, <2>1, <2>2, DptGrows
<1>12. \A u \in durable + 1 .. durable' : K[u] = log'[u]
  BY <1>0, <1>6
<1>. QED
  BY <1>5, <1>6, <1>9, <1>10, <1>11, <1>12

\* A step that leaves the master record alone keeps StoredInv.
LEMMA StoredKept ==
  ASSUME Base, Base', StoredInv, Next, ~SetMaster
  PROVE  StoredInv'
<1>0. /\ TypeOK /\ LogInv /\ Step /\ TypeOK' /\ LogInv'
      /\ log' \in Seq(LogRec) /\ Len(log) \in Nat /\ Len(log') \in Nat
      /\ durable \in Nat /\ durable' \in Nat /\ master \in Nat /\ master <= durable
  <2>1. TypeOK /\ LogInv /\ Step /\ TypeOK' /\ LogInv'
    BY DEF Base, Next
  <2>. QED
    BY <2>1 DEF TypeOK, LogInv
<1>1. /\ master' = master
      /\ durable <= durable' /\ durable <= Len(log) /\ durable' <= Len(log')
      /\ \A i \in 1 .. durable : log'[i] = log[i]
  BY <1>0, MasterStays, DurableStays
<1>2. outlook' = Outlook(SubSeq(log', 1, durable'), master', disk')
  BY OutlookIs
<1>8. \E c \in master + 1 .. durable' : log'[c].k = "cend"
  <2>1. PICK c \in master + 1 .. durable : log[c].k = "cend"
    BY DEF StoredInv
  <2>2. c \in master + 1 .. durable' /\ c \in 1 .. durable
    BY <1>0, <1>1, <2>1
  <2>. QED
    BY <1>1, <2>1, <2>2
<1>10. ASSUME NEW p \in Page
       PROVE  LET d == outlook.dpt[p]  e == outlook'.dpt[p] IN
              /\ d \in Nat /\ e \in Nat
              /\ d # 0 => e = d
              /\ \A u \in durable + 1 .. durable' : Updates(log'[u], p) => (e # 0 /\ e <= u) \/ d # 0
              /\ d = 0 => e = 0 \/ (e > durable /\ e <= durable')
  BY OutlookGrows
<1>11. \A p \in Page : outlook.dpt[p] <= durable
  BY DEF StoredInv
<1>12. ASSUME NEW p \in Page
       PROVE  outlook'.dpt[p] <= durable'
  BY <1>0, <1>1, <1>10, <1>11
<1>13. ASSUME NEW p \in Page, NEW i \in OfPage(p)', i <= durable', disk'[p].lsn < i
       PROVE  outlook'.dpt[p] # 0 /\ outlook'.dpt[p] <= i
  <2>1. /\ i \in 1 .. Len(log') /\ IsUpdate(log'[i]) /\ log'[i].page = p
        /\ disk[p].lsn <= disk'[p].lsn /\ disk[p].lsn \in Nat /\ disk'[p].lsn \in Nat
    BY <1>0, DiskGrows, <1>13 DEF OfPage, TypeOK, OnVolume
  <2>2. CASE i <= durable
    <3>1. i \in 1 .. durable /\ log'[i] = log[i]
      BY <1>0, <1>1, <2>1, <2>2
    <3>2. i \in OfPage(p) /\ disk[p].lsn < i
      BY <1>0, <1>1, <1>13, <2>1, <3>1 DEF OfPage
    <3>3. outlook.dpt[p] # 0 /\ outlook.dpt[p] <= i
      BY <2>2, <3>2 DEF StoredInv, Missed
    <3>. QED
      BY <1>10, <3>3
  <2>3. CASE i > durable
    <3>1. i \in durable + 1 .. durable' /\ i \in 1 .. durable'
      BY <1>0, <1>13, <2>1, <2>3
    <3>2. Updates(log'[i], p)
      <4>1. log'[i] \in LogRec
        BY <1>0, <2>1
      <4>. QED
        BY <2>1, <4>1, Kinds DEF Updates
    <3>. QED
      BY <1>0, <1>10, <1>11, <3>1, <3>2, <2>3
  <2>. QED
    BY <1>0, <2>1, <2>2, <2>3
<1>. QED
  BY <1>1, <1>2, <1>8, <1>12, <1>13 DEF StoredInv, Missed

\* A checkpoint that becomes the master is complete.
LEMMA MasterEnds ==
  ASSUME Base, ChkptInv, SetMaster
  PROVE  \E c \in chk.lsn + 1 .. durable :
           log[c].k = "cend" /\ \A i \in chk.lsn + 1 .. c - 1 : log[i].k # "cend"
<1>1. TypeOK /\ chk.at = "sync" /\ durable \in Nat /\ chk.lsn \in Nat
  BY DEF Base, TypeOK, Chkpt, SetMaster
<1>2. log[chk.lsn].k = "begin" /\ \E i \in chk.lsn .. durable : log[i].k = "cend"
  BY <1>1 DEF ChkptInv, SetMaster
<1>. DEFINE E == {i \in chk.lsn .. durable : log[i].k = "cend"}
<1>3. E \in SUBSET Nat /\ E # {}
  BY <1>1, <1>2
<1>4. PICK c \in E : \A k \in E : c <= k
  BY <1>3, LeastMember
<1>5. c \in chk.lsn + 1 .. durable /\ log[c].k = "cend"
  BY <1>1, <1>2, <1>4
<1>6. \A i \in chk.lsn + 1 .. c - 1 : i \notin E
  BY <1>1, <1>4
<1>7. \A i \in chk.lsn + 1 .. c - 1 : log[i].k # "cend"
  BY <1>1, <1>5, <1>6
<1>. QED
  BY <1>5, <1>7

\* The dirty page table that a restart would compute from a new master checkpoint.
LEMMA OutlookOfMaster ==
  ASSUME Base, StoredInv, ChkptInv, Next, SetMaster, NEW p \in Page
  PROVE  LET d == outlook'.dpt[p] IN
         /\ d \in Nat /\ d <= durable
         /\ chk.tab[p] # 0 => d = chk.tab[p]
         /\ chk.tab[p] = 0 => /\ \A u \in chk.lsn + 1 .. durable : Updates(log[u], p) => d # 0 /\ d <= u
                              /\ d = 0 \/ d > chk.lsn
<1>0. /\ TypeOK /\ LogInv /\ log \in Seq(LogRec) /\ Len(log) \in Nat /\ durable \in Nat /\ chk.lsn \in Nat
      /\ durable <= Len(log) /\ chk.tab \in [Page -> Nat] /\ chk.at = "sync" /\ 1 <= chk.lsn
  <2>1. TypeOK /\ LogInv /\ chk.at = "sync"
    BY DEF Base, SetMaster
  <2>2. chk \in Chkpt /\ log \in Seq(LogRec) /\ durable \in Nat /\ master \in Nat /\ sealed \in Nat
    BY <2>1 DEF TypeOK
  <2>3. chk.lsn \in Nat /\ chk.tab \in [Page -> Nat]
    BY <2>2 DEF Chkpt
  <2>4. 1 <= master /\ master <= chk.lsn /\ durable <= sealed /\ sealed <= Len(log)
    BY <2>1 DEF LogInv
  <2>. QED
    BY <2>1, <2>2, <2>3, <2>4
<1>1. master' = chk.lsn /\ UNCHANGED <<log, durable, disk>>
  BY <1>0, SetMasterIs DEF pageVars
<1>2. outlook' = Outlook(SubSeq(log, 1, durable), chk.lsn, disk)
  BY <1>1, OutlookIs
<1>3. PICK L : L = SubSeq(log, 1, durable)
  OBVIOUS
<1>4. L \in Seq(LogRec) /\ Len(L) = durable /\ \A i \in 1 .. durable : L[i] = log[i] /\ log[i] \in LogRec
  BY <1>0, <1>3, Prefix
<1>5. outlook'.dpt = DptOf(L, chk.lsn)
  BY <1>2, <1>3, OutlookDpt
<1>6. /\ log[chk.lsn].k = "begin" /\ chk.todo = {}
      /\ \A q \in Page \ chk.todo : \A i \in OfPage(q) :
           disk[q].lsn < i => IF chk.tab[q] = 0 THEN chk.lsn <= i ELSE chk.tab[q] <= i
      /\ \A q \in Page : \A k \in Since("cend") : chk.tab[q] <= k
      /\ \A i \in Since("bftab") : log[i].tab = chk.tab
      /\ (\E q \in Page : chk.tab[q] # 0) => \E i \in Since("bftab") : \A k \in Since("cend") : i < k
  BY <1>0 DEF ChkptInv
<1>7. PICK c \in chk.lsn + 1 .. durable : log[c].k = "cend" /\ \A i \in chk.lsn + 1 .. c - 1 : log[i].k # "cend"
  BY MasterEnds
<1>8. c \in Since("cend") /\ \A k : Since(k) = {i \in chk.lsn + 1 .. Len(log) : log[i].k = k}
  BY <1>0, <1>7 DEF Since
<1>9. \A i \in chk.lsn + 1 .. c : L[i] \in PageTab <=> i \in Since("bftab")
  <2>1. ASSUME NEW i \in chk.lsn + 1 .. c
        PROVE  L[i] \in PageTab <=> i \in Since("bftab")
    <3>1. i \in 1 .. durable /\ i \in chk.lsn + 1 .. Len(log)
      BY <1>0, <1>7
    <3>2. L[i] = log[i] /\ log[i] \in LogRec
      BY <1>4, <3>1
    <3>. QED
      BY <1>8, <3>1, <3>2, Kinds
  <2>. QED
    BY <2>1
<1>11. chk.lsn <= Len(L) /\ c \in chk.lsn + 1 .. Len(L) /\ L[c].k = "cend"
  BY <1>0, <1>4, <1>7
<1>12. \A i \in chk.lsn + 1 .. c - 1 : L[i].k # "cend"
  BY <1>0, <1>4, <1>7
<1>13. \A i \in chk.lsn + 1 .. c : L[i] \in PageTab => L[i].tab = chk.tab
  <2>1. \A i \in chk.lsn + 1 .. c : L[i] = log[i]
    BY <1>0, <1>4, <1>7
  <2>. QED
    BY <1>6, <1>9, <2>1
<1>14. (\E q \in Page : chk.tab[q] # 0) => \E b \in chk.lsn + 1 .. c - 1 : L[b] \in PageTab
  <2>1. SUFFICES ASSUME \E q \in Page : chk.tab[q] # 0
                 PROVE  \E b \in chk.lsn + 1 .. c - 1 : L[b] \in PageTab
    OBVIOUS
  <2>2. PICK b \in Since("bftab") : b < c
    BY <1>6, <1>8, <2>1
  <2>3. b \in chk.lsn + 1 .. c - 1 /\ b \in chk.lsn + 1 .. c
    BY <1>0, <1>7, <1>8, <2>2
  <2>. QED
    BY <1>9, <2>2, <2>3
<1>15. DptOf(L, chk.lsn) \in [Page -> Nat]
  BY <1>0, <1>4, <1>11, DptIs
<1>16. LET d == DptOf(L, chk.lsn)[p] IN
      /\ chk.tab[p] # 0 => d = chk.tab[p]
      /\ chk.tab[p] = 0 => /\ \A u \in chk.lsn + 1 .. Len(L) : Updates(L[u], p) => d # 0 /\ d <= u
                           /\ d = 0 \/ (d > chk.lsn /\ d <= Len(L))
  <2>1. PICK m \in Nat, tab \in [Page -> Nat] : m = chk.lsn /\ tab = chk.tab
    BY <1>0
  <2>2. /\ m <= Len(L) /\ c \in m + 1 .. Len(L) /\ L[c].k = "cend"
        /\ \A i \in m + 1 .. c - 1 : L[i].k # "cend"
        /\ \A i \in m + 1 .. c : L[i] \in PageTab => L[i].tab = tab
        /\ (\E q \in Page : tab[q] # 0) => \E b \in m + 1 .. c - 1 : L[b] \in PageTab
    BY <1>11, <1>12, <1>13, <1>14, <2>1
  <2>3. FromTab(L, m, p, tab[p])
    BY <1>4, <2>1, <2>2, DptOfCheckpoint
  <2>. QED
    BY <2>1, <2>3, Zenon DEF FromTab
<1>17. chk.tab[p] <= c /\ chk.tab[p] \in Nat
  BY <1>0, <1>6, <1>8
<1>18. \A u \in chk.lsn + 1 .. durable : L[u] = log[u]
  BY <1>0, <1>4
<1>. QED
  BY <1>0, <1>4, <1>5, <1>7, <1>15, <1>16, <1>17, <1>18

\* A new master record keeps StoredInv.
LEMMA StoredMaster ==
  ASSUME Base, StoredInv, ChkptInv, Next, SetMaster
  PROVE  StoredInv'
<1>0. TypeOK /\ log \in Seq(LogRec) /\ durable \in Nat /\ chk.lsn \in Nat /\ chk.at = "sync" /\ 1 <= chk.lsn
  <2>1. TypeOK /\ LogInv /\ chk.at = "sync"
    BY DEF Base, SetMaster
  <2>2. chk \in Chkpt /\ log \in Seq(LogRec) /\ durable \in Nat /\ master \in Nat
    BY <2>1 DEF TypeOK
  <2>3. chk.lsn \in Nat /\ 1 <= master /\ master <= chk.lsn
    BY <2>1, <2>2 DEF Chkpt, LogInv
  <2>. QED
    BY <2>1, <2>2, <2>3
<1>1. master' = chk.lsn /\ UNCHANGED <<log, durable, disk>>
  BY <1>0, SetMasterIs DEF pageVars
<1>2. outlook' = Outlook(SubSeq(log, 1, durable), master, disk)'
  BY OutlookIs
<1>3. /\ log[chk.lsn].k = "begin"
      /\ \A p \in Page : \A i \in OfPage(p) :
           disk[p].lsn < i => IF chk.tab[p] = 0 THEN chk.lsn <= i ELSE chk.tab[p] <= i
  BY <1>0 DEF ChkptInv
<1>4. ASSUME NEW p \in Page, NEW i \in OfPage(p), i <= durable, disk[p].lsn < i
      PROVE  outlook'.dpt[p] # 0 /\ outlook'.dpt[p] <= i
  <2>1. i \in 1 .. Len(log) /\ i \in 1 .. durable /\ IsUpdate(log[i]) /\ log[i].page = p
    BY <1>0, <1>4 DEF OfPage
  <2>2. IF chk.tab[p] = 0 THEN chk.lsn <= i ELSE chk.tab[p] <= i
    BY <1>3, <1>4
  <2>3. Updates(log[i], p) /\ i # chk.lsn
    <3>1. log[i] \in LogRec
      BY <1>0, <2>1
    <3>. QED
      BY <1>3, <2>1, <3>1, Kinds DEF Updates, IsUpdate
  <2>4. chk.tab[p] = 0 => i \in chk.lsn + 1 .. durable
    BY <1>0, <2>1, <2>2, <2>3
  <2>. QED
    BY <2>2, <2>3, <2>4, OutlookOfMaster
<1>5. \A p \in Page : OfPage(p)' = OfPage(p)
  BY <1>1 DEF OfPage
<1>6. \A p \in Page : outlook'.dpt[p] <= durable
  BY OutlookOfMaster
<1>7. \E c \in master' + 1 .. durable' : log'[c].k = "cend"
  BY <1>1, MasterEnds
<1>. QED
  BY <1>1, <1>2, <1>4, <1>5, <1>6, <1>7 DEF StoredInv, Missed

\* Every step keeps StoredInv.
LEMMA StoredStep ==
  ASSUME Base, Base', StoredInv, ChkptInv, Next
  PROVE  StoredInv'
BY StoredKept, StoredMaster

-----------------------------------------------------------------------------
(***************************************************************************)
(* The checkpoint being taken.                                             *)
(***************************************************************************)
\* The checkpoint's own parts, under a checkpoint.
ChkptTypes == chk.lsn \in Nat /\ chk.tab \in [Page -> Nat] /\ chk.todo \subseteq Page

\* Their types.
LEMMA ChkptTypesAre ==
  ASSUME TypeOK
  PROVE  ChkptTypes /\ Len(log) \in Nat
         /\ \A p \in Page : disk[p].lsn \in Nat
BY DEF TypeOK, Chkpt, ChkptTypes, OnVolume

\* The pages that have been looked at.
Seen ==
  \A p \in Page \ chk.todo : \A i \in OfPage(p) :
    disk[p].lsn < i => IF chk.tab[p] = 0 THEN chk.lsn <= i ELSE chk.tab[p] <= i

\* What is logged later is later than the checkpoint's begin.
LEMMA SeenGrows ==
  ASSUME Base, Base', Step, Seen, chk.at # "off",
         \A p \in Page : chk.tab[p] <= Len(log) + 1,
         chk'.todo = chk.todo, chk'.tab = chk.tab, chk'.lsn = chk.lsn,
         \A p \in Page : \A i \in OfPage(p)' : i \in OfPage(p) \/ i > Len(log)
  PROVE  Seen'
<1>0. TypeOK /\ TypeOK' /\ LogInv
  BY DEF Base
<1>1. ChkptTypes /\ Len(log) \in Nat /\ chk.lsn <= Len(log)
  BY <1>0, ChkptTypesAre DEF LogInv
<1>2. SUFFICES ASSUME NEW p \in Page \ chk.todo, NEW i \in OfPage(p)', disk'[p].lsn < i
               PROVE  IF chk.tab[p] = 0 THEN chk.lsn <= i ELSE chk.tab[p] <= i
  BY DEF Seen
<1>3. disk[p].lsn <= disk'[p].lsn /\ disk[p].lsn \in Nat /\ disk'[p].lsn \in Nat /\ i \in Nat
      /\ chk.tab[p] \in Nat /\ chk.lsn \in Nat
  <2>1. disk[p].lsn <= disk'[p].lsn
    BY DiskGrows
  <2>2. disk[p].lsn \in Nat /\ disk'[p].lsn \in Nat
    BY <1>0 DEF TypeOK, OnVolume
  <2>3. i \in Nat /\ chk.tab[p] \in Nat /\ chk.lsn \in Nat
    BY <1>1 DEF OfPage, ChkptTypes
  <2>. QED
    BY <2>1, <2>2, <2>3
<1>4. CASE i \in OfPage(p)
  BY <1>2, <1>3, <1>4 DEF Seen
<1>5. CASE i > Len(log)
  BY <1>1, <1>3, <1>5
<1>. QED
  BY <1>2, <1>4, <1>5

\* A step of another keeps what the checkpoint knows.
LEMMA ChkptKept ==
  ASSUME Base, Base', Step, ChkptInv,
         chk'.at = chk.at \/ (chk.at = "sync" /\ chk'.at = "scavenge"),
         chk'.todo = chk.todo, chk'.tab = chk.tab, chk'.lsn = chk.lsn,
         Len(log) <= Len(log'),
         \A i \in 1 .. Len(log) : \/ log'[i] = log[i]
                                  \/ log[i] \in Update /\ log'[i] \in Update,
         \A p \in Page : \A i \in OfPage(p)' : i \in OfPage(p) \/ i > Len(log),
         \A i \in Len(log) + 1 .. Len(log') : log'[i] \in Update \union Mark
  PROVE  ChkptInv'
<1>0. TypeOK /\ TypeOK' /\ LogInv
  BY DEF Base
<1>. SUFFICES ASSUME chk'.at # "off"
              PROVE  ChkptInv'
  BY DEF ChkptInv
<1>1. /\ ChkptTypes /\ Len(log) \in Nat /\ Len(log') \in Nat /\ chk.at # "off"
      /\ chk.lsn <= Len(log) /\ 1 <= chk.lsn /\ chk.lsn \in Nat
  <2>1. ChkptTypes /\ Len(log) \in Nat /\ chk.at # "off"
    BY <1>0, ChkptTypesAre
  <2>3. Len(log') \in Nat
    BY <1>0 DEF TypeOK
  <2>2. master \in Nat /\ 1 <= master /\ master <= chk.lsn /\ chk.lsn <= Len(log) /\ chk.lsn \in Nat
    BY <1>0, <2>1 DEF LogInv, TypeOK, ChkptTypes
  <2>. QED
    BY <2>1, <2>2, <2>3
<1>2. ASSUME NEW i \in 1 .. Len(log), log[i].k \in {"begin", "cend", "bftab"} \/ log'[i].k \in {"begin", "cend", "bftab"}
      PROVE  log'[i] = log[i]
  BY <1>2 DEF Update
<1>3. ASSUME NEW i \in Len(log) + 1 .. Len(log')
      PROVE  log'[i].k \notin {"begin", "cend", "bftab"}
  BY <1>3 DEF Update, Mark
<1>4. ASSUME NEW k \in {"cend", "bftab"}
      PROVE  Since(k)' = Since(k)
  <2>1. ASSUME NEW i \in chk.lsn + 1 .. Len(log'), log'[i].k = k
        PROVE  i \in chk.lsn + 1 .. Len(log) /\ log[i].k = k
    <3>1. i \notin Len(log) + 1 .. Len(log')
      BY <1>3, <2>1
    <3>2. i \in 1 .. Len(log) /\ i \in chk.lsn + 1 .. Len(log)
      BY <1>1, <3>1
    <3>. QED
      BY <1>2, <2>1, <3>2
  <2>2. ASSUME NEW i \in chk.lsn + 1 .. Len(log), log[i].k = k
        PROVE  i \in chk.lsn + 1 .. Len(log') /\ log'[i].k = k
    <3>1. i \in 1 .. Len(log) /\ i \in chk.lsn + 1 .. Len(log')
      BY <1>1
    <3>. QED
      BY <1>2, <2>2, <3>1
  <2>. QED
    BY <2>1, <2>2 DEF Since
<1>5. ASSUME NEW i \in Since("bftab")
      PROVE  log'[i] = log[i]
  BY <1>1, <1>2 DEF Since
<1>6. log'[chk.lsn].k = "begin"
  BY <1>1, <1>2 DEF ChkptInv
<1>7. Seen'
  BY <1>1, SeenGrows DEF ChkptInv, Seen
<1>8. \A p \in Page : chk'.tab[p] <= Len(log') + 1
  BY <1>1 DEF ChkptInv, ChkptTypes
<1>. QED
  BY <1>1, <1>4, <1>5, <1>6, <1>7, <1>8 DEF ChkptInv, Seen

\* A page that is looked at is listed if its disk lacks an update.
LEMMA ChkptScanned ==
  ASSUME Base, Base', Step, ChkptInv, RunInv, NEW p \in Page, ChkptScan(p), CleanerAside, InsertAside
  PROVE  ChkptInv'
<1>0. TypeOK /\ TypeOK' /\ LogInv /\ LatchInv /\ PageOk(p)
  BY DEF Base, PageInv
<1>1. /\ chk.at = "scan" /\ p \in chk.todo
      /\ chk'.at = "scan" /\ chk'.todo = chk.todo \ {p} /\ chk'.lsn = chk.lsn
      /\ \A q \in Page : chk'.tab[q] =
           IF q # p THEN chk.tab[q]
           ELSE IF ~frame[p].dirty THEN 0 ELSE IF frame[p].old # 0 THEN frame[p].old ELSE frame[p].rec
      /\ UNCHANGED <<log, disk>>
  BY <1>0, ChkptScanIs DEF ChkptScan, logVars, pageVars
<1>2. frame[p].old = 0 /\ latch[p] = NoXct
  BY <1>1 DEF CleanerAside, InsertAside, NoLsn
<1>3. Logged(p) = 0 /\ RunOk(p)
  BY <1>0, <1>1, <1>2, NotRestarting DEF Logged, RunInv
<1>4. /\ Len(log) \in Nat /\ frame[p].rec \in Nat /\ frame[p].rec <= Len(log) + 1
      /\ disk[p].lsn \in Nat
  <2>1. Len(log) \in Nat /\ disk[p].lsn \in Nat
    BY <1>0, ChkptTypesAre
  <2>2. frame[p] \in Frame
    BY <1>0 DEF TypeOK
  <2>. QED
    BY <1>0, <2>1, <2>2 DEF Frame, PageOk
<1>5. chk'.tab[p] = IF frame[p].dirty THEN frame[p].rec ELSE 0
  BY <1>1, <1>2
<1>6. ASSUME NEW i \in OfPage(p), disk[p].lsn < i
      PROVE  chk'.tab[p] # 0 /\ chk'.tab[p] <= i
  <2>1. i \in Nat /\ i # 0
    BY <1>4 DEF OfPage
  <2>2. frame[p].in
    BY <1>3, <1>4, <1>6, <2>1 DEF RunOk, Lsn
  <2>3. Marked(p, i)
    BY <1>2, <1>3, <1>6, <2>2 DEF RunOk
  <2>. QED
    BY <1>3, <1>5, <2>1, <2>3 DEF Marked
<1>7. \A k : Since(k)' = Since(k)
  BY <1>1 DEF Since
<1>8. Since("cend") = {} /\ Since("bftab") = {}
  BY <1>1 DEF ChkptInv
<1>9. ASSUME NEW q \in Page
      PROVE  chk'.tab[q] <= Len(log) + 1
  <2>1. CASE q = p
    BY <1>4, <1>5, <2>1
  <2>2. CASE q # p
    BY <1>1, <2>2 DEF ChkptInv
  <2>. QED
    BY <2>1, <2>2
<1>10. ASSUME NEW q \in Page \ chk'.todo, NEW i \in OfPage(q), disk[q].lsn < i
       PROVE  IF chk'.tab[q] = 0 THEN chk.lsn <= i ELSE chk'.tab[q] <= i
  <2>1. CASE q = p
    BY <1>6, <1>10, <2>1
  <2>2. CASE q # p
    BY <1>1, <1>10, <2>2 DEF ChkptInv
  <2>. QED
    BY <2>1, <2>2
<1>11. \A q : OfPage(q)' = OfPage(q)
  BY <1>1 DEF OfPage
<1>12. log[chk.lsn].k = "begin"
  BY <1>1 DEF ChkptInv
<1>. QED
  BY <1>1, <1>7, <1>8, <1>9, <1>10, <1>11, <1>12 DEF ChkptInv

\* One more record, none of a page.
LEMMA ChkptRecord ==
  ASSUME TypeOK, log' \in Seq(LogRec), Len(log') = Len(log) + 1,
         log'[Len(log) + 1].k \in {"begin", "cend", "bftab", "xtab"},
         \A i \in 1 .. Len(log) : log'[i] = log[i],
         chk.lsn \in 1 .. Len(log), chk'.lsn = chk.lsn
  PROVE  /\ \A p \in Page : OfPage(p)' = OfPage(p)
         /\ \A k : Since(k)' = IF log'[Len(log) + 1].k = k THEN Since(k) \union {Len(log) + 1} ELSE Since(k)
         /\ \A k : \A i \in Since(k) : log'[i] = log[i] /\ i <= Len(log)
         /\ log'[chk.lsn] = log[chk.lsn]
<1>0. Len(log) \in Nat
  BY DEF TypeOK
<1>1. ~IsUpdate(log'[Len(log) + 1])
  BY DEF IsUpdate
<1>2. \A p \in Page : OfPage(p)' = OfPage(p)
  BY <1>1, UpdatesGrow
<1>3. chk.lsn + 1 .. Len(log) + 1 = (chk.lsn + 1 .. Len(log)) \union {Len(log) + 1}
      /\ \A i \in chk.lsn + 1 .. Len(log) : i \in 1 .. Len(log) /\ i # Len(log) + 1 /\ i <= Len(log)
  BY <1>0
<1>4. ASSUME NEW k
      PROVE  Since(k)' = IF log'[Len(log) + 1].k = k THEN Since(k) \union {Len(log) + 1} ELSE Since(k)
  <2>1. Since(k)' = {i \in (chk.lsn + 1 .. Len(log)) \union {Len(log) + 1} : log'[i].k = k}
    BY <1>3 DEF Since
  <2>2. \A i \in chk.lsn + 1 .. Len(log) : log'[i] = log[i]
    BY <1>3
  <2>. QED
    BY <2>1, <2>2 DEF Since
<1>. QED
  BY <1>2, <1>3, <1>4 DEF Since

\* The steps of the checkpoint keep ChkptInv.
LEMMA ChkptTaken ==
  ASSUME Base, Base', Step, ChkptInv, Checkpointing
  PROVE  ChkptInv'
<1>0. TypeOK /\ TypeOK' /\ LogInv /\ LogInv' /\ log \in Seq(LogRec) /\ log' \in Seq(LogRec)
  BY DEF Base, TypeOK
<1>1. PICK n : n = Len(log) + 1
  OBVIOUS
<1>2. /\ Len(log) \in Nat /\ n \in Nat /\ n = Len(log) + 1 /\ ChkptTypes
      /\ \A p \in Page : chk.tab[p] \in Nat
  BY <1>0, <1>1, ChkptTypesAre DEF ChkptTypes
<1>3. log' = log \/ (Len(log') = n /\ \A i \in 1 .. Len(log) : log'[i] = log[i])
  BY <1>0, <1>1, ChkptLogs DEF Checkpointing
<1>4. chk.at # "off" => chk.lsn \in 1 .. Len(log)
  <2>1. chk.at # "off" => chk.lsn <= Len(log) /\ master <= chk.lsn
    BY <1>0 DEF LogInv
  <2>2. chk.lsn \in Nat /\ 1 <= master /\ master \in Nat
    BY <1>0, <1>2 DEF LogInv, TypeOK, ChkptTypes
  <2>. QED
    BY <1>2, <2>1, <2>2
<1>5. ASSUME chk.at # "off", chk.at # "scan", chk'.todo = chk.todo, chk'.tab = chk.tab, chk'.lsn = chk.lsn
      PROVE  /\ chk'.todo = {} /\ \A p \in Page : chk'.tab[p] <= Len(log) + 1
             /\ (\A p \in Page : OfPage(p)' = OfPage(p)) => Seen'
  <2>1. chk.todo = {} /\ Seen /\ \A p \in Page : chk.tab[p] <= Len(log) + 1
    BY <1>5 DEF ChkptInv, Seen
  <2>2. ASSUME \A p \in Page : OfPage(p)' = OfPage(p)
        PROVE  Seen'
    BY <1>5, <2>1, <2>2, SeenGrows
  <2>. QED
    BY <1>5, <2>1, <2>2
<1>6. ASSUME chk.at # "off", Len(log') = n, log'[n].k \in {"begin", "cend", "bftab", "xtab"}, chk'.lsn = chk.lsn
      PROVE  /\ \A p \in Page : OfPage(p)' = OfPage(p)
             /\ \A k : Since(k)' = IF log'[n].k = k THEN Since(k) \union {n} ELSE Since(k)
             /\ \A k : \A i \in Since(k) : log'[i] = log[i] /\ i < n /\ i \in Nat
             /\ log'[chk.lsn] = log[chk.lsn]
  <2>1. \A i \in 1 .. Len(log) : log'[i] = log[i]
    BY <1>3
  <2>2. /\ \A p \in Page : OfPage(p)' = OfPage(p)
        /\ \A k : Since(k)' = IF log'[n].k = k THEN Since(k) \union {n} ELSE Since(k)
        /\ \A k : \A i \in Since(k) : log'[i] = log[i] /\ i <= Len(log)
        /\ log'[chk.lsn] = log[chk.lsn]
    BY <1>0, <1>1, <1>4, <1>6, <2>1, ChkptRecord
  <2>3. \A k : \A i \in Since(k) : i \in Nat
    BY <1>2, <1>4, <1>6 DEF Since
  <2>. QED
    BY <1>2, <2>2, <2>3
\* chkpt_begin
<1>7. CASE /\ chk.at = "off" /\ chk'.at = "scan" /\ chk'.todo = Page /\ chk'.lsn = n
           /\ Len(log') = n /\ log'[n].k = "begin" /\ \A p \in Page : chk'.tab[p] = 0
  <2>1. \A k : Since(k)' = {}
    BY <1>2, <1>7 DEF Since
  <2>. QED
    BY <1>2, <1>7, <2>1 DEF ChkptInv
\* the table of dirty pages
<1>8. CASE /\ chk.at = "scan" /\ chk.todo = {} /\ chk'.at = "xcts" /\ chk'.todo = {}
           /\ chk'.lsn = chk.lsn /\ chk'.tab = chk.tab
           /\ IF \E p \in Page : chk.tab[p] # 0
              THEN Len(log') = n /\ log'[n].k = "bftab" /\ log'[n].tab = chk.tab
              ELSE log' = log
  <2>1. /\ log[chk.lsn].k = "begin" /\ Seen /\ \A p \in Page : chk.tab[p] <= Len(log) + 1
        /\ Since("cend") = {} /\ Since("bftab") = {}
    BY <1>8 DEF ChkptInv, Seen
  <2>2. CASE log' = log /\ ~\E p \in Page : chk.tab[p] # 0
    <3>1. \A k : Since(k)' = Since(k)
      BY <1>8, <2>2 DEF Since
    <3>2. Seen'
      <4>1. \A p \in Page : OfPage(p)' = OfPage(p)
        BY <2>2 DEF OfPage
      <4>2. chk'.todo = chk.todo /\ chk.at # "off"
        BY <1>8
      <4>. QED
        BY <1>8, <2>1, <4>1, <4>2, SeenGrows
    <3>. QED
      BY <1>8, <2>1, <2>2, <3>1, <3>2 DEF ChkptInv, Seen
  <2>3. CASE Len(log') = n /\ log'[n].k = "bftab" /\ log'[n].tab = chk.tab
    <3>1. /\ \A p \in Page : OfPage(p)' = OfPage(p)
          /\ Since("cend")' = {} /\ Since("bftab")' = {n} /\ log'[chk.lsn].k = "begin"
      BY <1>6, <1>8, <2>1, <2>3
    <3>2. Seen'
      <4>1. chk'.todo = chk.todo /\ chk.at # "off"
        BY <1>8
      <4>. QED
        BY <1>8, <2>1, <3>1, <4>1, SeenGrows
    <3>3. \A p \in Page : chk.tab[p] <= Len(log') + 1
      BY <1>2, <2>1, <2>3
    <3>. QED
      BY <1>8, <2>3, <3>1, <3>2, <3>3 DEF ChkptInv, Seen
  <2>. QED
    BY <1>8, <2>2, <2>3
\* the transaction table
<1>9. CASE /\ chk.at = "xcts" /\ chk'.at = "end" /\ chk'.todo = chk.todo /\ chk'.lsn = chk.lsn
           /\ chk'.tab = chk.tab /\ Len(log') = n /\ log'[n].k = "xtab"
  <2>1. /\ log[chk.lsn].k = "begin" /\ Since("cend") = {}
        /\ \A i \in Since("bftab") : log[i].tab = chk.tab
        /\ (\E p \in Page : chk.tab[p] # 0) => \E i \in Since("bftab") : \A c \in Since("cend") : i < c
    BY <1>9 DEF ChkptInv
  <2>2. /\ \A p \in Page : OfPage(p)' = OfPage(p)
        /\ Since("cend")' = Since("cend") /\ Since("bftab")' = Since("bftab")
        /\ \A i \in Since("bftab") : log'[i] = log[i]
        /\ log'[chk.lsn] = log[chk.lsn]
    BY <1>6, <1>9
  <2>3. chk'.todo = {} /\ Seen' /\ \A p \in Page : chk'.tab[p] <= Len(log') + 1
    BY <1>2, <1>5, <1>9, <2>2
  <2>. QED
    BY <1>9, <2>1, <2>2, <2>3 DEF ChkptInv, Seen
\* the end of the checkpoint
<1>10. CASE /\ chk.at = "end" /\ chk'.at = "sync" /\ chk'.todo = chk.todo /\ chk'.lsn = chk.lsn
            /\ chk'.tab = chk.tab /\ Len(log') = n /\ log'[n].k = "cend"
  <2>1. /\ log[chk.lsn].k = "begin" /\ Since("cend") = {}
        /\ \A i \in Since("bftab") : log[i].tab = chk.tab
        /\ (\E p \in Page : chk.tab[p] # 0) => \E i \in Since("bftab") : TRUE
    BY <1>10 DEF ChkptInv
  <2>2. /\ \A p \in Page : OfPage(p)' = OfPage(p)
        /\ Since("cend")' = {n} /\ Since("bftab")' = Since("bftab")
        /\ \A i \in Since("bftab") : log'[i] = log[i] /\ i < n
        /\ log'[chk.lsn] = log[chk.lsn]
    BY <1>6, <1>10, <2>1
  <2>3. chk'.todo = {} /\ Seen' /\ \A p \in Page : chk'.tab[p] <= n /\ chk'.tab[p] <= Len(log') + 1
    BY <1>2, <1>5, <1>10, <2>2
  <2>. QED
    BY <1>10, <2>1, <2>2, <2>3 DEF ChkptInv, Seen
<1>. QED
  BY <1>0, <1>1, <1>7, <1>8, <1>9, <1>10, ChkptSteps

\* Every step keeps ChkptInv.
LEMMA ChkptStep ==
  ASSUME Base, Base', Step, ChkptInv, RunInv, CleanerAside, InsertAside
  PROVE  ChkptInv'
<1>0. TypeOK /\ LogInv /\ ChainInv /\ LatchInv /\ log \in Seq(LogRec) /\ Len(log) \in Nat
  BY DEF Base, TypeOK
<1>1. ASSUME log' = log, chk'.at = chk.at \/ (chk.at = "sync" /\ chk'.at = "scavenge"),
             chk'.todo = chk.todo, chk'.tab = chk.tab, chk'.lsn = chk.lsn
      PROVE  ChkptInv'
  <2>1. \A i : i \notin Len(log) + 1 .. Len(log')
    BY <1>0, <1>1
  <2>2. \A p : OfPage(p)' = OfPage(p)
    BY <1>1 DEF OfPage
  <2>. QED
    BY <1>0, <1>1, <2>1, <2>2, ChkptKept
<1>2. ASSUME NEW x \in Xct, Quiet(x)
      PROVE  ChkptInv'
  BY <1>0, <1>1, <1>2, QuietKeeps DEF logVars
<1>3. ASSUME NEW x \in Xct, Logging(x)
      PROVE  ChkptInv'
  <2>1. /\ chk' = chk /\ log' \in Seq(LogRec) /\ Len(log') = Len(log) + 1
        /\ \A i \in 1 .. Len(log) : log'[i] = log[i]
        /\ log'[Len(log) + 1] \in Update \union Mark
    BY <1>0, <1>3, LoggingIs, LogTypes DEF Logging
  <2>2. \A i \in Len(log) + 1 .. Len(log') : log'[i] \in Update \union Mark
    BY <1>0, <2>1
  <2>3. \A p \in Page : \A i \in OfPage(p)' : i \in OfPage(p) \/ i > Len(log)
    BY <1>0, <2>1 DEF OfPage
  <2>4. Len(log) <= Len(log')
    BY <1>0, <2>1
  <2>. QED
    BY <2>1, <2>2, <2>3, <2>4, ChkptKept
<1>4. ASSUME NEW x \in Xct, CompensateInLog(x)
      PROVE  ChkptInv'
  <2>1. chk' = chk
    BY <1>4 DEF CompensateInLog
  <2>2. /\ Len(log') = Len(log) /\ log[xct[x].last] \in Update /\ log'[xct[x].last] \in Update
        /\ \A i \in 1 .. Len(log) : i # xct[x].last => log'[i] = log[i]
    BY <1>0, <1>4, CompensateTypes, Zenon
  <2>3. \A p \in Page : OfPage(p)' = OfPage(p)
    BY <1>0, <1>4, CompensateOwn
  <2>4. Len(log) <= Len(log') /\ \A i : i \notin Len(log) + 1 .. Len(log')
    BY <1>0, <2>2
  <2>5. \A i \in 1 .. Len(log) : log'[i] = log[i] \/ (log[i] \in Update /\ log'[i] \in Update)
    BY <2>2
  <2>. QED
    BY <2>1, <2>3, <2>4, <2>5, ChkptKept
<1>5. CASE \E p \in Page : Copy(p) \/ WriteCopy(p) \/ Drop(p)
  BY <1>1, <1>5 DEF Copy, WriteCopy, Drop, logVars
<1>6. CASE \E p \in Page : ChkptScan(p)
  BY <1>6, ChkptScanned
<1>7. CASE Checkpointing
  BY <1>7, ChkptTaken
<1>8. CASE SetMaster
  BY <1>0, <1>1, <1>8, SetMasterIs
<1>9. CASE Scavenge \/ Crash
  <2>1. chk'.at = "off"
    BY <1>0, <1>9, ScavengeIs, CrashIs
  <2>. QED
    BY <2>1 DEF ChkptInv
<1>10. CASE FlushBegins \/ FlushEnds \/ RedoEnds \/ ForceEnds \/ Analyse \/ RedoRecord \/ UndoEnds
  BY <1>1, <1>10 DEF FlushBegins, FlushEnds, RedoEnds, ForceEnds, Analyse, RedoRecord, UndoEnds, logVars
<1>. QED
  BY <1>2, <1>3, <1>4, <1>5, <1>6, <1>7, <1>8, <1>9, <1>10, StepCases DEF Flushing

-----------------------------------------------------------------------------
(***************************************************************************)
(* Nothing is missed.                                                      *)
(***************************************************************************)
\* Every step keeps IInv,
LEMMA IInvStep ==
  ASSUME IInv, [Next /\ CleanerAside /\ InsertAside /\ ListedHeard]_vars
  PROVE  IInv'
<1>1. CASE Next /\ CleanerAside /\ InsertAside
  <2>1. Base /\ RunInv /\ RestartInv /\ StoredInv /\ ChkptInv /\ Step
    BY <1>1 DEF IInv, Next
  <2>2. Base' /\ TypeOK'
    BY <1>1, <2>1, BaseStep DEF Base
  <2>3. RunInv' /\ RestartInv'
    BY <2>1, <2>2, RunStep, RestartStep
  <2>4. StoredInv'
    BY <1>1, <2>1, <2>2, StoredStep
  <2>5. ChkptInv'
    BY <1>1, <2>1, <2>2, ChkptStep
  <2>. QED
    BY <2>2, <2>3, <2>4, <2>5 DEF IInv
<1>2. CASE UNCHANGED vars
  <2>1. UNCHANGED <<log, durable, master, disk, frame, copy, latch, xct, thread, chk, mode, dptab, redo, outlook>>
    BY <1>2 DEF vars, logVars, pageVars, restartVars
  <2>2. Base /\ RunInv /\ RestartInv /\ StoredInv /\ ChkptInv
    BY DEF IInv
  <2>3. Base'
    BY <1>2, <2>2, BaseStep
  <2>4. \A p : OfPage(p)' = OfPage(p) /\ Logged(p)' = Logged(p) /\ Lsn(p)' = Lsn(p)
    BY <2>1 DEF OfPage, Logged, Lsn, At
  <2>5. RunInv'
    BY <2>1, <2>2, <2>4 DEF RunInv, RunOk, Marked, Restarting
  <2>6. RestartInv'
    BY <2>1, <2>2, <2>4 DEF RestartInv, Restarting
  <2>7. StoredInv'
    BY <2>1, <2>2, <2>4 DEF StoredInv, Missed
  <2>8. ChkptInv'
    BY <2>1, <2>2, <2>4 DEF ChkptInv, Since
  <2>. QED
    BY <2>3, <2>5, <2>6, <2>7, <2>8 DEF IInv
<1>. QED
  BY <1>1, <1>2

\* and it holds to begin with.
LEMMA IInvInit ==
  ASSUME Init
  PROVE  IInv
<1>0. Base
  BY BaseInit
<1>1. /\ log = FirstLog /\ durable = Len(FirstLog) /\ master = 1
      /\ mode = "up" /\ chk = NoChkpt /\ outlook = Outlook(log, master, disk)
  BY DEF Init
<1>2. Len(log) = 3 /\ log \in Seq(LogRec) /\ log[1].k = "begin" /\ log[2].k = "xtab" /\ log[3].k = "cend"
      /\ durable = 3 /\ SubSeq(log, 1, durable) = log
  <2>1. Len(log) = 3 /\ log \in Seq(LogRec) /\ durable = Len(log)
        /\ log[1].k = "begin" /\ log[2].k = "xtab" /\ log[3].k = "cend"
    BY <1>1, FirstLogIs
  <2>2. SubSeq(log, 1, Len(log)) = log
    BY <2>1
  <2>. QED
    BY <2>1, <2>2
<1>3. \A p : OfPage(p) = {}
  <2>1. \A i \in 1 .. 3 : i = 1 \/ i = 2 \/ i = 3
    OBVIOUS
  <2>. QED
    BY <1>2, <2>1 DEF OfPage, IsUpdate
<1>4. RunInv /\ RestartInv /\ ChkptInv
  BY <1>1, <1>3, Starts DEF RunInv, RunOk, RestartInv, Restarting, ChkptInv
<1>5. StoredInv
  <2>1. outlook = Outlook(SubSeq(log, 1, durable), master, disk)
    BY <1>1, <1>2
  <2>2. outlook.dpt = DptOf(log, 1)
    BY <1>1, OutlookDpt
  <2>3. ASSUME NEW p \in Page
        PROVE  outlook.dpt[p] <= durable
    <3>1. PICK tab \in [Page -> Nat] : tab = [q \in Page |-> 0]
      OBVIOUS
    <3>2. PICK m \in Nat, c \in Nat : m = 1 /\ c = 3
      OBVIOUS
    <3>3. /\ m <= Len(log) /\ c \in m + 1 .. Len(log) /\ log[c].k = "cend"
          /\ \A i \in m + 1 .. c - 1 : log[i].k # "cend"
          /\ \A i \in m + 1 .. c : log[i] \in PageTab => log[i].tab = tab
          /\ (\E q \in Page : tab[q] # 0) => \E b \in m + 1 .. c - 1 : log[b] \in PageTab
      <4>1. \A i \in m + 1 .. c : i = 2 \/ i = 3
        BY <3>2
      <4>2. \A i \in m + 1 .. c - 1 : i = 2
        BY <3>2
      <4>3. log[2] \notin PageTab /\ log[3] \notin PageTab
        BY <1>2 DEF PageTab
      <4>4. ~\E q \in Page : tab[q] # 0
        BY <3>1
      <4>5. m <= Len(log) /\ c \in m + 1 .. Len(log) /\ log[c].k = "cend"
        BY <1>2, <3>2
      <4>. QED
        BY <1>2, <4>1, <4>2, <4>3, <4>4, <4>5
    <3>4. DptOf(log, 1)[p] = 0 \/ (DptOf(log, 1)[p] > 1 /\ DptOf(log, 1)[p] <= Len(log))
      <4>1. tab[p] = 0
        BY <3>1
      <4>2. log \in Seq(LogRec) /\ tab \in [Page -> Nat] /\ m \in Nat
        BY <1>2, <3>1, <3>2
      <4>3. FromTab(log, m, p, tab[p])
        BY <3>3, <4>2, DptOfCheckpoint
      <4>. QED
        BY <3>2, <4>1, <4>3 DEF FromTab
    <3>. QED
      BY <1>2, <2>2, <3>4
  <2>4. \E c \in master + 1 .. durable : log[c].k = "cend"
    <3>1. 3 \in master + 1 .. durable
      BY <1>1, <1>2
    <3>. QED
      BY <1>2, <3>1
  <2>. QED
    BY <1>3, <2>1, <2>3, <2>4 DEF StoredInv
<1>. QED
  BY <1>0, <1>4, <1>5 DEF IInv

\* The dirty page table of the outlook has lsns.
LEMMA OutlookTyped ==
  ASSUME TypeOK, LogInv, StoredInv
  PROVE  outlook.dpt \in [Page -> Nat]
<1>1. log \in Seq(LogRec) /\ durable \in Nat /\ sealed \in Nat /\ master \in Nat /\ Len(log) \in Nat
  BY DEF TypeOK
<1>2. master <= durable /\ durable <= Len(log)
  BY <1>1 DEF LogInv
<1>3. PICK L : L = SubSeq(log, 1, durable)
  OBVIOUS
<1>4. L \in Seq(LogRec) /\ Len(L) = durable
  BY <1>1, <1>2, <1>3, Prefix
<1>5. DptOf(L, master) \in [Page -> Nat]
  BY <1>1, <1>2, <1>4, DptIs
<1>. QED
  BY <1>3, <1>5, OutlookDpt DEF StoredInv

\* A durable update that is not on its page on disk is in the dirty page table of a restart
\* that begins now, with a rec_lsn no later than it: between get_rec_lsn's look at the frames,
\* the pages that are dirtied, cleaned, replaced and dirtied again meanwhile, the master
\* record and the analysis pass, no update is lost.
THEOREM NothingIsMissed == SparedSpec => []NothingMissed
<1>1. Init => IInv
  BY IInvInit
<1>2. IInv /\ [Next /\ CleanerAside /\ InsertAside /\ ListedHeard]_vars => IInv'
  BY IInvStep
<1>3. IInv => NothingMissed
  <2>1. SUFFICES ASSUME IInv, NEW i \in low .. durable, IsUpdate(log[i]), disk[log[i].page].lsn < i
                 PROVE  Wanted(log[i], i, outlook.dpt)
    BY DEF NothingMissed
  <2>2. TypeOK /\ LogInv /\ StoredInv
    BY <2>1 DEF IInv, Base
  <2>3. /\ log \in Seq(LogRec) /\ low \in Nat /\ durable \in Nat /\ sealed \in Nat /\ Len(log) \in Nat
        /\ 1 <= low /\ durable <= sealed /\ sealed <= Len(log)
    BY <2>2 DEF TypeOK, LogInv
  <2>4. i \in 1 .. Len(log) /\ i <= durable
    BY <2>3
  <2>5. log[i].page \in Page
    <3>1. log[i] \in LogRec
      BY <2>3, <2>4
    <3>. QED
      BY <2>1, <3>1, Kinds
  <2>6. i \in OfPage(log[i].page)
    BY <2>1, <2>4 DEF OfPage
  <2>7. outlook.dpt[log[i].page] # 0 /\ outlook.dpt[log[i].page] <= i
    BY <2>1, <2>2, <2>4, <2>5, <2>6 DEF StoredInv, Missed
  <2>8. i \in Nat /\ outlook.dpt[log[i].page] \in Nat
    BY <2>2, <2>4, <2>5, OutlookTyped
  <2>. QED
    BY <2>1, <2>7, <2>8 DEF Wanted, NoLsn
<1>. QED
  BY <1>1, <1>2, <1>3, PTL DEF SparedSpec

-----------------------------------------------------------------------------
(***************************************************************************)
(* How far back restart reads.                                             *)
(***************************************************************************)
\* A page that stays dirty, or latched, keeps its rec_lsn.
LEMMA RecStays ==
  ASSUME TypeOK, TypeOK', NEW p \in Page, Touch(p),
         frame[p].rec # 0 => frame[p].dirty \/ latch[p] # NoXct
  PROVE  frame'[p].rec # 0 =>
           /\ frame'[p].dirty \/ latch'[p] # NoXct
           /\ frame'[p].rec = Len(log) + 1 \/ (frame[p].rec # 0 /\ frame'[p].rec = frame[p].rec)
BY Starts DEF Touch, Untouched, Fixed, Inserted, Released, Copied, Written, Dropped

\* low, the master record and the durable lsn are in order.
LEMMA LowLsns ==
  ASSUME TypeOK, LogInv
  PROVE  /\ low \in Nat /\ master \in Nat /\ durable \in Nat /\ Len(log) \in Nat
         /\ low <= master /\ master <= durable /\ durable <= Len(log) /\ low <= Len(log) + 1
<1>1. /\ low \in Nat /\ master \in Nat /\ durable \in Nat /\ sealed \in Nat /\ Len(log) \in Nat
  BY DEF TypeOK
<1>2. low <= master /\ master <= durable /\ durable <= sealed /\ sealed <= Len(log)
  BY DEF LogInv
<1>. QED
  BY <1>1, <1>2

\* Nothing but scavenge moves the tail of the log.
LEMMA LowStays ==
  ASSUME Base, Step, ~Scavenge
  PROVE  low' = low
<1>0. TypeOK /\ LogInv /\ ChainInv /\ LatchInv
  BY DEF Base
<1>1. CASE \E x \in Xct : Quiet(x) \/ Logging(x) \/ CompensateInLog(x)
  BY <1>0, <1>1, QuietKeeps, LoggingIs, CompensateIs DEF logVars
<1>2. CASE \E p \in Page : Copy(p) \/ WriteCopy(p) \/ ChkptScan(p) \/ Drop(p)
  BY <1>2 DEF Copy, WriteCopy, ChkptScan, Drop, logVars
<1>3. CASE Checkpointing
  BY <1>0, <1>3, ChkptLogs DEF Checkpointing
<1>4. CASE Flushing
  BY <1>4 DEF Flushing, FlushBegins, FlushEnds, SetMaster, RedoEnds, ForceEnds, logVars
<1>5. CASE Crash \/ Analyse \/ RedoRecord \/ UndoEnds
  BY <1>5 DEF Crash, Analyse, RedoRecord, UndoEnds, logVars
<1>. QED
  BY <1>1, <1>2, <1>3, <1>4, <1>5, StepCases

\* What a step does to the checkpoint, seen from a page.
LEMMA ChkptMoves ==
  ASSUME Base, Step, chk'.at # "off"
  PROVE  \/ chk.at = "off" /\ chk'.todo = Page /\ chk'.at = "scan"
         \/ \E p \in Page : ChkptScan(p)
         \/ /\ chk.at # "off" /\ chk'.todo = chk.todo /\ chk'.tab = chk.tab /\ chk'.lsn = chk.lsn
            /\ chk'.at = "scavenge" => chk.at = "scavenge" \/ SetMaster
<1>0. TypeOK /\ LogInv /\ ChainInv /\ LatchInv
  BY DEF Base
<1>1. CASE \E x \in Xct : Quiet(x) \/ Logging(x) \/ CompensateInLog(x)
  BY <1>0, <1>1, QuietKeeps, LoggingIs, CompensateIs
<1>2. CASE \E p \in Page : Copy(p) \/ WriteCopy(p) \/ Drop(p)
  BY <1>2 DEF Copy, WriteCopy, Drop
<1>3. CASE Checkpointing
  BY <1>0, <1>3, ChkptSteps
<1>4. CASE Flushing
  <2>1. ~Scavenge
    BY <1>0, ScavengeIs
  <2>2. CASE SetMaster
    BY <1>0, <2>2, SetMasterIs
  <2>. QED
    BY <1>4, <2>1, <2>2 DEF Flushing, FlushBegins, FlushEnds, RedoEnds, ForceEnds
<1>5. CASE Crash \/ Analyse \/ RedoRecord \/ UndoEnds
  <2>1. ~Crash
    BY <1>0, CrashIs
  <2>. QED
    BY <1>5, <2>1 DEF Analyse, RedoRecord, UndoEnds
<1>6. CASE \E p \in Page : ChkptScan(p)
  BY <1>6
<1>. QED
  BY <1>1, <1>2, <1>3, <1>4, <1>5, <1>6, StepCases

\* Every step keeps FrameBack,
LEMMA FrameBackStep ==
  ASSUME Base, Base', Step, RestartInv, ChkptInv, FrameBack, ChkptBack
  PROVE  FrameBack'
<1>0. TypeOK /\ TypeOK' /\ LogInv /\ LatchInv /\ PageInv
  BY DEF Base
<1>1. CASE Restarting'
  BY <1>1 DEF FrameBack
<1>2. CASE Restarting /\ ~Restarting'
  <2>1. ForceEnds
    BY <1>2, RestartLeft
  <2>2. \A p \in Page : frame'[p] = frame[p] /\ ~frame[p].in
    BY <2>1 DEF ForceEnds, pageVars
  <2>3. \A p \in Page : frame'[p].rec = 0
    BY <1>0, <2>2, Starts DEF PageInv, PageOk
  <2>. QED
    BY <2>3 DEF FrameBack
<1>3. CASE Scavenge
  <2>1. /\ chk.at = "scavenge" /\ low' \in Nat /\ low \in Nat /\ UNCHANGED <<frame, latch, mode>>
        /\ low' = low \/ low' <= MinRecLsn
    BY <1>0, <1>3, ScavengeIs DEF Scavenge, pageVars, restartVars, TypeOK
  <2>2. chk.todo = {}
    BY <2>1 DEF ChkptInv
  <2>3. ASSUME NEW p \in Page, frame[p].rec # 0, ~Restarting
        PROVE  low' <= frame[p].rec
    <3>1. low <= frame[p].rec /\ frame[p].rec \in Nat
      BY <1>0, <2>3 DEF FrameBack, TypeOK, Frame
    <3>2. IF chk.tab[p] = 0 THEN chk.lsn <= frame[p].rec ELSE chk.tab[p] <= frame[p].rec
      BY <2>1, <2>2, <2>3 DEF ChkptBack
    <3>3. MinRecLsn \in Nat /\ MinRecLsn <= chk.lsn /\ (chk.tab[p] # 0 => MinRecLsn <= chk.tab[p])
      BY <1>0, MinRecLsnIs
    <3>4. ChkptTypes
      BY <1>0, ChkptTypesAre
    <3>. QED
      BY <2>1, <3>1, <3>2, <3>3, <3>4 DEF ChkptTypes
  <2>. QED
    BY <2>1, <2>3 DEF FrameBack, Restarting
<1>4. CASE ~Restarting /\ ~Restarting' /\ ~Scavenge
  <2>1. ~Crash /\ ~RedoRecord /\ low' = low
    BY <1>4, LowStays DEF Crash, RedoRecord, Restarting
  <2>2. ASSUME NEW p \in Page, frame'[p].rec # 0
        PROVE  low <= frame'[p].rec /\ (frame'[p].dirty \/ latch'[p] # NoXct)
    <3>1. Touch(p) /\ (frame[p].rec # 0 => low <= frame[p].rec /\ (frame[p].dirty \/ latch[p] # NoXct))
      BY <1>4, <2>1, TouchStep DEF FrameBack
    <3>2. /\ frame'[p].dirty \/ latch'[p] # NoXct
          /\ frame'[p].rec = Len(log) + 1 \/ (frame[p].rec # 0 /\ frame'[p].rec = frame[p].rec)
      BY <1>0, <2>2, <3>1, RecStays
    <3>3. low <= Len(log) + 1
      BY <1>0, LowLsns
    <3>. QED
      BY <3>1, <3>2, <3>3
  <2>. QED
    BY <2>1, <2>2 DEF FrameBack
<1>. QED
  BY <1>1, <1>2, <1>3, <1>4

\* ChkptBack,
LEMMA ChkptBackStep ==
  ASSUME Base, Base', Step, ChkptInv, FrameBack, ChkptBack, CleanerAside, InsertAside
  PROVE  ChkptBack'
<1>0. TypeOK /\ TypeOK' /\ LogInv /\ LatchInv /\ PageInv /\ ChkptTypes
  BY ChkptTypesAre DEF Base
<1>. SUFFICES ASSUME chk'.at # "off"
              PROVE  ChkptBack'
  BY DEF ChkptBack
<1>1. CASE chk.at = "off" /\ chk'.todo = Page /\ chk'.at = "scan"
  BY <1>1 DEF ChkptBack
<1>2. ASSUME NEW p \in Page, ChkptScan(p)
      PROVE  ChkptBack'
  <2>1. /\ chk.at = "scan" /\ p \in chk.todo
        /\ chk'.at = "scan" /\ chk'.todo = chk.todo \ {p} /\ chk'.lsn = chk.lsn
        /\ \A q \in Page : chk'.tab[q] =
             IF q # p THEN chk.tab[q]
             ELSE IF ~frame[p].dirty THEN 0 ELSE IF frame[p].old # 0 THEN frame[p].old ELSE frame[p].rec
        /\ UNCHANGED <<low, frame, latch>>
    BY <1>0, <1>2, ChkptScanIs DEF ChkptScan, logVars, pageVars
  <2>2. frame[p].old = 0 /\ latch[p] = NoXct
    BY <2>1 DEF CleanerAside, InsertAside, NoLsn
  <2>3. frame[p].rec # 0 => low <= frame[p].rec /\ frame[p].dirty
    BY <1>0, <1>2, <2>2, NotRestarting DEF FrameBack
  <2>4. frame[p].rec \in Nat
    BY <1>0 DEF TypeOK, Frame
  <2>5. chk'.tab[p] = IF frame[p].dirty THEN frame[p].rec ELSE 0
    BY <2>1, <2>2
  <2>. QED
    BY <2>1, <2>3, <2>4, <2>5 DEF ChkptBack
<1>3. CASE chk.at # "off" /\ chk'.todo = chk.todo /\ chk'.tab = chk.tab /\ chk'.lsn = chk.lsn
  <2>1. ~Crash /\ ~RedoRecord /\ ~Scavenge /\ ~Restarting
    BY <1>0, <1>3, CrashIs, ScavengeIs DEF RedoRecord, LogInv, Restarting
  <2>2. low' = low
    BY <2>1, LowStays
  <2>3. ASSUME NEW p \in Page \ chk.todo, frame'[p].rec # 0
        PROVE  IF chk.tab[p] = 0 THEN chk.lsn <= frame'[p].rec ELSE chk.tab[p] <= frame'[p].rec
    <3>1. Touch(p) /\ (frame[p].rec # 0 => frame[p].dirty \/ latch[p] # NoXct)
      BY <2>1, TouchStep DEF FrameBack
    <3>2. frame'[p].rec = Len(log) + 1 \/ (frame[p].rec # 0 /\ frame'[p].rec = frame[p].rec)
      BY <1>0, <2>3, <3>1, RecStays
    <3>3. chk.tab[p] <= Len(log) + 1 /\ chk.lsn <= Len(log) + 1
      <4>1. chk.lsn <= Len(log) /\ Len(log) \in Nat /\ chk.lsn \in Nat
        BY <1>0, <1>3 DEF LogInv, TypeOK, ChkptTypes
      <4>. QED
        BY <1>3, <4>1 DEF ChkptInv
    <3>. QED
      BY <1>3, <3>2, <3>3 DEF ChkptBack
  <2>. QED
    BY <1>3, <2>2, <2>3 DEF ChkptBack
<1>. QED
  BY <1>1, <1>2, <1>3, ChkptMoves

\* StoredBack,
LEMMA StoredBackStep ==
  ASSUME Base, Base', StoredInv, ChkptInv, ChkptBack, StoredBack, Next
  PROVE  StoredBack'
<1>0. TypeOK /\ TypeOK' /\ LogInv /\ Step /\ ChkptTypes
  BY ChkptTypesAre DEF Base, Next
<1>1. /\ low \in Nat /\ master \in Nat /\ durable \in Nat /\ low <= master /\ master <= durable
      /\ MinRecLsn \in Nat /\ MinRecLsn <= chk.lsn /\ chk.lsn \in Nat
      /\ \A p \in Page : chk.tab[p] \in Nat /\ (chk.tab[p] # 0 => MinRecLsn <= chk.tab[p])
  BY <1>0, LowLsns, MinRecLsnIs DEF ChkptTypes
<1>2. CASE SetMaster
  <2>1. /\ chk.at = "sync" /\ chk'.at = "scavenge" /\ low' = low
        /\ chk'.lsn = chk.lsn /\ chk'.tab = chk.tab
    BY <1>0, <1>2, SetMasterIs DEF SetMaster
  <2>2. MinRecLsn' = MinRecLsn
    BY <2>1 DEF MinRecLsn
  <2>3. chk.todo = {} /\ master <= chk.lsn
    BY <1>0, <2>1 DEF ChkptInv, LogInv
  <2>4. ASSUME NEW p \in Page, outlook'.dpt[p] # 0
        PROVE  low <= outlook'.dpt[p] /\ MinRecLsn <= outlook'.dpt[p]
    <3>1. /\ outlook'.dpt[p] \in Nat
          /\ chk.tab[p] # 0 => outlook'.dpt[p] = chk.tab[p]
          /\ chk.tab[p] = 0 => outlook'.dpt[p] > chk.lsn
      BY <1>2, <2>4, OutlookOfMaster
    <3>2. chk.tab[p] # 0 => low <= chk.tab[p]
      BY <2>1, <2>3 DEF ChkptBack
    <3>. QED
      BY <1>1, <2>3, <3>1, <3>2
  <2>. QED
    BY <2>1, <2>2, <2>4 DEF StoredBack
<1>3. CASE ~SetMaster
  <2>1. ASSUME NEW p \in Page
        PROVE  LET d == outlook.dpt[p]  e == outlook'.dpt[p] IN
               /\ d \in Nat /\ e \in Nat
               /\ d # 0 => e = d
               /\ d = 0 => e = 0 \/ e > durable
    BY <1>3, OutlookGrows
  <2>2. CASE Scavenge
    <3>1. /\ chk.at = "scavenge" /\ chk'.at = "off" /\ low' \in Nat
          /\ low' = low \/ low' <= MinRecLsn
      BY <1>0, <2>2, ScavengeIs
    <3>2. outlook' = outlook
      <4>1. Stored' = Stored
        BY <2>2 DEF Scavenge, Stored, pageVars
      <4>. QED
        BY <4>1 DEF Next
    <3>3. ASSUME NEW p \in Page, outlook.dpt[p] # 0
          PROVE  low' <= outlook.dpt[p]
      BY <1>1, <2>1, <3>1, <3>3 DEF StoredBack
    <3>. QED
      BY <3>1, <3>2, <3>3 DEF StoredBack
  <2>3. CASE ~Scavenge
    <3>1. low' = low
      BY <1>0, <2>3, LowStays
    <3>2. chk'.at = "scavenge" =>
            /\ chk.at = "scavenge" /\ chk'.tab = chk.tab /\ chk'.lsn = chk.lsn
      BY <1>0, <1>3, ChkptMoves, ChkptScanIs
    <3>3. chk'.at = "scavenge" => MinRecLsn' = MinRecLsn
      BY <3>2 DEF MinRecLsn
    <3>4. chk.at = "scavenge" => MinRecLsn <= master
      BY <1>0, <1>1 DEF LogInv
    <3>5. ASSUME NEW p \in Page, outlook'.dpt[p] # 0
          PROVE  /\ low <= outlook'.dpt[p]
                 /\ chk.at = "scavenge" => MinRecLsn <= outlook'.dpt[p]
      BY <1>1, <2>1, <3>4, <3>5 DEF StoredBack
    <3>. QED
      BY <3>1, <3>2, <3>3, <3>5 DEF StoredBack
  <2>. QED
    BY <2>2, <2>3
<1>. QED
  BY <1>2, <1>3

\* and so BackInv,
LEMMA BackStep ==
  ASSUME BackInv, [Next /\ CleanerAside /\ InsertAside /\ ListedHeard]_vars
  PROVE  BackInv'
<1>0. IInv' /\ IInv /\ FrameBack /\ ChkptBack /\ StoredBack
  BY IInvStep DEF BackInv
<1>1. CASE Next /\ CleanerAside /\ InsertAside
  <2>1. Base /\ Base' /\ RestartInv /\ StoredInv /\ ChkptInv /\ Step
    BY <1>0, <1>1 DEF IInv, Next
  <2>. QED
    BY <1>0, <1>1, <2>1, FrameBackStep, ChkptBackStep, StoredBackStep DEF BackInv
<1>2. CASE UNCHANGED vars
  BY <1>0, <1>2 DEF vars, logVars, pageVars, restartVars, BackInv, FrameBack, ChkptBack, StoredBack, Restarting, MinRecLsn
<1>. QED
  BY <1>1, <1>2

\* which holds to begin with.
LEMMA BackInit ==
  ASSUME Init
  PROVE  BackInv
<1>1. IInv /\ low = 1 /\ chk.at = "off" /\ \A p \in Page : frame[p].rec = 0
  BY IInvInit, Starts DEF Init
<1>2. \A p \in Page : outlook.dpt[p] \in Nat
  BY <1>1, OutlookTyped DEF IInv, Base
<1>. QED
  BY <1>1, <1>2 DEF BackInv, FrameBack, ChkptBack, StoredBack

\* Then the redo pass of a restart finds the records that it starts from.
LEMMA RedoFinds ==
  ASSUME BackInv
  PROVE  RedoReachesBack
<1>1. Base /\ TypeOK /\ LogInv /\ StoredInv /\ StoredBack
  BY DEF BackInv, IInv, Base
<1>2. /\ low \in Nat /\ master \in Nat /\ durable \in Nat /\ Len(log) \in Nat
      /\ low <= master /\ master <= durable /\ durable <= Len(log)
  BY <1>1, LowLsns
<1>3. PICK L : L = SubSeq(log, 1, durable)
  OBVIOUS
<1>4. Len(L) = durable
  BY <1>1, <1>2, <1>3, Prefix DEF TypeOK
<1>5. PICK d : d = outlook.dpt
  OBVIOUS
<1>6. d \in [Page -> Nat]
  BY <1>1, <1>5, OutlookTyped
<1>7. /\ RedoLsn(d, L) \in Nat
      /\ RedoLsn(d, L) = Len(L) + 1 \/ \E p \in Page : d[p] # 0 /\ RedoLsn(d, L) = d[p]
  BY <1>2, <1>4, <1>6, RedoLsnIs
<1>8. RedoLsn(d, L) >= low
  BY <1>1, <1>2, <1>4, <1>5, <1>6, <1>7 DEF StoredBack
<1>. QED
  BY <1>2, <1>3, <1>5, <1>8 DEF RedoReachesBack

\* Scavenge leaves every record that the redo pass of a restart would start from, whatever
\* pages were dirtied, cleaned and dirtied again while the checkpoint looked at the frames.
THEOREM RedoHasItsLog == SparedSpec => []RedoReachesBack
<1>1. Init => BackInv
  BY BackInit
<1>2. BackInv /\ [Next /\ CleanerAside /\ InsertAside /\ ListedHeard]_vars => BackInv'
  BY BackStep
<1>3. BackInv => RedoReachesBack
  BY RedoFinds
<1>. QED
  BY <1>1, <1>2, <1>3, PTL DEF SparedSpec

\* The undo pass of a transaction, step by step.
IsUndoPass(f, L, u, n) ==
  f = [k \in 0 .. n |-> IF k = 0 THEN u ELSE IF f[k - 1] = NoLsn THEN NoLsn ELSE L[f[k - 1]].prev]

\* There is a function that is the undo pass, record by record,
LEMMA UndoPassExists ==
  ASSUME NEW L, NEW u, NEW n \in Nat
  PROVE  \E f : IsUndoPass(f, L, u, n)
<1>. DEFINE B(e) == IF e = NoLsn THEN NoLsn ELSE L[e].prev
            T == {k \in 0 .. n : \E f : f = [i \in 0 .. k |-> IF i = 0 THEN u ELSE B(f[i - 1])]}
<1>1. 0 \in T
  <2>1. 0 .. 0 = {0} /\ 0 \in 0 .. n
    OBVIOUS
  <2>2. [i \in 0 .. 0 |-> u] = [i \in 0 .. 0 |-> IF i = 0 THEN u ELSE B([j \in 0 .. 0 |-> u][i - 1])]
    BY <2>1
  <2>. QED
    BY <2>1, <2>2
<1>2. ASSUME NEW k \in 0 + 1 .. n, k - 1 \in T
      PROVE  k \in T
  <2>1. PICK f : f = [i \in 0 .. k - 1 |-> IF i = 0 THEN u ELSE B(f[i - 1])]
    BY <1>2
  <2>. DEFINE g == [i \in 0 .. k |-> IF i = k THEN B(f[k - 1]) ELSE f[i]]
  <2>. HIDE DEF B
  <2>2. ASSUME NEW i \in 0 .. k
        PROVE  g[i] = IF i = 0 THEN u ELSE B(g[i - 1])
    <3>1. CASE i = 0
      BY <3>1, <2>1
    <3>2. CASE i # 0
      <4>1. i - 1 \in 0 .. k - 1
        BY <3>2
      <4>2. g[i - 1] = f[i - 1]
        BY <4>1
      <4>3. CASE i = k
        BY <4>2, <4>3, <3>2
      <4>4. CASE i # k
        <5>1. i \in 0 .. k - 1
          BY <4>4
        <5>2. f[i] = B(f[i - 1])
          BY <5>1, <3>2, <2>1
        <5>3. g[i] = f[i]
          BY <4>4
        <5>. QED
          BY <5>2, <5>3, <4>2, <3>2
      <4>. QED
        BY <4>3, <4>4
    <3>. QED
      BY <3>1, <3>2
  <2>3. g = [i \in 0 .. k |-> g[i]]
    OBVIOUS
  <2>. HIDE DEF g
  <2>4. g = [i \in 0 .. k |-> IF i = 0 THEN u ELSE B(g[i - 1])]
    BY <2>2, <2>3
  <2>5. k \in 0 .. n
    OBVIOUS
  <2>. QED
    BY <2>4, <2>5
<1>. HIDE DEF T
<1>3. n \in T
  <2>1. n \in 0 .. n /\ 0 \in Nat
    OBVIOUS
  <2>. QED
    BY <1>1, <1>2, <2>1, Along
<1>. QED
  BY <1>3 DEF T, B, IsUndoPass

\* and what it takes back is records of that transaction.
LEMMA UndoneOwn ==
  ASSUME NEW L \in Seq(LogRec), Linked(L), NEW x \in Xct, NEW u \in Nat, u # 0 => u \in OwnIn(L, x)
  PROVE  UndoChain(L, u) \subseteq OwnIn(L, x)
<1>. DEFINE f == CHOOSE g : IsUndoPass(g, L, u, u)
            T == {k \in 0 .. u : f[k] = 0 \/ f[k] \in OwnIn(L, x)}
<1>1. UndoChain(L, u) = {n \in {f[k] : k \in 0 .. u} : n # NoLsn /\ IsUndo(L[n])}
  BY DEF UndoChain, IsUndoPass
<1>2. IsUndoPass(f, L, u, u)
  BY UndoPassExists
<1>. HIDE DEF f
<1>3. /\ f[0] = u
      /\ \A k \in 1 .. u : f[k] = IF f[k - 1] = 0 THEN 0 ELSE L[f[k - 1]].prev
  <2>1. f = [k \in 0 .. u |-> IF k = 0 THEN u ELSE IF f[k - 1] = 0 THEN 0 ELSE L[f[k - 1]].prev]
    BY <1>2 DEF IsUndoPass, NoLsn
  <2>2. f[0] = u
    BY <2>1
  <2>3. ASSUME NEW k \in 1 .. u
        PROVE  f[k] = IF f[k - 1] = 0 THEN 0 ELSE L[f[k - 1]].prev
    <3>1. k \in 0 .. u /\ k # 0
      OBVIOUS
    <3>. QED
      BY <2>1, <3>1
  <2>. QED
    BY <2>2, <2>3
<1>4. 0 \in T
  BY <1>3
<1>5. ASSUME NEW k \in 0 + 1 .. u, k - 1 \in T
      PROVE  k \in T
  <2>1. k \in 1 .. u /\ k \in 0 .. u
    OBVIOUS
  <2>2. f[k] = IF f[k - 1] = 0 THEN 0 ELSE L[f[k - 1]].prev
    BY <1>3, <2>1
  <2>3. f[k - 1] = 0 \/ f[k - 1] \in OwnIn(L, x)
    BY <1>5
  <2>4. PICK e : e = f[k - 1]
    OBVIOUS
  <2>5. e \in OwnIn(L, x) => L[e].prev = 0 \/ L[e].prev \in OwnIn(L, x)
    BY DEF Linked, OwnIn
  <2>6. f[k] = 0 \/ f[k] \in OwnIn(L, x)
    BY <2>2, <2>3, <2>4, <2>5
  <2>. QED
    BY <2>1, <2>6
<1>. HIDE DEF T
<1>6. \A k \in 0 .. u : k \in T
  <2>1. 0 \in Nat
    OBVIOUS
  <2>. QED
    BY <1>4, <1>5, <2>1, Along
<1>. QED
  BY <1>1, <1>6 DEF T, NoLsn

\* The records in a log by which x has decided, and those by which it has ended.
FreeIn(L, x) == {i \in OwnIn(L, x) : L[i].k = "free"}
EndIn(L, x) == {i \in OwnIn(L, x) : L[i].k = "end"}

\* In the log L with the master record m, i is the table of the checkpoint and c its end.
TableIn(L, m, i, c) ==
  /\ i \in m + 1 .. Len(L) /\ L[i].k = "xtab" /\ c \in i + 1 .. Len(L) /\ L[c].k = "cend"
  /\ \A j \in m + 1 .. i : L[j].k # "cend"
  /\ \A j \in m + 1 .. c : L[j].k = "xtab" => j = i

\* What the analysis pass does to the entry of x, with such a checkpoint.
LEMMA XtStep ==
  ASSUME NEW L \in Seq(LogRec), NEW m \in Nat, m <= Len(L), NEW i, NEW c, TableIn(L, m, i, c),
         NEW x \in Xct, NEW j \in m + 1 .. Len(L)
  PROVE  LET d == Scan(L, m)[j - 1].xt[x]  e == Scan(L, m)[j].xt[x] IN
         /\ d \in XctEntry /\ e \in XctEntry
         /\ j \in FreeIn(L, x) => e.st = "freeing"
         /\ j \in EndIn(L, x) => e = NoEntry
         /\ j \in OwnIn(L, x) \ (FreeIn(L, x) \union EndIn(L, x)) =>
              e.last = j /\ e.st = IF d.st = "none" THEN "active" ELSE d.st
         /\ j \notin OwnIn(L, x) =>
              IF j = i /\ d.st = "none" /\ L[i].tab[x] # "none" THEN e = Reborn(L[i].tab[x]) ELSE e = d
<1>. DEFINE f == Scan(L, m)
            d == f[j - 1].xt[x]
            e == f[j].xt[x]
<1>0. /\ i \in Nat /\ c \in Nat /\ Len(L) \in Nat /\ j \in 1 .. Len(L) /\ L[j] \in LogRec
      /\ i \in m + 1 .. Len(L) /\ c \in m + 1 .. Len(L) /\ i < c
  BY DEF TableIn
<1>1. /\ d \in XctEntry /\ e \in XctEntry /\ f[j - 1].ended \in BOOLEAN
      /\ e = XctAfter(d, L[j], j, x, f[j - 1].ended)
  BY ScanStep DEF Analysing
<1>2. j - 1 >= c => f[j - 1].ended = TRUE
  <2>1. L[c].k = "cend"
    BY DEF TableIn
  <2>. HIDE DEF f
  <2>2. \A k \in c .. Len(L) : Scan(L, m)[k].ended = TRUE
    BY <1>0, <2>1, ScanEnded
  <2>. QED
    BY <1>0, <2>2 DEF f
<1>3. j <= i => f[j - 1].ended = FALSE
  <2>. DEFINE T == {k \in m .. i - 1 : f[k].ended = FALSE}
  <2>1. m \in T
    <3>1. m \in m .. i - 1
      BY <1>0
    <3>. QED
      BY <3>1, ScanIs, FreshScanType
  <2>2. ASSUME NEW k \in m + 1 .. i - 1, k - 1 \in T
        PROVE  k \in T
    <3>1. k \in m + 1 .. Len(L) /\ k \in m + 1 .. i /\ k \in m .. i - 1
      BY <1>0
    <3>2. L[k].k # "cend"
      BY <3>1 DEF TableIn
    <3>3. f[k].ended = (f[k - 1].ended \/ L[k].k = "cend")
      BY <3>1, ScanStep
    <3>. QED
      BY <2>2, <3>1, <3>2, <3>3
  <2>. HIDE DEF T
  <2>3. \A k \in m .. i - 1 : k \in T
    <3>1. i - 1 \in Nat
      BY <1>0
    <3>. QED
      BY <2>1, <2>2, <3>1, Along
  <2>. QED
    BY <1>0, <2>3 DEF T
<1>. HIDE DEF f, d, e
<1>4. L[j] \in XctTab /\ ~f[j - 1].ended <=> j = i
  <2>1. L[j] \in XctTab <=> L[j].k = "xtab"
    BY <1>0, Kinds
  <2>2. ASSUME L[j].k = "xtab", j <= c PROVE j = i
    <3>1. j \in m + 1 .. c
      BY <1>0, <2>2
    <3>. QED
      BY <2>2, <3>1 DEF TableIn
  <2>3. L[i].k = "xtab"
    BY DEF TableIn
  <2>. QED
    BY <1>0, <1>1, <1>2, <1>3, <2>1, <2>2, <2>3
<1>5. j \in OwnIn(L, x) <=> L[j] \in Update \union Mark /\ L[j].x = x
  BY <1>0 DEF OwnIn
<1>6. CASE j \in OwnIn(L, x)
  <2>1. e = IF L[j].k = "end" THEN NoEntry ELSE Heard(d, L[j], j)
    BY <1>1, <1>5, <1>6 DEF XctAfter
  <2>2. L[j].k # "end" => e = Heard(d, L[j], j)
    BY <2>1
  <2>3. L[j].k # "end" => e.last = j /\ e.st = IF L[j].k = "free" THEN "freeing" ELSE IF d.st = "none" THEN "active" ELSE d.st
    BY <2>2 DEF Heard
  <2>. QED
    BY <1>1, <1>6, <2>1, <2>3 DEF FreeIn, EndIn, d, e, f
<1>7. CASE j \notin OwnIn(L, x)
  <2>1. e = IF j = i /\ d.st = "none" /\ L[j].tab[x] # "none" THEN Reborn(L[j].tab[x]) ELSE d
    BY <1>1, <1>4, <1>5, <1>7 DEF XctAfter
  <2>2. IF j = i /\ d.st = "none" /\ L[i].tab[x] # "none" THEN e = Reborn(L[i].tab[x]) ELSE e = d
    BY <2>1
  <2>. QED
    BY <1>1, <1>7, <2>2 DEF FreeIn, EndIn, d, e, f
<1>. QED
  BY <1>6, <1>7

\* A transaction that has decided is none or disposed of.
LEMMA XtFreed ==
  ASSUME NEW L \in Seq(LogRec), NEW m \in Nat, m <= Len(L), NEW i, NEW c, TableIn(L, m, i, c), NEW x \in Xct,
         NEW g \in FreeIn(L, x), \A j \in OwnIn(L, x) : g < j => j \in EndIn(L, x),
         L[i].tab[x] \in {"active", "committing"} => ~\E j \in FreeIn(L, x) : j < i
  PROVE  XtOf(L, m)[x].st = "none"
<1>. DEFINE f == Scan(L, m)
            T == {j \in m .. Len(L) : g <= j => f[j].xt[x].st \in {"none", "freeing"}}
<1>0. Len(L) \in Nat /\ g \in 1 .. Len(L) /\ g \in OwnIn(L, x) /\ i \in Nat
  BY DEF FreeIn, OwnIn, TableIn
<1>1. m \in T
  <2>1. f[m].xt[x] = NoEntry
    BY ScanIs, FreshScanType
  <2>. HIDE DEF f
  <2>. QED
    BY <1>0, <2>1 DEF NoEntry
<1>2. ASSUME NEW j \in m + 1 .. Len(L), j - 1 \in T
      PROVE  j \in T
  <2>. DEFINE d == f[j - 1].xt[x]
              e == f[j].xt[x]
  <2>0. j \in m .. Len(L)
    OBVIOUS
  <2>1. /\ d \in XctEntry /\ e \in XctEntry
        /\ j \in FreeIn(L, x) => e.st = "freeing"
        /\ j \in EndIn(L, x) => e = NoEntry
        /\ j \notin OwnIn(L, x) =>
              IF j = i /\ d.st = "none" /\ L[i].tab[x] # "none" THEN e = Reborn(L[i].tab[x]) ELSE e = d
    BY XtStep
  <2>2. g <= j - 1 => d.st \in {"none", "freeing"}
    BY <1>2
  <2>3. L[i].tab[x] \in {"none", "active", "committing", "freeing"}
    <3>1. i \in 1 .. Len(L) /\ L[i].k = "xtab"
      BY DEF TableIn
    <3>2. L[i] \in XctTab
      BY <3>1, Kinds
    <3>. QED
      BY <3>2 DEF XctTab
  <2>4. Reborn(L[i].tab[x]).st = L[i].tab[x] /\ NoEntry.st = "none"
    BY <2>3, RebornIs DEF NoEntry
  <2>. HIDE DEF d, e, f
  <2>5. SUFFICES ASSUME g <= j
                 PROVE  e.st \in {"none", "freeing"}
    BY <2>0 DEF e
  <2>6. CASE j \in OwnIn(L, x)
    <3>1. j \in FreeIn(L, x) \/ j \in EndIn(L, x)
      BY <1>0, <2>5, <2>6
    <3>. QED
      BY <2>1, <2>4, <3>1
  <2>7. CASE j \notin OwnIn(L, x)
    <3>1. g < j
      BY <1>0, <2>5, <2>7
    <3>2. d.st \in {"none", "freeing"}
      BY <1>0, <2>2, <3>1
    <3>3. j = i => L[i].tab[x] \in {"none", "freeing"}
      BY <2>3, <3>1
    <3>. QED
      BY <2>1, <2>4, <2>7, <3>2, <3>3
  <2>. QED
    BY <2>6, <2>7
<1>. HIDE DEF T
<1>3. Len(L) \in T
  <2>1. Len(L) \in m .. Len(L)
    BY <1>0
  <2>. QED
    BY <1>0, <1>1, <1>2, <2>1, Along
<1>4. f[Len(L)].xt[x].st \in {"none", "freeing"}
  BY <1>0, <1>3 DEF T
<1>5. XtOf(L, m)[x] = IF f[Len(L)].xt[x].st = "freeing" THEN NoEntry ELSE f[Len(L)].xt[x]
  BY XtIs
<1>. HIDE DEF f
<1>. QED
  BY <1>4, <1>5 DEF NoEntry

\* A transaction that has logged something and has not decided is active, with records of
\* its own, or committing.
LEMMA XtUnfinished ==
  ASSUME NEW L \in Seq(LogRec), NEW m \in Nat, m <= Len(L), NEW i, NEW c, TableIn(L, m, i, c), NEW x \in Xct,
         FreeIn(L, x) = {}, EndIn(L, x) = {}, OwnIn(L, x) # {},
         L[i].tab[x] # "freeing",
         (\E j \in OwnIn(L, x) : j < i) => L[i].tab[x] # "none",
         L[i].tab[x] = "active" => \E j \in OwnIn(L, x) : m < j
  PROVE  LET e == XtOf(L, m)[x] IN e.st \in {"active", "committing"} /\ (e.st = "active" => e.last # 0)
<1>. DEFINE f == Scan(L, m)
            O == OwnIn(L, x)
            s == L[i].tab[x]
            Ok(j) == LET e == f[j].xt[x] IN
                     /\ e.st # "freeing"
                     /\ (\E k \in O : m < k /\ k <= j) => e.st # "none" /\ e.last # 0
                     /\ i <= j /\ s # "none" => e.st # "none"
                     /\ ~(\E k \in O : m < k /\ k <= j) => e.st \in {"none", s}
            T == {j \in m .. Len(L) : Ok(j)}
<1>0. /\ Len(L) \in Nat /\ O \subseteq 1 .. Len(L) /\ i \in m + 1 .. Len(L) /\ i \in Nat
      /\ s \in {"none", "active", "committing"} /\ i \notin O
  <2>1. i \in 1 .. Len(L) /\ L[i].k = "xtab" /\ i \in m + 1 .. Len(L)
    BY DEF TableIn
  <2>2. L[i] \in XctTab
    BY <2>1, Kinds
  <2>3. s \in {"none", "active", "committing", "freeing"}
    BY <2>2 DEF XctTab
  <2>4. i \notin O
    BY <2>2 DEF OwnIn, Update, Mark, XctTab
  <2>. QED
    BY <2>1, <2>3, <2>4 DEF OwnIn
<1>. HIDE DEF O, s
<1>1. m \in T
  <2>1. f[m].xt[x] = NoEntry
    BY ScanIs, FreshScanType
  <2>2. ASSUME NEW k \in O, m < k, k <= m
        PROVE  FALSE
    <3>1. k \in 1 .. Len(L) /\ Len(L) \in Nat
      BY <1>0
    <3>. QED
      BY <2>2, <3>1
  <2>3. ~(i <= m)
    BY <1>0
  <2>. HIDE DEF f
  <2>. QED
    BY <2>1, <2>2, <2>3 DEF NoEntry
<1>2. ASSUME NEW j \in m + 1 .. Len(L), j - 1 \in T
      PROVE  j \in T
  <2>. DEFINE d == f[j - 1].xt[x]
              e == f[j].xt[x]
  <2>0. j \in m .. Len(L) /\ m < j
    OBVIOUS
  <2>1. /\ j \in O => e.last = j /\ e.st = IF d.st = "none" THEN "active" ELSE d.st
        /\ j \notin O => IF j = i /\ d.st = "none" /\ s # "none" THEN e = Reborn(s) ELSE e = d
    BY XtStep DEF O, s
  <2>2. Ok(j - 1)
    BY <1>2
  <2>3. Reborn(s).st = s
    BY <1>0, RebornIs
  <2>4. /\ \A k \in O : m < k /\ k <= j <=> k = j \/ (m < k /\ k <= j - 1)
        /\ i <= j <=> i = j \/ i <= j - 1
    BY <1>0, <2>0
  <2>. HIDE DEF f
  <2>5. Ok(j)
    <3>1. CASE j \in O
      <4>1. e.last # 0 /\ e.st # "none" /\ e.st # "freeing"
        BY <2>0, <2>1, <2>2, <3>1
      <4>2. \E k \in O : m < k /\ k <= j
        BY <2>0, <3>1
      <4>. QED
        BY <4>1, <4>2
    <3>2. CASE j \notin O
      <4>1. (\E k \in O : m < k /\ k <= j) <=> (\E k \in O : m < k /\ k <= j - 1)
        BY <2>4, <3>2
      <4>2. CASE j = i /\ d.st = "none" /\ s # "none"
        <5>1. e = Reborn(s) /\ e.st = s
          BY <2>1, <2>3, <3>2, <4>2
        <5>2. ~(\E k \in O : m < k /\ k <= j - 1)
          BY <2>2, <4>2
        <5>. QED
          BY <1>0, <4>1, <5>1, <5>2
      <4>3. CASE ~(j = i /\ d.st = "none" /\ s # "none")
        <5>1. e = d
          BY <2>1, <3>2, <4>3
        <5>2. i <= j /\ s # "none" => d.st # "none"
          BY <2>2, <2>4, <4>3
        <5>. QED
          BY <2>2, <4>1, <5>1, <5>2
      <4>. QED
        BY <4>2, <4>3
    <3>. QED
      BY <3>1, <3>2
  <2>. QED
    BY <2>0, <2>5
<1>. HIDE DEF T
<1>3. Len(L) \in T
  <2>1. Len(L) \in m .. Len(L)
    BY <1>0
  <2>. QED
    BY <1>0, <1>1, <1>2, <2>1, Along
<1>. DEFINE e == f[Len(L)].xt[x]
<1>4. Ok(Len(L))
  BY <1>3 DEF T
<1>5. XtOf(L, m)[x] = IF e.st = "freeing" THEN NoEntry ELSE e
  BY XtIs
<1>6. e \in XctEntry
  BY <1>0, ScanType DEF Analysing
<1>. HIDE DEF f
<1>7. e.st # "freeing" /\ e.st \in {"none", "active", "committing", "freeing"}
  BY <1>4, <1>6 DEF XctEntry
<1>8. e.st # "none"
  <2>1. PICK k \in O : TRUE
    BY DEF O
  <2>2. CASE k < i
    <3>1. s # "none"
      BY <2>2 DEF O, s
    <3>. QED
      BY <1>0, <1>4, <3>1
  <2>3. CASE ~(k < i)
    <3>1. m < k /\ k <= Len(L)
      BY <1>0, <2>3
    <3>. QED
      BY <1>4, <2>1, <3>1
  <2>. QED
    BY <2>2, <2>3
<1>9. e.st = "active" => e.last # 0
  <2>1. CASE \E k \in O : m < k
    <3>1. \E k \in O : m < k /\ k <= Len(L)
      BY <1>0, <2>1
    <3>. QED
      BY <1>4, <3>1
  <2>2. CASE ~\E k \in O : m < k
    <3>1. s # "active"
      BY <2>2 DEF O, s
    <3>. QED
      BY <1>4, <1>8, <2>2, <3>1
  <2>. QED
    BY <2>1, <2>2
<1>. QED
  BY <1>5, <1>7, <1>8, <1>9

\* What is durable of a transaction.
LEMMA DurableLog ==
  ASSUME Base
  PROVE  LET L == SubSeq(log, 1, durable) IN
         /\ L \in Seq(LogRec) /\ Len(L) = durable /\ durable \in Nat /\ master \in Nat /\ master <= Len(L)
         /\ \A i \in 1 .. durable : L[i] = log[i] /\ i \in 1 .. Len(log)
         /\ Linked(L)
         /\ \A x \in Xct : /\ OwnIn(L, x) = {i \in Own(x) : i <= durable}
                           /\ FreeIn(L, x) = {i \in FreeRecs(x) : i <= durable}
                           /\ EndIn(L, x) = {i \in EndRecs(x) : i <= durable}
<1>. DEFINE L == SubSeq(log, 1, durable)
<1>1. log \in Seq(LogRec) /\ durable \in Nat /\ durable <= Len(log) /\ master \in Nat /\ master <= durable /\ Len(log) \in Nat
  BY DEF Base, TypeOK, LogInv
<1>2. L \in Seq(LogRec) /\ Len(L) = durable /\ \A i \in 1 .. durable : L[i] = log[i]
  BY <1>1, Prefix
<1>. HIDE DEF L
<1>3. \A i \in 1 .. durable : i \in 1 .. Len(log)
  BY <1>1
<1>4. \A x : OwnIn(L, x) = {i \in Own(x) : i <= durable}
  BY <1>1, <1>2, <1>3 DEF OwnIn, Own
<1>5. \A x : /\ FreeIn(L, x) = {i \in FreeRecs(x) : i <= durable}
             /\ EndIn(L, x) = {i \in EndRecs(x) : i <= durable}
  BY <1>1, <1>2, <1>4 DEF FreeIn, EndIn, FreeRecs, EndRecs, Own
<1>6. Linked(L)
  <2>1. SUFFICES ASSUME NEW i \in 1 .. durable, L[i] \in Update \union Mark
                 PROVE  L[i].prev < i /\ (L[i].prev # 0 => L[i].prev \in OwnIn(L, L[i].x))
    BY <1>2 DEF Linked
  <2>2. log[i] \in Update \union Mark /\ log[i] = L[i] /\ i \in 1 .. Len(log)
    BY <1>2, <1>3, <2>1
  <2>3. log[i].prev < i /\ (log[i].prev # 0 => log[i].prev \in Own(log[i].x))
    BY <2>2 DEF Base, ChainInv, Links
  <2>4. log[i].prev \in Nat
    BY <2>2 DEF Update, Mark
  <2>. QED
    BY <1>1, <1>4, <2>2, <2>3, <2>4
<1>. QED
  BY <1>1, <1>2, <1>3, <1>4, <1>5, <1>6 DEF L

\* Of a transaction that has decided for good, restart knows nothing; one that has not, it
\* finds active, with records of its own, or committing.
LEMMA RestartKnows ==
  ASSUME Base, MasterTable, NEW x \in Xct, EndsOnce(x)
  PROVE  LET e == XtOf(SubSeq(log, 1, durable), master)[x] IN
         /\ Freed(x) => e.st = "none"
         /\ ~Freed(x) /\ (\E n \in Own(x) : n <= durable) =>
              e.st \in {"active", "committing"} /\ (e.st = "active" => e.last # 0)
<1>. DEFINE L == SubSeq(log, 1, durable)
<1>1. /\ L \in Seq(LogRec) /\ Len(L) = durable /\ durable \in Nat /\ master \in Nat /\ master <= Len(L)
      /\ \A i \in 1 .. durable : L[i] = log[i] /\ i \in 1 .. Len(log)
      /\ OwnIn(L, x) = {i \in Own(x) : i <= durable}
      /\ FreeIn(L, x) = {i \in FreeRecs(x) : i <= durable}
      /\ EndIn(L, x) = {i \in EndRecs(x) : i <= durable}
  BY DurableLog
<1>. HIDE DEF L
<1>2. PICK i \in master + 1 .. durable :
        /\ log[i].k = "xtab"
        /\ \A j \in master + 1 .. i : log[j].k # "cend"
        /\ \E c \in i + 1 .. durable : /\ log[c].k = "cend"
                                      /\ \A j \in master + 1 .. c : log[j].k = "xtab" => j = i
        /\ TableSays(x, master, i)
        /\ log[i].tab[x] = "active" => \E j \in Own(x) \ EndRecs(x) : master < j /\ j <= durable
  BY DEF MasterTable
<1>3. PICK c \in i + 1 .. durable : /\ log[c].k = "cend"
                                    /\ \A j \in master + 1 .. c : log[j].k = "xtab" => j = i
  BY <1>2
<1>4. TableIn(L, master, i, c)
  BY <1>1, <1>2, <1>3 DEF TableIn
<1>5. L[i] = log[i] /\ i <= durable /\ i \in Nat
  BY <1>1
<1>6. Own(x) \subseteq Nat /\ FreeRecs(x) \subseteq Own(x) /\ EndRecs(x) \subseteq Own(x)
  BY DEF Own, FreeRecs, EndRecs
<1>7. ASSUME Freed(x)
      PROVE  XtOf(L, master)[x].st = "none"
  <2>1. PICK g \in FreeRecs(x) : g <= durable
    BY <1>7 DEF Freed
  <2>2. g \in FreeIn(L, x) /\ \A j \in OwnIn(L, x) : g < j => j \in EndIn(L, x)
    BY <1>1, <2>1 DEF EndsOnce
  <2>3. L[i].tab[x] \in {"active", "committing"} => ~\E j \in FreeIn(L, x) : j < i
    BY <1>1, <1>2, <1>5 DEF TableSays
  <2>. QED
    BY <1>1, <1>4, <2>2, <2>3, XtFreed
<1>8. ASSUME ~Freed(x), NEW n \in Own(x), n <= durable
      PROVE  LET e == XtOf(L, master)[x] IN e.st \in {"active", "committing"} /\ (e.st = "active" => e.last # 0)
  <2>1. FreeIn(L, x) = {}
    BY <1>1, <1>8 DEF Freed
  <2>2. EndIn(L, x) = {}
    BY <1>1, <1>6, <1>8 DEF Freed, EndsOnce
  <2>3. ~\E j \in FreeRecs(x) : j < i
    BY <1>1, <1>5, <1>6, <1>8 DEF Freed
  <2>4. OwnIn(L, x) # {} /\ L[i].tab[x] # "freeing"
    BY <1>1, <1>2, <1>5, <1>8, <2>3 DEF TableSays
  <2>5. (\E j \in OwnIn(L, x) : j < i) => L[i].tab[x] # "none"
    BY <1>1, <1>2, <1>5, <2>3 DEF TableSays
  <2>6. L[i].tab[x] = "active" => \E j \in OwnIn(L, x) : master < j
    BY <1>1, <1>2, <1>5
  <2>. QED
    BY <1>1, <1>4, <2>1, <2>2, <2>4, <2>5, <2>6, XtUnfinished
<1>. QED
  BY <1>7, <1>8 DEF L

-----------------------------------------------------------------------------
(***************************************************************************)
(* The records of a transaction, from step to step.                        *)
(***************************************************************************)
SameRecs(x) == Own(x)' = Own(x) /\ FreeRecs(x)' = FreeRecs(x) /\ EndRecs(x)' = EndRecs(x)

\* The records of x are on the log, those that decide and those that end among them.
LEMMA RecsAre ==
  ASSUME TypeOK, NEW x
  PROVE  /\ Own(x) \subseteq 1 .. Len(log) /\ Len(log) \in Nat
         /\ FreeRecs(x) \subseteq Own(x) /\ EndRecs(x) \subseteq Own(x)
         /\ \A i \in FreeRecs(x) : i \notin EndRecs(x)
  BY DEF TypeOK, Own, FreeRecs, EndRecs

\* They stay where the log stays,
LEMMA RecsStay ==
  ASSUME TypeOK, log' = log, NEW x
  PROVE  SameRecs(x)
<1>1. Own(x)' = Own(x)
  BY SameLog
<1>. QED
  BY <1>1 DEF SameRecs, FreeRecs, EndRecs

\* and where a record is compensated in the log buffer,
LEMMA RecsCompensate ==
  ASSUME TypeOK, ChainInv, LatchInv, NEW x \in Xct, CompensateInLog(x), NEW y
  PROVE  SameRecs(y)
<1>. DEFINE l == xct[x].last
<1>1. /\ l \in 1 .. Len(log) /\ log[l] \in Update /\ log'[l] \in Update
      /\ \A i \in 1 .. Len(log) : i # l => log'[i] = log[i]
  BY CompensateTypes
<1>2. Own(y)' = Own(y) /\ Own(y) \subseteq 1 .. Len(log)
  BY CompensateOwn, RecsAre
<1>3. log[l].k \in {"put", "cut"} /\ log'[l].k \in {"put", "cut"}
  BY <1>1 DEF Update
<1>. HIDE DEF l
<1>4. \A i \in Own(y) : /\ log[i].k = "free" <=> log'[i].k = "free"
                        /\ log[i].k = "end" <=> log'[i].k = "end"
  BY <1>1, <1>2, <1>3
<1>. QED
  BY <1>2, <1>4 DEF SameRecs, FreeRecs, EndRecs

\* and where the log grows by a record of another one.
LEMMA RecsGrow ==
  ASSUME TypeOK, Extends, NEW n, Len(log') = n, n = Len(log) + 1, NEW x
  PROVE  LET own == log'[n] \in Update \union Mark /\ log'[n].x = x IN
         /\ ~own => SameRecs(x)
         /\ own => /\ Own(x)' = Own(x) \union {n}
                   /\ FreeRecs(x)' = FreeRecs(x) \union IF log'[n].k = "free" THEN {n} ELSE {}
                   /\ EndRecs(x)' = EndRecs(x) \union IF log'[n].k = "end" THEN {n} ELSE {}
<1>. DEFINE own == log'[n] \in Update \union Mark /\ log'[n].x = x
<1>1. Len(log) \in Nat /\ n \in Nat /\ \A i \in 1 .. Len(log) : log'[i] = log[i]
  BY DEF TypeOK, Extends
<1>2. \A i \in 1 .. n : i \in 1 .. Len(log) \/ i = n
  BY <1>1
<1>3. Own(x)' = {i \in 1 .. n : log'[i] \in Update \union Mark /\ log'[i].x = x}
  BY DEF Own
<1>4. Own(x) \subseteq 1 .. Len(log) /\ 1 .. Len(log) \subseteq 1 .. n /\ n \in 1 .. n /\ n \notin 1 .. Len(log)
  BY <1>1, RecsAre
<1>5. Own(x)' = Own(x) \union IF own THEN {n} ELSE {}
  <2>1. \A i \in 1 .. Len(log) : i \in Own(x)' <=> i \in Own(x)
    BY <1>1, <1>3, <1>4 DEF Own
  <2>2. n \in Own(x)' <=> own
    BY <1>3, <1>4
  <2>3. Own(x)' \subseteq 1 .. n
    BY <1>3
  <2>. QED
    BY <1>2, <1>4, <2>1, <2>2, <2>3
<1>. HIDE DEF own
<1>6. FreeRecs(x)' = FreeRecs(x) \union IF own /\ log'[n].k = "free" THEN {n} ELSE {}
  BY <1>1, <1>4, <1>5 DEF FreeRecs
<1>7. EndRecs(x)' = EndRecs(x) \union IF own /\ log'[n].k = "end" THEN {n} ELSE {}
  BY <1>1, <1>4, <1>5 DEF EndRecs
<1>8. ~own => SameRecs(x)
  BY <1>5, <1>6, <1>7 DEF SameRecs
<1>9. own => /\ Own(x)' = Own(x) \union {n}
             /\ FreeRecs(x)' = FreeRecs(x) \union IF log'[n].k = "free" THEN {n} ELSE {}
             /\ EndRecs(x)' = EndRecs(x) \union IF log'[n].k = "end" THEN {n} ELSE {}
  BY <1>5, <1>6, <1>7
<1>. QED
  BY <1>8, <1>9 DEF own

\* What a transaction logs, by kind; and the records of the others stay.
LEMMA RecsLogging ==
  ASSUME Base, NEW x \in Xct, Logging(x)
  PROVE  LET n == Len(log) + 1 IN
         /\ Own(x)' = Own(x) \union {n}
         /\ FreeRecs(x)' = FreeRecs(x) \union IF LogFreeing(x) THEN {n} ELSE {}
         /\ EndRecs(x)' = EndRecs(x) \union IF LogEnd(x) THEN {n} ELSE {}
         /\ \A y \in Xct : y # x => SameRecs(y)
<1>. TypeOK /\ ChainInv /\ LatchInv
  BY DEF Base
<1>. DEFINE n == Len(log) + 1
<1>1. /\ log' \in Seq(LogRec) /\ Len(log') = n /\ Len(log) \in Nat
      /\ \A i \in 1 .. Len(log) : log'[i] = log[i]
      /\ log'[n] \in Update \union Mark /\ log'[n].x = x
  BY LogTypes DEF Logging, TypeOK
<1>2. Extends
  BY <1>1 DEF Extends
<1>3. \A r \in LogRec : Logs(x, r) => log'[n] = r
  BY OneMore
<1>4. Insert(x) => At(x, "fixed") /\ log'[n].k \in {"put", "cut"}
  <2>. DEFINE r == [k |-> thread[x].kind, x |-> x, page |-> thread[x].page,
                    item |-> thread[x].item, prev |-> xct[x].last, clr |-> FALSE]
  <2>. SUFFICES ASSUME Insert(x) PROVE At(x, "fixed") /\ log'[n].k \in {"put", "cut"}
    OBVIOUS
  <2>1. Logs(x, r) /\ At(x, "fixed")
    BY DEF Insert
  <2>2. r \in Update /\ r.k = thread[x].kind
    BY <2>1, Records
  <2>. HIDE DEF r
  <2>. QED
    BY <1>3, <2>1, <2>2 DEF LogRec, Update
<1>5. LogCompensation(x) => At(x, "comp") /\ log'[n].k = "comp"
  <2>. DEFINE r == [k |-> "comp", x |-> x, prev |-> log[thread[x].back].prev, clr |-> TRUE]
  <2>. SUFFICES ASSUME LogCompensation(x) PROVE At(x, "comp") /\ log'[n].k = "comp"
    OBVIOUS
  <2>1. Logs(x, r) /\ At(x, "comp")
    BY DEF LogCompensation
  <2>2. r \in Mark /\ r.k = "comp"
    BY <2>1, Records
  <2>. HIDE DEF r
  <2>. QED
    BY <1>3, <2>1, <2>2 DEF LogRec
<1>6. LogFreeing(x) => At(x, "ask") /\ log'[n].k = "free"
  <2>. DEFINE r == [k |-> "free", x |-> x, prev |-> xct[x].last, clr |-> FALSE]
  <2>. SUFFICES ASSUME LogFreeing(x) PROVE At(x, "ask") /\ log'[n].k = "free"
    OBVIOUS
  <2>1. Logs(x, r) /\ At(x, "ask")
    BY DEF LogFreeing
  <2>2. r \in Mark /\ r.k = "free"
    BY Records
  <2>. HIDE DEF r
  <2>. QED
    BY <1>3, <2>1, <2>2 DEF LogRec
<1>7. LogEnd(x) => At(x, "ending") /\ log'[n].k = "end"
  <2>. DEFINE r == [k |-> "end", x |-> x, prev |-> xct[x].last, clr |-> FALSE]
  <2>. SUFFICES ASSUME LogEnd(x) PROVE At(x, "ending") /\ log'[n].k = "end"
    OBVIOUS
  <2>1. Logs(x, r) /\ At(x, "ending")
    BY DEF LogEnd
  <2>2. r \in Mark /\ r.k = "end"
    BY Records
  <2>. HIDE DEF r
  <2>. QED
    BY <1>3, <2>1, <2>2 DEF LogRec
<1>8. (log'[n].k = "free" <=> LogFreeing(x)) /\ (log'[n].k = "end" <=> LogEnd(x))
  BY <1>4, <1>5, <1>6, <1>7 DEF Logging, At
<1>. HIDE DEF n
<1>9. \A y \in Xct : y # x => SameRecs(y)
  <2>. TAKE y \in Xct
  <2>1. y # x => ~(log'[n] \in Update \union Mark /\ log'[n].x = y)
    BY <1>1
  <2>. QED
    BY <1>1, <1>2, <2>1, RecsGrow DEF n
<1>10. /\ Own(x)' = Own(x) \union {n}
       /\ FreeRecs(x)' = FreeRecs(x) \union IF log'[n].k = "free" THEN {n} ELSE {}
       /\ EndRecs(x)' = EndRecs(x) \union IF log'[n].k = "end" THEN {n} ELSE {}
  BY <1>1, <1>2, RecsGrow DEF n
<1>. QED
  BY <1>8, <1>9, <1>10 DEF n

-----------------------------------------------------------------------------
(***************************************************************************)
(* The life of a transaction.                                              *)
(***************************************************************************)
\* A working transaction goes on working, asks to commit, or gives up; the first record that it
\* logs becomes its first lsn when it is marked on its page.
Moves(x) ==
  LET t == thread[x]  u == thread'[x]  e == xct[x]  f == xct'[x] IN
  /\ e.st \in {"active", "aborting"} /\ f.st \in {"active", "aborting", "committing"}
  /\ f.last = e.last
  /\ f.first = IF t.at = "logged" /\ e.first = 0 THEN e.last ELSE e.first
  /\ u.at \in {"idle", "fixed", "undo", "comp", "ask"}
  /\ u.at = "ask" => f.st \in {"committing", "aborting"}
  /\ f.st = "committing" => mode = "up" /\ u.at = "ask"
  /\ u.at = "fixed" /\ mode # "up" => u.back # 0

\* The steps of a working transaction that log nothing.
LEMMA MovesAre ==
  ASSUME Base, NEW x \in Xct, Works(x),
         \/ Fix(x) \/ Unfix(x) \/ Apply(x) \/ UndoRecord(x) \/ SkipRecord(x) \/ RolledBack(x)
         \/ Commit(x) \/ Quits(x) \/ RollBackFirst(x) \/ CompensateInLog(x)
  PROVE  Moves(x)
<1>1. /\ xct[x] \in Entry /\ thread[x] \in Thread /\ xct \in [Xct -> Entry] /\ thread \in [Xct -> Thread]
      /\ Idle \in Thread
  BY Starts DEF Base, TypeOK
<1>2. thread[x].at \in Working => xct[x].st \in {"active", "aborting"}
  BY DEF Works
<1>3. CASE Fix(x)
  <2>. DEFINE n == Cardinality(hist.wrote[x]) + 1
  <2>1. xct' = xct /\ mode = "up" /\ xct[x].st = "active" /\ thread[x].at = "idle"
    BY <1>3 DEF Fix, At
  <2>2. thread' = [thread EXCEPT ![x] =
        [Idle EXCEPT !.at = "fixed", !.page = load.pages[x][n], !.item = [xct |-> x, no |-> n]]]
    BY <1>3 DEF Fix
  <2>. HIDE DEF n
  <2>3. thread'[x].at = "fixed"
    BY <1>1, <2>2 DEF Thread
  <2>. QED
    BY <2>1, <2>3 DEF Moves
<1>4. CASE Unfix(x)
  <2>1. xct' = xct /\ thread' = [thread EXCEPT ![x].at = "idle"] /\ thread[x].at = "fixed"
    BY <1>4 DEF Unfix, Goes, At
  <2>2. thread'[x].at = "idle"
    BY <1>1, <2>1 DEF Thread
  <2>. QED
    BY <1>2, <2>1, <2>2 DEF Moves, Working
<1>5. CASE Apply(x)
  <2>1. /\ thread[x].at = "logged" /\ xct' = [xct EXCEPT ![x] = Tracked(@, xct[x].last, xct[x].last)]
        /\ thread' = [thread EXCEPT ![x].at = IF thread[x].back = NoLsn THEN "idle" ELSE "comp"]
    BY <1>5 DEF Apply, Goes, At
  <2>2. xct'[x] = Tracked(xct[x], xct[x].last, xct[x].last)
    BY <1>1, <2>1
  <2>3. xct'[x].last = xct[x].last /\ xct'[x].st = xct[x].st
        /\ xct'[x].first = IF xct[x].first = 0 THEN xct[x].last ELSE xct[x].first
    <3>1. xct[x].last \in Nat
      BY <1>1 DEF Entry
    <3>. QED
      BY <1>1, <2>2, <3>1, TrackedType
  <2>4. thread'[x].at \in {"idle", "comp"}
    BY <1>1, <2>1 DEF Thread
  <2>. QED
    BY <1>2, <2>1, <2>3, <2>4 DEF Moves, Working
<1>6. CASE UndoRecord(x)
  <2>. DEFINE t == thread[x]  r == log[t.next]
  <2>1. /\ xct' = xct /\ t.at = "undo" /\ t.next > t.save
        /\ thread' = [thread EXCEPT ![x] = [t EXCEPT !.at = "fixed", !.page = r.page, !.item = r.item,
                                               !.kind = Opposite(r.k), !.back = t.next]]
    BY <1>6 DEF UndoRecord, Undoing, At
  <2>2. t.next # 0
    BY <1>1, <2>1 DEF Thread
  <2>3. thread'[x].back = t.next /\ thread'[x].at = "fixed"
    <3>. HIDE DEF r
    <3>. QED
      BY <1>1, <2>1 DEF Thread
  <2>. QED
    BY <1>2, <2>1, <2>2, <2>3 DEF Moves, Working
<1>7. CASE SkipRecord(x)
  <2>. DEFINE t == thread[x]  r == log[t.next]
  <2>1. xct' = xct /\ t.at = "undo" /\ thread' = [thread EXCEPT ![x].next = r.prev]
    BY <1>7 DEF SkipRecord, Undoing, At
  <2>2. thread'[x].at = "undo"
    <3>. HIDE DEF r
    <3>. QED
      BY <1>1, <2>1 DEF Thread
  <2>. QED
    BY <1>2, <2>1, <2>2 DEF Moves, Working
<1>8. CASE RolledBack(x)
  <2>1. /\ xct' = [xct EXCEPT ![x].undo = thread[x].next] /\ thread[x].at = "undo"
        /\ thread' = [thread EXCEPT ![x] = [Idle EXCEPT !.at = IF xct[x].st = "aborting" THEN "ask" ELSE "idle"]]
    BY <1>8 DEF RolledBack, At
  <2>2. thread'[x].at = IF xct[x].st = "aborting" THEN "ask" ELSE "idle"
    BY <1>1, <2>1 DEF Thread
  <2>3. xct'[x].last = xct[x].last /\ xct'[x].st = xct[x].st /\ xct'[x].first = xct[x].first
    BY <1>1, <2>1 DEF Entry
  <2>. QED
    BY <1>2, <2>1, <2>2, <2>3 DEF Moves, Working
<1>9. CASE Commit(x)
  <2>1. /\ mode = "up" /\ xct[x].st = "active" /\ thread[x].at = "idle"
        /\ xct' = [xct EXCEPT ![x].st = "committing"] /\ thread' = [thread EXCEPT ![x].at = "ask"]
    BY <1>9 DEF Commit, Goes, At
  <2>2. xct'[x].last = xct[x].last /\ xct'[x].st = "committing" /\ xct'[x].first = xct[x].first
    BY <1>1, <2>1 DEF Entry
  <2>3. thread'[x].at = "ask"
    BY <1>1, <2>1 DEF Thread
  <2>. QED
    BY <2>1, <2>2, <2>3 DEF Moves
<1>10. CASE Quits(x) \/ RollBackFirst(x)
  <2>1. xct[x].st = "active" /\ thread[x].at # "logged"
    BY <1>10 DEF Quits, RollBackFirst, Newest, Losers, Resting, At
  <2>2. xct'[x].last = xct[x].last /\ xct'[x].first = xct[x].first /\ xct'[x].st \in {"active", "aborting"}
    BY <1>1, <1>10, <2>1 DEF Quits, RollBackFirst, Entry
  <2>3. \E save : RollBackTo(x, save)
    BY <1>10 DEF Quits, RollBackFirst
  <2>4. thread'[x].at = "undo"
    BY <1>1, <2>3 DEF RollBackTo, Thread
  <2>. QED
    BY <2>1, <2>2, <2>4 DEF Moves
<1>11. CASE CompensateInLog(x)
  <2>1. thread[x].at = "comp" /\ thread'[x].at = "undo" /\ xct' = xct
    BY <1>11, CompensateIs DEF Base
  <2>. QED
    BY <1>2, <2>1 DEF Moves, Working
<1>. QED
  BY <1>3, <1>4, <1>5, <1>6, <1>7, <1>8, <1>9, <1>10, <1>11

\* Which transactions were cut off is up to a crash, and what is durable to the flush daemon.
LEMMA CutStays ==
  ASSUME TypeOK, Step, ~Crash
  PROVE  hist'.cut = hist.cut
<1>1. hist \in History
  BY DEF TypeOK
<1>2. CASE hist' = hist
  BY <1>2
<1>3. CASE \E x \in Xct : Insert(x) \/ Commit(x) \/ Quits(x) \/ Synced(x)
  BY <1>1, <1>3 DEF Insert, Commit, Quits, Synced, History
<1>4. CASE \E x \in Xct : \/ Begin(x) \/ Fix(x) \/ Unfix(x) \/ Apply(x) \/ UndoRecord(x) \/ SkipRecord(x)
                          \/ CompensateInLog(x) \/ LogCompensation(x) \/ RolledBack(x) \/ EndUnlogged(x)
                          \/ LogFreeing(x) \/ LogEnd(x) \/ RollBackFirst(x)
  BY <1>4 DEF Begin, Fix, Unfix, Apply, UndoRecord, SkipRecord, CompensateInLog, LogCompensation, RolledBack,
              EndUnlogged, LogFreeing, LogEnd, RollBackFirst
<1>5. CASE \E p \in Page : Copy(p) \/ WriteCopy(p) \/ Replace(p) \/ ChkptScan(p) \/ ForceOut(p)
  BY <1>5 DEF Copy, WriteCopy, Replace, ForceOut, Drop, ChkptScan
<1>6. CASE FlushBegins \/ FlushEnds \/ SetMaster \/ Scavenge \/ Analyse \/ RedoRecord \/ RedoEnds \/ ForceEnds \/ UndoEnds
  BY <1>6 DEF FlushBegins, FlushEnds, SetMaster, Scavenge, Analyse, RedoRecord, RedoEnds, ForceEnds, UndoEnds
<1>7. CASE Checkpointing
  BY <1>7, ChkptLogs DEF Checkpointing
<1>. QED
  BY <1>2, <1>3, <1>4, <1>5, <1>6, <1>7 DEF Step, Abort, AbortFirst, Checkpointing

\* A transaction that does not act goes on as it was, while the log of the others grows.
LEMMA LifeKept ==
  ASSUME NEW x, Life(x), SameRecs(x), xct'[x] = xct[x], thread'[x] = thread[x],
         durable \in Nat, durable' \in Nat, durable <= durable', FreeRecs(x) \subseteq Nat, hist'.cut = hist.cut,
         mode' = mode \/ (mode \notin {"up", "analysis"} /\ mode' \notin {"up", "analysis"})
  PROVE  Life(x)'
<1>1. Freed(x) => Freed(x)'
  BY DEF Freed, SameRecs
<1>2. EndsOnce(x)'
  BY DEF Life, EndsOnce, SameRecs
<1>3. Works(x)'
  BY <1>1 DEF Life, Works, SameRecs, At
<1>4. Known(x)' /\ Unfinished(x)' /\ FirstKnown(x)'
  BY <1>1 DEF Life, Known, Unfinished, FirstKnown, SameRecs, At
<1>. QED
  BY <1>2, <1>3, <1>4 DEF Life

\* One that works has not decided,
LEMMA WorkerUndecided ==
  ASSUME NEW x, EndsOnce(x), Works(x), xct[x].st \notin {"none", "freeing", "ended"}
  PROVE  FreeRecs(x) = {} /\ EndRecs(x) = {} /\ ~Freed(x)
  BY DEF EndsOnce, Works, Freed

\* and goes on so,
LEMMA LifeMoves ==
  ASSUME Base, NEW x \in Xct, Life(x), SameRecs(x), Moves(x),
         mode # "analysis", UNCHANGED <<durable, mode>>, hist'.cut = hist.cut
  PROVE  Life(x)'
<1>1. PICK t, u, e, f : t = thread[x] /\ u = thread'[x] /\ e = xct[x] /\ f = xct'[x]
  OBVIOUS
<1>2. /\ e.st \in {"active", "aborting"} /\ f.st \in {"active", "aborting", "committing"}
      /\ f.last = e.last
      /\ f.first = IF t.at = "logged" /\ e.first = 0 THEN e.last ELSE e.first
      /\ u.at \in {"idle", "fixed", "undo", "comp", "ask"}
      /\ u.at = "ask" => f.st \in {"committing", "aborting"}
      /\ f.st = "committing" => mode = "up" /\ u.at = "ask"
      /\ u.at = "fixed" /\ mode # "up" => u.back # 0
  BY <1>1 DEF Moves
<1>3. EndsOnce(x) /\ Works(x) /\ Known(x) /\ Unfinished(x) /\ FirstKnown(x)
  BY DEF Life
<1>4. FreeRecs(x) = {} /\ EndRecs(x) = {} /\ ~Freed(x)
  BY <1>1, <1>2, <1>3, WorkerUndecided
<1>5. Own(x)' = Own(x) /\ FreeRecs(x)' = {} /\ EndRecs(x)' = {} /\ ~Freed(x)'
  BY <1>4 DEF SameRecs, Freed
<1>6. (e.first # 0 => e.last # 0 /\ e.first \in Own(x)) /\ (t.at = "logged" => e.last # 0 /\ e.last \in Own(x))
  BY <1>1, <1>3 DEF Works, Base, ChainInv, Chain
<1>7. EndsOnce(x)'
  BY <1>5 DEF EndsOnce
<1>8. Works(x)'
  <2>1. thread'[x].at \in {"idle", "fixed", "undo", "comp", "ask"} /\ xct'[x].st \in {"active", "aborting", "committing"}
    BY <1>1, <1>2
  <2>2. thread'[x].at = "ask" => xct'[x].st \in {"committing", "aborting"}
    BY <1>1, <1>2
  <2>3. xct'[x].st = "committing" => mode = "up" /\ thread'[x].at = "ask"
    BY <1>1, <1>2
  <2>4. thread'[x].at = "fixed" /\ mode # "up" => thread'[x].back # 0
    BY <1>1, <1>2
  <2>5. xct'[x].first # 0 => xct'[x].last # 0 /\ xct'[x].first \in Own(x)
    BY <1>1, <1>2, <1>6
  <2>. QED
    BY <1>5, <2>1, <2>2, <2>3, <2>4, <2>5 DEF Works, At, Working
<1>9. Known(x)'
  BY <1>1, <1>2, <1>3, <1>5 DEF Known
<1>10. Unfinished(x)'
  BY <1>1, <1>2, <1>3, <1>4, <1>5 DEF Unfinished
<1>11. FirstKnown(x)'
  <2>1. SUFFICES ASSUME mode = "up", Own(x) # {}
                 PROVE  f.first # 0 /\ \A i \in Own(x) : f.first <= i
    BY <1>1, <1>5 DEF FirstKnown
  <2>2. IF e.first # 0 THEN \A i \in Own(x) : e.first <= i ELSE t.at = "logged" /\ Own(x) = {e.last}
    BY <1>1, <1>3, <1>4, <2>1 DEF FirstKnown, At
  <2>3. \A i \in Own(x) : i \in Nat
    BY DEF Own
  <2>. QED
    BY <1>2, <1>6, <2>2, <2>3
<1>. QED
  BY <1>7, <1>8, <1>9, <1>10, <1>11 DEF Life

\* It begins with no record of its own,
LEMMA LifeBegin ==
  ASSUME Base, NEW x \in Xct, Life(x), Begin(x)
  PROVE  Life(x)'
<1>1. /\ xct[x] \in Entry /\ xct \in [Xct -> Entry]
  BY DEF Base, TypeOK
<1>2. /\ mode = "up" /\ xct[x].st = "none" /\ x \notin hist.cut
      /\ xct' = [xct EXCEPT ![x].st = "active"]
      /\ UNCHANGED <<log, durable, thread, mode, hist>>
  BY DEF Begin, logVars, restartVars
<1>3. xct'[x].st = "active" /\ xct'[x].first = xct[x].first /\ xct'[x].last = xct[x].last
  BY <1>1, <1>2 DEF Entry
<1>4. EndsOnce(x) /\ Works(x) /\ Known(x)
  BY DEF Life
<1>5. Own(x) = {} /\ FreeRecs(x) = {} /\ EndRecs(x) = {}
  <2>1. Own(x) = {}
    BY <1>2, <1>4 DEF Known
  <2>. QED
    BY <2>1 DEF FreeRecs, EndRecs
<1>6. Own(x)' = {} /\ FreeRecs(x)' = {} /\ EndRecs(x)' = {}
  BY <1>2, <1>5, RecsStay DEF SameRecs, Base
<1>7. thread'[x].at = "idle"
  BY <1>2, <1>4 DEF Works, At
<1>8. Works(x)'
  BY <1>2, <1>3, <1>4, <1>5, <1>6, <1>7 DEF Works, At, Working
<1>9. EndsOnce(x)' /\ Known(x)' /\ Unfinished(x)' /\ FirstKnown(x)'
  BY <1>6 DEF EndsOnce, Known, Unfinished, FirstKnown
<1>. QED
  BY <1>8, <1>9 DEF Life

\* ends with none if it has logged nothing,
LEMMA LifeEndUnlogged ==
  ASSUME Base, NEW x \in Xct, Life(x), EndUnlogged(x)
  PROVE  Life(x)'
<1>1. /\ xct[x] \in Entry /\ thread[x] \in Thread /\ xct \in [Xct -> Entry] /\ thread \in [Xct -> Thread]
  BY DEF Base, TypeOK
<1>2. /\ thread[x].at = "ask" /\ xct[x].last = 0
      /\ xct' = [xct EXCEPT ![x].st = "ended"] /\ thread' = [thread EXCEPT ![x].at = "done"]
      /\ UNCHANGED <<log, durable, mode, hist>>
  BY DEF EndUnlogged, logVars, restartVars, At, Goes, NoLsn
<1>3. xct'[x].st = "ended" /\ xct'[x].first = xct[x].first /\ xct'[x].last = xct[x].last /\ thread'[x].at = "done"
  BY <1>1, <1>2 DEF Entry, Thread
<1>4. EndsOnce(x) /\ Works(x) /\ Unfinished(x) /\ FirstKnown(x)
  BY DEF Life
<1>5. xct[x].st \in {"committing", "aborting"} /\ (xct[x].st = "committing" => mode = "up") /\ mode # "analysis"
      /\ xct[x].first = 0
  BY <1>2, <1>4 DEF Works, At, Base, LatchInv, Restarting
<1>6. FreeRecs(x) = {} /\ EndRecs(x) = {} /\ ~Freed(x)
  BY <1>4, <1>5, WorkerUndecided
<1>7. Own(x) = {}
  BY <1>2, <1>4, <1>5, <1>6 DEF Unfinished, FirstKnown, At
<1>8. Own(x)' = {} /\ FreeRecs(x)' = {} /\ EndRecs(x)' = {}
  BY <1>2, <1>6, <1>7, RecsStay DEF SameRecs, Base
<1>9. Works(x)'
  BY <1>3, <1>5, <1>8 DEF Works, At, Working
<1>10. EndsOnce(x)' /\ Known(x)' /\ Unfinished(x)' /\ FirstKnown(x)'
  BY <1>8 DEF EndsOnce, Known, Unfinished, FirstKnown
<1>. QED
  BY <1>9, <1>10 DEF Life

\* has decided for good when the record that decides is durable,
LEMMA LifeSynced ==
  ASSUME Base, NEW x \in Xct, Life(x), Synced(x), hist'.cut = hist.cut
  PROVE  Life(x)'
<1>1. /\ xct[x] \in Entry /\ thread[x] \in Thread /\ xct \in [Xct -> Entry] /\ thread \in [Xct -> Thread]
  BY DEF Base, TypeOK
<1>2. /\ thread[x].at = "sync" /\ xct[x].last <= durable /\ thread' = [thread EXCEPT ![x].at = "ending"]
      /\ UNCHANGED <<log, durable, mode, xct>>
  BY DEF Synced, logVars, restartVars, At, Goes
<1>3. thread'[x].at = "ending"
  BY <1>1, <1>2 DEF Thread
<1>4. EndsOnce(x) /\ Works(x) /\ Known(x)
  BY DEF Life
<1>5. xct[x].st = "freeing" /\ xct[x].last \in FreeRecs(x) /\ Freed(x) /\ EndRecs(x) = {}
  BY <1>2, <1>4 DEF Works, At, Freed
<1>6. SameRecs(x)
  BY <1>2, RecsStay DEF Base
<1>7. Freed(x)'
  BY <1>2, <1>5, <1>6 DEF Freed, SameRecs
<1>8. Works(x)'
  BY <1>2, <1>3, <1>4, <1>5, <1>6, <1>7 DEF Works, At, Working, SameRecs
<1>9. EndsOnce(x)' /\ Known(x)'
  BY <1>2, <1>4, <1>6 DEF EndsOnce, Known, SameRecs
<1>10. Unfinished(x)' /\ FirstKnown(x)'
  BY <1>7 DEF Unfinished, FirstKnown
<1>. QED
  BY <1>8, <1>9, <1>10 DEF Life

\* What logging a record does to the thread and the entry of a transaction.
LEMMA LoggingMoves ==
  ASSUME Base, NEW x \in Xct, Logging(x)
  PROVE  LET t == thread[x]  u == thread'[x]  e == xct[x]  f == xct'[x]  n == Len(log) + 1 IN
         /\ f.last = n
         /\ \/ Insert(x) /\ t.at = "fixed" /\ u.at = "logged" /\ f.st = e.st /\ f.first = e.first
            \/ /\ f.first = IF e.first = 0 THEN n ELSE e.first
               /\ \/ LogCompensation(x) /\ t.at = "comp" /\ t.back # 0 /\ u.at = "undo" /\ f.st = e.st
                  \/ LogFreeing(x) /\ t.at = "ask" /\ e.last # 0 /\ u.at = "sync" /\ f.st = "freeing"
                  \/ LogEnd(x) /\ t.at = "ending" /\ u.at = "done" /\ f.st = "ended"
<1>. DEFINE n == Len(log) + 1
<1>1. /\ xct[x] \in Entry /\ thread[x] \in Thread /\ xct \in [Xct -> Entry] /\ thread \in [Xct -> Thread]
      /\ CurrLsn = n /\ n \in Nat
  BY DEF Base, TypeOK, CurrLsn
<1>. HIDE DEF n
<1>2. ASSUME NEW a \in Nat, NEW s, NEW s2, NEW w,
             \/ xct' = [xct EXCEPT ![x] = Tracked(@, n, a)] /\ s = xct[x].st
             \/ xct' = [xct EXCEPT ![x] = [Tracked(@, n, a) EXCEPT !.st = s]],
             thread' = [thread EXCEPT ![x].at = w]
      PROVE  /\ xct'[x].last = n /\ xct'[x].st = s /\ xct'[x].first = (IF xct[x].first = 0 THEN n ELSE xct[x].first)
             /\ thread'[x].at = w
  <2>1. PICK e \in Entry : e = Tracked(xct[x], n, a)
    BY <1>1, TrackedType
  <2>2. e.last = n /\ e.st = xct[x].st /\ e.first = (IF xct[x].first = 0 THEN n ELSE xct[x].first)
    BY <1>1, <2>1, TrackedType
  <2>3. (xct'[x] = e /\ s = xct[x].st) \/ xct'[x] = [e EXCEPT !.st = s]
    BY <1>1, <1>2, <2>1
  <2>4. thread'[x].at = w
    BY <1>1, <1>2 DEF Thread
  <2>. QED
    BY <2>2, <2>3, <2>4 DEF Entry
<1>3. CASE Insert(x)
  <2>1. /\ thread[x].at = "fixed" /\ xct' = [xct EXCEPT ![x].last = n] /\ thread' = [thread EXCEPT ![x].at = "logged"]
    BY <1>1, <1>3 DEF Insert, Goes, At
  <2>. QED
    BY <1>1, <1>3, <2>1 DEF Entry, Thread, n
<1>4. CASE LogCompensation(x)
  <2>. DEFINE a == log[thread[x].back].prev
  <2>1. /\ thread[x].at = "comp" /\ xct' = [xct EXCEPT ![x] = Tracked(@, n, a)]
    BY <1>1, <1>4 DEF LogCompensation, At
  <2>2. a \in Nat /\ thread[x].back # 0
    BY <2>1, Records DEF At, Base, ChainInv, Chain
  <2>3. thread' = [thread EXCEPT ![x].at = "undo", ![x].back = NoLsn, ![x].next = a]
    BY <1>4 DEF LogCompensation, Undone
  <2>4. thread'[x].at = "undo"
    <3>. HIDE DEF a
    <3>. QED
      BY <1>1, <2>3 DEF Thread
  <2>. HIDE DEF a
  <2>5. xct'[x] = Tracked(xct[x], n, a)
    BY <1>1, <2>1
  <2>6. xct'[x].last = n /\ xct'[x].st = xct[x].st /\ xct'[x].first = (IF xct[x].first = 0 THEN n ELSE xct[x].first)
    BY <1>1, <2>2, <2>5, TrackedType
  <2>. QED
    BY <1>4, <2>1, <2>2, <2>4, <2>6 DEF n
<1>5. CASE LogFreeing(x)
  <2>1. /\ thread[x].at = "ask" /\ xct[x].last # 0 /\ xct' = [xct EXCEPT ![x] = [Tracked(@, n, n) EXCEPT !.st = "freeing"]]
        /\ thread' = [thread EXCEPT ![x].at = "sync"]
    BY <1>1, <1>5 DEF LogFreeing, At, Goes, NoLsn
  <2>2. /\ xct'[x].last = n /\ xct'[x].st = "freeing" /\ xct'[x].first = (IF xct[x].first = 0 THEN n ELSE xct[x].first)
        /\ thread'[x].at = "sync"
    BY <1>1, <1>2, <2>1
  <2>. QED
    BY <1>5, <2>1, <2>2 DEF n
<1>6. CASE LogEnd(x)
  <2>1. /\ thread[x].at = "ending" /\ xct' = [xct EXCEPT ![x] = [Tracked(@, n, n) EXCEPT !.st = "ended"]]
        /\ thread' = [thread EXCEPT ![x].at = "done"]
    BY <1>1, <1>6 DEF LogEnd, At, Goes
  <2>2. /\ xct'[x].last = n /\ xct'[x].st = "ended" /\ xct'[x].first = (IF xct[x].first = 0 THEN n ELSE xct[x].first)
        /\ thread'[x].at = "done"
    BY <1>1, <1>2, <2>1
  <2>. QED
    BY <1>6, <2>1, <2>2 DEF n
<1>. QED
  BY <1>3, <1>4, <1>5, <1>6 DEF Logging

\* logs what it may log, as far as it is,
LEMMA LifeLogging ==
  ASSUME Base, NEW x \in Xct, Life(x), Logging(x), hist'.cut = hist.cut
  PROVE  Life(x)'
<1>1. PICK t, u, e, f, n : t = thread[x] /\ u = thread'[x] /\ e = xct[x] /\ f = xct'[x] /\ n = Len(log) + 1
  OBVIOUS
<1>2. /\ f.last = n
      /\ \/ Insert(x) /\ t.at = "fixed" /\ u.at = "logged" /\ f.st = e.st /\ f.first = e.first
         \/ /\ f.first = IF e.first = 0 THEN n ELSE e.first
            /\ \/ LogCompensation(x) /\ t.at = "comp" /\ t.back # 0 /\ u.at = "undo" /\ f.st = e.st
               \/ LogFreeing(x) /\ t.at = "ask" /\ e.last # 0 /\ u.at = "sync" /\ f.st = "freeing"
               \/ LogEnd(x) /\ t.at = "ending" /\ u.at = "done" /\ f.st = "ended"
  BY <1>1, LoggingMoves
<1>3. /\ Own(x)' = Own(x) \union {n}
      /\ FreeRecs(x)' = FreeRecs(x) \union IF LogFreeing(x) THEN {n} ELSE {}
      /\ EndRecs(x)' = EndRecs(x) \union IF LogEnd(x) THEN {n} ELSE {}
  BY <1>1, RecsLogging
<1>4. EndsOnce(x) /\ Works(x) /\ Known(x) /\ Unfinished(x) /\ FirstKnown(x)
  BY DEF Life
<1>5. durable' = durable /\ mode' = mode
  BY LoggingIs DEF Base, restartVars
<1>6. /\ Own(x) \subseteq 1 .. n - 1 /\ n \in Nat /\ n # 0 /\ durable \in Nat /\ durable < n
      /\ FreeRecs(x) \subseteq Own(x) /\ EndRecs(x) \subseteq Own(x)
  <2>1. /\ Own(x) \subseteq 1 .. Len(log) /\ Len(log) \in Nat
        /\ FreeRecs(x) \subseteq Own(x) /\ EndRecs(x) \subseteq Own(x)
    BY RecsAre DEF Base
  <2>. QED
    BY <1>1, <2>1 DEF Base, TypeOK, LogInv
<1>7. Freed(x)' = Freed(x)
  BY <1>3, <1>5, <1>6 DEF Freed
<1>8. (e.first # 0 => e.last # 0 /\ e.first \in Own(x)) /\ (t.back # 0 => t.back \in Own(x)) /\ (e.last # 0 => e.last \in Own(x))
  BY <1>1, <1>4 DEF Works, Base, ChainInv, Chain
<1>9. t.at # "idle" => mode # "analysis"
  BY <1>1 DEF Base, LatchInv, Restarting, At
<1>10. f.first # 0 => f.last # 0 /\ f.first \in Own(x)'
  BY <1>2, <1>3, <1>6, <1>8
<1>11. CASE Insert(x) \/ LogCompensation(x)
  <2>1. /\ t.at \in {"fixed", "comp"} /\ u.at \in {"logged", "undo"} /\ f.st = e.st /\ ~LogFreeing(x) /\ ~LogEnd(x)
    <3>1. t.at \in {"fixed", "comp"}
      BY <1>1, <1>11 DEF Insert, LogCompensation, At
    <3>2. ~LogFreeing(x) /\ ~LogEnd(x)
      BY <1>1, <3>1 DEF LogFreeing, LogEnd, At
    <3>. QED
      BY <1>2, <3>1, <3>2
  <2>2. e.st \in {"active", "aborting"}
    BY <1>1, <1>4, <2>1 DEF Works, Working
  <2>3. FreeRecs(x) = {} /\ EndRecs(x) = {} /\ ~Freed(x)
    BY <1>1, <1>4, <2>2, WorkerUndecided
  <2>4. FreeRecs(x)' = {} /\ EndRecs(x)' = {}
    BY <1>3, <2>1, <2>3
  <2>5. Works(x)'
    BY <1>1, <1>10, <2>1, <2>2, <2>4 DEF Works, At, Working
  <2>6. mode # "up" => Own(x) # {}
    BY <1>1, <1>2, <1>4, <1>8, <1>11, <2>1 DEF Works, At
  <2>7. Known(x)'
    BY <1>1, <1>4, <1>5, <2>1, <2>2, <2>6 DEF Known
  <2>8. Unfinished(x)'
    BY <1>1, <1>2, <1>6, <2>1, <2>2 DEF Unfinished
  <2>9. FirstKnown(x)'
    <3>1. SUFFICES ASSUME mode = "up"
                   PROVE  IF f.first # 0 THEN \A i \in Own(x)' : f.first <= i ELSE u.at = "logged" /\ Own(x)' = {f.last}
      BY <1>1, <1>5 DEF FirstKnown, At
    <3>2. Own(x) # {} => IF e.first # 0 THEN \A i \in Own(x) : e.first <= i ELSE t.at = "logged" /\ Own(x) = {e.last}
      BY <1>1, <1>4, <2>3, <3>1 DEF FirstKnown, At
    <3>3. Own(x) # {} => e.first # 0 /\ \A i \in Own(x) : e.first <= i
      BY <2>1, <3>2
    <3>4. e.first # 0 => e.first < n
      BY <1>6, <1>8
    <3>5. CASE e.first # 0
      BY <1>2, <1>3, <1>6, <1>8, <3>3, <3>4, <3>5
    <3>6. CASE e.first = 0
      <4>1. Own(x) = {}
        BY <3>3, <3>6
      <4>2. Insert(x)
        BY <1>1, <1>2, <1>8, <1>11, <2>1, <4>1
      <4>3. u.at = "logged" /\ f.first = 0
        BY <1>2, <2>1, <3>6, <4>2 DEF LogCompensation, Insert, At
      <4>. QED
        BY <1>2, <1>3, <4>1, <4>3
    <3>. QED
      BY <3>5, <3>6
  <2>10. EndsOnce(x)'
    BY <2>4 DEF EndsOnce
  <2>. QED
    BY <2>5, <2>7, <2>8, <2>9, <2>10 DEF Life
<1>12. CASE LogFreeing(x)
  <2>1. t.at = "ask" /\ e.last # 0 /\ u.at = "sync" /\ f.st = "freeing" /\ ~LogEnd(x)
        /\ f.first = IF e.first = 0 THEN n ELSE e.first
    BY <1>1, <1>2, <1>12 DEF Insert, LogCompensation, LogFreeing, LogEnd, At
  <2>2. e.st \in {"committing", "aborting"}
    BY <1>1, <1>4, <2>1 DEF Works, At
  <2>3. FreeRecs(x) = {} /\ EndRecs(x) = {} /\ ~Freed(x)
    BY <1>1, <1>4, <2>2, WorkerUndecided
  <2>4. FreeRecs(x)' = {n} /\ EndRecs(x)' = {} /\ Own(x) # {}
    BY <1>3, <1>8, <1>12, <2>1, <2>3
  <2>5. Works(x)'
    BY <1>1, <1>2, <1>10, <2>1, <2>4 DEF Works, At, Working
  <2>6. Known(x)' /\ Unfinished(x)'
    BY <1>1, <1>2, <1>4, <1>5, <1>6, <2>1, <2>4 DEF Known, Unfinished
  <2>7. FirstKnown(x)'
    <3>1. SUFFICES ASSUME mode = "up"
                   PROVE  f.first # 0 /\ \A i \in Own(x)' : f.first <= i
      BY <1>1, <1>5 DEF FirstKnown, At
    <3>2. e.first # 0 /\ \A i \in Own(x) : e.first <= i
      BY <1>1, <1>4, <2>1, <2>3, <2>4, <3>1 DEF FirstKnown, At
    <3>3. e.first < n
      BY <1>6, <1>8, <3>2
    <3>4. e.first <= n /\ f.first = e.first
      BY <1>6, <1>8, <2>1, <3>2, <3>3
    <3>. QED
      BY <1>3, <3>2, <3>4
  <2>8. EndsOnce(x)'
    <3>1. \A i \in FreeRecs(x)' : \A j \in Own(x)' : ~(i < j)
      BY <1>3, <1>6, <2>4
    <3>. QED
      BY <2>4, <3>1 DEF EndsOnce
  <2>. QED
    BY <2>5, <2>6, <2>7, <2>8 DEF Life
<1>13. CASE LogEnd(x)
  <2>1. t.at = "ending" /\ u.at = "done" /\ f.st = "ended" /\ ~LogFreeing(x)
    BY <1>1, <1>2, <1>13 DEF Insert, LogCompensation, LogFreeing, LogEnd, At
  <2>2. e.st = "freeing" /\ Freed(x) /\ EndRecs(x) = {}
    BY <1>1, <1>4, <2>1 DEF Works, At
  <2>3. FreeRecs(x)' = FreeRecs(x) /\ EndRecs(x)' = {n}
    BY <1>3, <1>13, <2>1, <2>2
  <2>4. Works(x)'
    BY <1>1, <1>10, <2>1, <2>3 DEF Works, At, Working
  <2>5. Unfinished(x)' /\ FirstKnown(x)'
    BY <1>7, <2>2 DEF Unfinished, FirstKnown
  <2>6. Own(x) # {}
    BY <1>6, <2>2 DEF Freed
  <2>7. Known(x)'
    BY <1>1, <1>4, <1>5, <2>1, <2>6 DEF Known
  <2>8. EndsOnce(x)'
    <3>1. \A i \in FreeRecs(x) : \A j \in Own(x)' : i < j => j = n
      BY <1>3, <1>4, <2>2 DEF EndsOnce
    <3>2. \A j \in Own(x)' : j <= n
      BY <1>3, <1>6
    <3>3. \E j \in FreeRecs(x) : j < n
      BY <1>6, <2>2 DEF Freed
    <3>. QED
      BY <2>3, <3>1, <3>2, <3>3 DEF EndsOnce
  <2>. QED
    BY <2>4, <2>5, <2>7, <2>8 DEF Life
<1>. QED
  BY <1>11, <1>12, <1>13 DEF Logging

\* is cut off by a crash, which leaves what is on disk of its records,
LEMMA LifeCrash ==
  ASSUME Base, NEW x \in Xct, Life(x), Crash
  PROVE  Life(x)'
<1>0. TypeOK /\ LogInv
  BY DEF Base
<1>1. /\ Len(log') \in Nat /\ durable' = Len(log') /\ Len(log') <= Len(log) /\ Len(log) \in Nat
      /\ \A i \in 1 .. Len(log') : log'[i] = log[i] /\ i \in 1 .. Len(log)
      /\ xct'[x] = NewXct /\ thread'[x] = Idle /\ mode' = "analysis"
  <2>1. log \in Seq(LogRec) /\ log' \in Seq(LogRec)
    BY <1>0, CrashIs DEF TypeOK
  <2>. QED
    BY <1>0, <2>1, CrashIs
<1>2. /\ Own(x)' = {i \in Own(x) : i <= Len(log')}
      /\ FreeRecs(x)' = {i \in FreeRecs(x) : i <= Len(log')}
      /\ EndRecs(x)' = {i \in EndRecs(x) : i <= Len(log')}
  <2>1. Own(x)' = {i \in Own(x) : i <= Len(log')}
    BY <1>1 DEF Own
  <2>2. \A i \in Own(x)' : log'[i] = log[i]
    BY <1>1 DEF Own
  <2>. QED
    BY <2>1, <2>2 DEF FreeRecs, EndRecs
<1>3. Own(x) \subseteq 1 .. Len(log) /\ FreeRecs(x) \subseteq Own(x) /\ EndRecs(x) \subseteq Own(x)
  BY <1>0, RecsAre
<1>4. EndsOnce(x) /\ Works(x) /\ Known(x)
  BY DEF Life
<1>5. NewXct.st = "none" /\ NewXct.first = 0 /\ Idle.at = "idle"
  BY DEF NewXct, Idle, NoLsn
<1>6. EndsOnce(x)'
  <2>1. \A i \in FreeRecs(x)' : \A j \in Own(x)' : i < j => j \in EndRecs(x)'
    BY <1>2, <1>4 DEF EndsOnce
  <2>2. \A i \in EndRecs(x)' : \A j \in Own(x)' : j <= i
    BY <1>2, <1>4 DEF EndsOnce
  <2>3. \A i \in EndRecs(x)' : \E j \in FreeRecs(x)' : j < i
    <3>. TAKE i \in EndRecs(x)'
    <3>1. PICK j \in FreeRecs(x) : j < i
      BY <1>2, <1>4 DEF EndsOnce
    <3>2. i \in Nat /\ j \in Nat /\ i <= Len(log')
      BY <1>2, <1>3
    <3>3. j \in FreeRecs(x)'
      BY <1>1, <1>2, <3>1, <3>2
    <3>. QED
      BY <3>1, <3>3
  <2>. QED
    BY <2>1, <2>2, <2>3 DEF EndsOnce
<1>7. Works(x)'
  BY <1>1, <1>5 DEF Works, At, Working
<1>8. Known(x)'
  <2>1. hist \in History /\ hist' = [hist EXCEPT !.cut = @ \union {y \in Xct : xct[y].st # "none"}]
    BY <1>0 DEF TypeOK, Crash
  <2>2. hist'.cut = hist.cut \union {y \in Xct : xct[y].st # "none"}
    BY <2>1 DEF History
  <2>3. Own(x)' # {} => Own(x) # {}
    BY <1>2
  <2>. QED
    BY <1>1, <1>4, <2>2, <2>3 DEF Known
<1>9. Unfinished(x)' /\ FirstKnown(x)'
  BY <1>1 DEF Unfinished, FirstKnown
<1>. QED
  BY <1>6, <1>7, <1>8, <1>9 DEF Life

\* is found by restart, unless it has decided,
LEMMA LifeAnalyse ==
  ASSUME Base, MasterTable, NEW x \in Xct, Life(x), Analyse
  PROVE  Life(x)'
<1>0. TypeOK /\ LogInv /\ ChainInv /\ LatchInv
  BY DEF Base
<1>1. /\ mode = "analysis" /\ mode' = "redo" /\ UNCHANGED <<log, durable, thread, hist>>
      /\ durable = Len(log) /\ thread[x].at = "idle" /\ SubSeq(log, 1, durable) = log
  <2>1. mode = "analysis" /\ mode' = "redo" /\ UNCHANGED <<log, durable, thread, hist>>
    BY DEF Analyse, logVars
  <2>2. durable = Len(log) /\ thread[x].at = "idle"
    BY <1>0, <2>1 DEF LogInv, LatchInv, Restarting, At
  <2>3. SubSeq(log, 1, Len(log)) = log
    BY <1>0 DEF TypeOK
  <2>. QED
    BY <2>1, <2>2, <2>3
<1>2. xct'[x].st = XtOf(log, master)[x].st /\ xct'[x].last = XtOf(log, master)[x].last /\ xct'[x].first = 0
  BY DEF Analyse, XtOf, NoLsn
<1>3. xct'[x].st \in {"none", "active", "committing"}
  <2>1. log \in Seq(LogRec) /\ master \in Nat /\ master <= Len(log)
    BY <1>0 DEF TypeOK, LogInv
  <2>2. /\ XtOf(log, master)[x] \in XctEntry
        /\ \E e : XtOf(log, master)[x] = IF e.st = "freeing" THEN NoEntry ELSE e
    BY <2>1, XtIs
  <2>3. PICK e : XtOf(log, master)[x] = IF e.st = "freeing" THEN NoEntry ELSE e
    BY <2>2
  <2>4. XtOf(log, master)[x].st # "freeing"
    BY <2>3 DEF NoEntry
  <2>5. XtOf(log, master)[x].st \in {"none", "active", "committing", "freeing"}
    BY <2>2 DEF XctEntry
  <2>. QED
    BY <1>2, <2>4, <2>5
<1>4. EndsOnce(x) /\ Works(x) /\ Known(x)
  BY DEF Life
<1>5. /\ Own(x) \subseteq 1 .. Len(log) /\ Len(log) \in Nat
      /\ FreeRecs(x) \subseteq Own(x) /\ EndRecs(x) \subseteq Own(x)
  BY <1>0, RecsAre
<1>6. /\ Freed(x) => xct'[x].st = "none"
      /\ ~Freed(x) /\ Own(x) # {} => xct'[x].st \in {"active", "committing"} /\ (xct'[x].st = "active" => xct'[x].last # 0)
  <2>1. LET e == XtOf(SubSeq(log, 1, durable), master)[x] IN
        /\ Freed(x) => e.st = "none"
        /\ ~Freed(x) /\ (\E n \in Own(x) : n <= durable) =>
             e.st \in {"active", "committing"} /\ (e.st = "active" => e.last # 0)
    BY <1>4, RestartKnows
  <2>2. XtOf(SubSeq(log, 1, durable), master)[x] = XtOf(log, master)[x]
    BY <1>1
  <2>3. Own(x) # {} => \E n \in Own(x) : n <= durable
    BY <1>1, <1>5
  <2>. QED
    BY ONLY <1>2, <2>1, <2>2, <2>3
<1>7. SameRecs(x)
  BY <1>0, <1>1, RecsStay
<1>8. Freed(x)' = Freed(x) /\ (Freed(x) <=> FreeRecs(x) # {})
  BY <1>1, <1>5, <1>7 DEF Freed, SameRecs
<1>9. Works(x)'
  BY <1>1, <1>2, <1>3, <1>6, <1>7, <1>8 DEF Works, At, Working, SameRecs
<1>10. EndsOnce(x)' /\ Known(x)'
  BY <1>1, <1>4, <1>7 DEF EndsOnce, Known, SameRecs
<1>11. Unfinished(x)' /\ FirstKnown(x)'
  BY <1>1, <1>3, <1>6, <1>7, <1>8 DEF Unfinished, FirstKnown, SameRecs
<1>. QED
  BY <1>9, <1>10, <1>11 DEF Life

\* and has decided for good when the system is up again.
LEMMA LifeUndoEnds ==
  ASSUME Base, NEW x \in Xct, Life(x), UndoEnds
  PROVE  Life(x)'
<1>0. TypeOK
  BY DEF Base
<1>1. /\ mode = "undo" /\ mode' \in {"up", "halted"} /\ UNCHANGED <<log, durable, hist>>
      /\ thread[x].at \in {"idle", "done"} /\ thread'[x].at = "idle"
  BY <1>0, UndoEndsIs, Starts DEF logVars
<1>2. /\ xct[x].st # "active" /\ xct'[x] = (IF xct[x].st = "ended" THEN NewXct ELSE xct[x])
      /\ mode' = "up" => xct[x].st \in {"none", "ended"}
  BY DEF UndoEnds, Losers
<1>3. EndsOnce(x) /\ Works(x) /\ Known(x) /\ Unfinished(x)
  BY DEF Life
<1>4. NewXct.st = "none" /\ NewXct.first = 0
  BY DEF NewXct, NoLsn
<1>5. SameRecs(x) /\ Freed(x)' = Freed(x)
  BY <1>0, <1>1, RecsStay DEF SameRecs, Freed
<1>6. xct[x].st \in {"none", "ended"} => Own(x) = {} \/ Freed(x)
  BY <1>1, <1>3 DEF Unfinished
<1>7. xct[x].st # "freeing" /\ (xct[x].st = "none" => xct'[x] = xct[x])
  BY <1>1, <1>2, <1>3 DEF Works, At
<1>8. Works(x)'
  BY <1>1, <1>2, <1>3, <1>4, <1>5, <1>7 DEF Works, At, Working, SameRecs
<1>9. EndsOnce(x)' /\ Known(x)'
  BY <1>1, <1>3, <1>5 DEF EndsOnce, Known, SameRecs
<1>10. Unfinished(x)' /\ FirstKnown(x)'
  BY <1>1, <1>2, <1>3, <1>4, <1>5, <1>6 DEF Unfinished, FirstKnown, SameRecs
<1>. QED
  BY <1>8, <1>9, <1>10 DEF Life

\* The life of every transaction, step by step.
LEMMA LifeStep ==
  ASSUME Base, Base', MasterTable, \A x \in Xct : Life(x), Step, NEW y \in Xct
  PROVE  Life(y)'
<1>0. TypeOK /\ LogInv /\ ChainInv /\ LatchInv /\ Life(y)
  BY DEF Base
<1>1. /\ durable \in Nat /\ durable' \in Nat /\ durable <= durable' /\ FreeRecs(y) \subseteq Nat
  <2>1. durable <= durable'
    BY DurableStays DEF Base
  <2>2. FreeRecs(y) \subseteq Nat
    BY DEF FreeRecs, Own
  <2>. QED
    BY <2>1, <2>2 DEF Base, TypeOK
<1>2. ASSUME NEW x \in Xct, Quiet(x) \/ Logging(x) \/ CompensateInLog(x)
      PROVE  Life(y)'
  <2>1. /\ UNCHANGED <<durable, mode>> /\ mode # "analysis"
        /\ y # x => xct'[y] = xct[y] /\ thread'[y] = thread[y]
    <3>1. UNCHANGED <<durable, mode>> /\ (y # x => xct'[y] = xct[y] /\ thread'[y] = thread[y])
      BY <1>0, <1>2, QuietKeeps, LoggingIs, CompensateIs DEF logVars, restartVars
    <3>2. ~Restarting
      BY <1>0, <1>2, NotRestarting
    <3>. QED
      BY <3>1, <3>2 DEF Restarting
  <2>2. hist'.cut = hist.cut
    <3>1. ~Crash
      <4>1. CASE Crash
        <5>1. mode' = "analysis"
          BY <1>0, <4>1, CrashIs
        <5>. QED
          BY <2>1, <5>1
      <4>. QED
        BY <4>1
    <3>. QED
      BY <1>0, <3>1, CutStays
  <2>3. ~Logging(x) \/ y # x => SameRecs(y)
    <3>1. Quiet(x) => log' = log
      BY <1>0, QuietKeeps DEF logVars
    <3>. QED
      BY <1>0, <1>2, <3>1, RecsStay, RecsCompensate, RecsLogging
  <2>4. CASE y # x
    BY <1>0, <1>1, <2>1, <2>2, <2>3, <2>4, LifeKept
  <2>5. CASE y = x /\ Logging(x)
    BY <1>0, <2>2, <2>5, LifeLogging
  <2>6. CASE y = x /\ (Begin(x) \/ EndUnlogged(x) \/ Synced(x))
    BY <1>0, <2>2, <2>6, LifeBegin, LifeEndUnlogged, LifeSynced
  <2>7. CASE y = x /\ ~Logging(x) /\ ~(Begin(x) \/ EndUnlogged(x) \/ Synced(x))
    <3>1. Moves(x)
      BY <1>0, <1>2, <2>7, MovesAre DEF Quiet, Life
    <3>. QED
      BY <1>0, <2>1, <2>2, <2>3, <2>7, <3>1, LifeMoves
  <2>. QED
    BY <2>4, <2>5, <2>6, <2>7
<1>3. ASSUME SameRecs(y), UNCHANGED <<xct, thread>>, ~Crash,
             mode' = mode \/ (mode \notin {"up", "analysis"} /\ mode' \notin {"up", "analysis"})
      PROVE  Life(y)'
  <2>1. hist'.cut = hist.cut
    BY <1>0, <1>3, CutStays
  <2>. QED
    BY <1>0, <1>1, <1>3, <2>1, LifeKept
<1>4. CASE ~Crash /\ \E p \in Page : Copy(p) \/ WriteCopy(p) \/ ChkptScan(p) \/ Drop(p)
  <2>1. log' = log /\ UNCHANGED <<xct, thread, mode>>
    BY <1>4 DEF Copy, WriteCopy, ChkptScan, Drop, logVars, restartVars
  <2>. QED
    BY <1>0, <1>3, <1>4, <2>1, RecsStay
<1>5. CASE ~Crash /\ Checkpointing
  <2>1. /\ log' \in Seq(LogRec) /\ UNCHANGED <<xct, thread, mode>>
        /\ \/ log' = log
           \/ /\ Len(log') = Len(log) + 1 /\ log'[Len(log) + 1] \in ChkptRec
              /\ \A i \in 1 .. Len(log) : log'[i] = log[i]
    BY <1>0, <1>5, ChkptLogs DEF Checkpointing, restartVars
  <2>2. CASE log' = log
    BY <1>0, <1>3, <1>5, <2>1, <2>2, RecsStay
  <2>3. CASE log' # log
    <3>1. Extends
      BY <1>0, <2>1, <2>3 DEF Extends, TypeOK
    <3>2. log'[Len(log) + 1] \notin Update \union Mark
      BY <2>1, <2>3 DEF ChkptRec, Bound, PageTab, XctTab, Update, Mark
    <3>3. SameRecs(y)
      BY <1>0, <2>1, <2>3, <3>1, <3>2, RecsGrow
    <3>. QED
      BY <1>3, <1>5, <2>1, <3>3
  <2>. QED
    BY <2>2, <2>3
<1>6. CASE ~Crash /\ (Flushing \/ RedoRecord)
  <2>1. /\ log' = log /\ UNCHANGED <<xct, thread>>
        /\ mode' = mode \/ (mode \notin {"up", "analysis"} /\ mode' \notin {"up", "analysis"})
    BY <1>6 DEF Flushing, FlushBegins, FlushEnds, SetMaster, Scavenge, RedoEnds, ForceEnds, RedoRecord, logVars, restartVars
  <2>. QED
    BY <1>0, <1>3, <1>6, <2>1, RecsStay
<1>7. CASE Crash
  BY <1>0, <1>7, LifeCrash
<1>8. CASE Analyse
  BY <1>0, <1>8, LifeAnalyse
<1>9. CASE UndoEnds
  BY <1>0, <1>9, LifeUndoEnds
<1>. QED
  BY <1>2, <1>4, <1>5, <1>6, <1>7, <1>8, <1>9, StepCases

-----------------------------------------------------------------------------
(***************************************************************************)
(* What the durable log says of the transactions stays.                    *)
(***************************************************************************)
\* The durable records of a transaction stay as they are.
LEMMA RecsDurable ==
  ASSUME Base, Base', Step, NEW x
  PROVE  /\ durable \in Nat /\ durable' \in Nat /\ durable <= durable'
         /\ \A i \in Nat : i <= durable => /\ i \in Own(x)' <=> i \in Own(x)
                                           /\ i \in FreeRecs(x)' <=> i \in FreeRecs(x)
                                           /\ i \in EndRecs(x)' <=> i \in EndRecs(x)
         /\ Freed(x) => Freed(x)'
<1>1. /\ durable \in Nat /\ durable' \in Nat /\ Len(log) \in Nat /\ Len(log') \in Nat
      /\ durable <= durable' /\ durable <= Len(log) /\ durable' <= Len(log')
      /\ \A i \in 1 .. durable : log'[i] = log[i]
  BY DurableStays DEF Base, TypeOK
<1>2. ASSUME NEW i \in Nat, i <= durable
      PROVE  /\ i \in 1 .. Len(log) <=> i \in 1 .. Len(log')
             /\ i \in 1 .. Len(log) => log'[i] = log[i]
  BY <1>1, <1>2
<1>3. ASSUME NEW i \in Nat, i <= durable
      PROVE  i \in Own(x)' <=> i \in Own(x)
  BY <1>2, <1>3 DEF Own
<1>4. ASSUME NEW i \in Nat, i <= durable
      PROVE  /\ i \in FreeRecs(x)' <=> i \in FreeRecs(x)
             /\ i \in EndRecs(x)' <=> i \in EndRecs(x)
  <2>1. (i \in Own(x)' <=> i \in Own(x)) /\ (i \in Own(x) => log'[i] = log[i])
    BY <1>2, <1>3, <1>4 DEF Own
  <2>. QED
    BY <2>1 DEF FreeRecs, EndRecs
<1>5. FreeRecs(x) \subseteq Nat
  BY DEF FreeRecs, Own
<1>6. Freed(x) => Freed(x)'
  <2>1. SUFFICES ASSUME NEW i \in FreeRecs(x), i <= durable
                 PROVE  \E j \in FreeRecs(x)' : j <= durable'
    BY DEF Freed
  <2>2. i \in FreeRecs(x)' /\ i \in Nat
    BY <1>4, <1>5, <2>1
  <2>. QED
    BY <1>1, <2>1, <2>2
<1>. QED
  BY <1>1, <1>3, <1>4, <1>6

\* What the table of the master checkpoint says stays, until there is another master,
LEMMA MasterTableKept ==
  ASSUME Base, Base', Step, master' = master, MasterTable
  PROVE  MasterTable'
<1>0. /\ durable \in Nat /\ durable' \in Nat /\ master \in Nat /\ durable <= durable'
      /\ \A i \in 1 .. durable : log'[i] = log[i]
  BY DurableStays DEF Base, TypeOK
<1>1. PICK i \in master + 1 .. durable :
        /\ log[i].k = "xtab"
        /\ \A j \in master + 1 .. i : log[j].k # "cend"
        /\ \E c \in i + 1 .. durable : /\ log[c].k = "cend"
                                      /\ \A j \in master + 1 .. c : log[j].k = "xtab" => j = i
        /\ \A x \in Xct : /\ TableSays(x, master, i)
                          /\ log[i].tab[x] = "active" =>
                               \E j \in Own(x) \ EndRecs(x) : master < j /\ j <= durable
  BY DEF MasterTable
<1>2. PICK c \in i + 1 .. durable : /\ log[c].k = "cend"
                                    /\ \A j \in master + 1 .. c : log[j].k = "xtab" => j = i
  BY <1>1
<1>3. /\ i \in master + 1 .. durable' /\ c \in i + 1 .. durable' /\ i \in Nat /\ i <= durable
      /\ \A j \in master + 1 .. c : log'[j] = log[j]
      /\ \A j \in master + 1 .. i : log'[j] = log[j]
      /\ log'[i] = log[i] /\ log'[c] = log[c]
  BY <1>0
<1>4. ASSUME NEW x \in Xct
      PROVE  /\ TableSays(x, master, i)'
             /\ log'[i].tab[x] = "active" =>
                  \E j \in Own(x)' \ EndRecs(x)' : master < j /\ j <= durable'
  <2>1. \A j \in Nat : j <= durable => /\ j \in Own(x)' <=> j \in Own(x)
                                       /\ j \in FreeRecs(x)' <=> j \in FreeRecs(x)
                                       /\ j \in EndRecs(x)' <=> j \in EndRecs(x)
    BY RecsDurable
  <2>2. /\ Own(x) \subseteq Nat /\ FreeRecs(x) \subseteq Nat /\ EndRecs(x) \subseteq Nat
        /\ Own(x)' \subseteq Nat /\ FreeRecs(x)' \subseteq Nat /\ EndRecs(x)' \subseteq Nat
    BY DEF Own, FreeRecs, EndRecs
  <2>3. \A j \in Nat : j < i => j <= durable
    BY <1>0, <1>3
  <2>4. TableSays(x, master, i)'
    BY <1>0, <1>1, <1>3, <2>1, <2>2, <2>3 DEF TableSays
  <2>5. ASSUME log[i].tab[x] = "active"
        PROVE  \E j \in Own(x)' \ EndRecs(x)' : master < j /\ j <= durable'
    <3>1. PICK j \in Own(x) \ EndRecs(x) : master < j /\ j <= durable
      BY <1>1, <2>5
    <3>2. j \in Nat /\ j \in Own(x)' \ EndRecs(x)'
      BY <2>1, <2>2, <3>1
    <3>. QED
      BY <1>0, <3>1, <3>2
  <2>. QED
    BY <1>3, <2>4, <2>5
<1>. QED
  BY <1>1, <1>2, <1>3, <1>4 DEF MasterTable

\* and what the table of a checkpoint says becomes so with set_master, when those that it lists
\* have been heard of.
LEMMA MasterTableSet ==
  ASSUME Base, Base', Step, ChkptInv, ChkptTable, SetMaster, ListedHeard, master' # master
  PROVE  MasterTable'
<1>0. TypeOK /\ LogInv /\ durable \in Nat /\ durable <= Len(log) /\ Len(log) \in Nat /\ log \in Seq(LogRec)
  BY LowLsns DEF Base, TypeOK
<1>1. /\ chk.at = "sync" /\ master' = chk.lsn /\ UNCHANGED <<log, durable>> /\ chk.lsn \in Nat
  BY <1>0, SetMasterIs, ChkptTypesAre DEF ChkptTypes
<1>2. PICK i \in Since("xtab") : /\ Since("xtab") = {i}
                                 /\ \A c \in Since("cend") : i < c
                                 /\ \A x \in Xct : TableSays(x, chk.lsn, i)
  BY <1>1 DEF ChkptTable, TableLogged
<1>3. PICK c \in chk.lsn + 1 .. durable :
        log[c].k = "cend" /\ \A j \in chk.lsn + 1 .. c - 1 : log[j].k # "cend"
  BY MasterEnds
<1>4. c \in Since("cend")
  BY <1>0, <1>1, <1>3 DEF Since
<1>5. /\ i \in Nat /\ c \in Nat /\ chk.lsn < i /\ i < c /\ c <= durable
      /\ log[i].k = "xtab" /\ i \in 1 .. Len(log)
  <2>1. i \in chk.lsn + 1 .. Len(log) /\ log[i].k = "xtab" /\ i < c
    BY <1>2, <1>4 DEF Since
  <2>. QED
    BY <1>0, <1>1, <1>3, <2>1
<1>6. i \in chk.lsn + 1 .. durable /\ c \in i + 1 .. durable
  BY <1>0, <1>1, <1>5
<1>7. \A j \in chk.lsn + 1 .. i : log[j].k # "cend"
  BY <1>1, <1>3, <1>5
<1>8. \A j \in chk.lsn + 1 .. c : log[j].k = "xtab" => j = i
  <2>1. \A j \in chk.lsn + 1 .. c : j \in chk.lsn + 1 .. Len(log)
    BY <1>0, <1>1, <1>5
  <2>. QED
    BY <1>2, <2>1 DEF Since
<1>9. ASSUME NEW x \in Xct, log[i].tab[x] = "active"
      PROVE  \E j \in Own(x) \ EndRecs(x) : chk.lsn < j /\ j <= durable
  <2>1. i \in chk.lsn .. Len(log)
    BY <1>1, <1>5
  <2>2. PICK j \in chk.lsn .. durable : log[j].k \in {"put", "cut", "comp", "free"} /\ log[j].x = x
    BY <1>5, <1>9, <2>1 DEF ListedHeard
  <2>3. j \in 1 .. Len(log) /\ chk.lsn <= j /\ j <= durable /\ j \in Nat
    <3>1. 1 <= chk.lsn
      BY <1>0, <1>1 DEF LogInv, TypeOK
    <3>. QED
      BY <1>0, <1>1, <3>1
  <2>4. log[j] \in Update \union Mark
    <3>1. log[j] \in LogRec
      BY <1>0, <2>3
    <3>. QED
      BY <2>2, <3>1 DEF LogRec, Bound, PageTab, XctTab
  <2>5. j # chk.lsn
    BY <1>1, <2>2 DEF ChkptInv
  <2>6. j \in Own(x) \ EndRecs(x)
    BY <2>2, <2>3, <2>4 DEF Own, EndRecs
  <2>. QED
    BY <1>1, <2>3, <2>5, <2>6
<1>10. \A x \in Xct : SameRecs(x)
  BY <1>0, <1>1, RecsStay
<1>12. ASSUME NEW x \in Xct
       PROVE  TableSays(x, master, i)'
  <2>1. TableSays(x, chk.lsn, i) /\ SameRecs(x)
    BY <1>2, <1>10
  <2>2. log' = log /\ master' = chk.lsn
    BY <1>1
  <2>. QED
    BY ONLY <2>1, <2>2 DEF TableSays, SameRecs
<1>13. \A x \in Xct : log'[i].tab[x] = "active" => \E j \in Own(x)' \ EndRecs(x)' : master' < j /\ j <= durable'
  BY <1>1, <1>9, <1>10 DEF SameRecs
<1>. QED
  BY <1>1, <1>3, <1>5, <1>6, <1>7, <1>8, <1>12, <1>13 DEF MasterTable

\* Every step keeps MasterTable,
LEMMA MasterTableStep ==
  ASSUME Base, Base', Step, ChkptInv, ChkptTable, ListedHeard, MasterTable
  PROVE  MasterTable'
<1>1. CASE master' = master
  BY <1>1, MasterTableKept
<1>2. CASE master' # master
  <2>1. SetMaster
    BY <1>2, MasterStays
  <2>. QED
    BY <1>2, <2>1, MasterTableSet
<1>. QED
  BY <1>1, <1>2

\* LogKeeps,
LEMMA LogKeepsStep ==
  ASSUME Base, Base', Step, ChkptTable, LogKeeps
  PROVE  LogKeeps'
<1>0. /\ TypeOK /\ LogInv /\ low \in Nat /\ low' \in Nat /\ durable \in Nat /\ low <= durable
  BY LowLsns DEF Base, TypeOK
<1>. SUFFICES ASSUME NEW x \in Xct, NEW i \in Own(x)', i < low'
              PROVE  Freed(x)'
  BY DEF LogKeeps
<1>1. i \in Nat
  BY DEF Own
<1>2. CASE ~Scavenge
  <2>1. low' = low
    BY <1>2, LowStays
  <2>2. i \in Own(x)
    BY <1>0, <1>1, <2>1, RecsDurable
  <2>. QED
    BY <2>1, <2>2, RecsDurable DEF LogKeeps
<1>3. CASE Scavenge
  <2>1. chk.at = "scavenge" /\ (low' = low \/ low' <= chk.minXct) /\ UNCHANGED <<log, durable>> /\ chk.minXct \in Nat
    BY <1>0, <1>3, ScavengeIs DEF Scavenge, TypeOK, Chkpt
  <2>2. i \in Own(x)
    BY <2>1 DEF Own
  <2>3. i < low \/ i < chk.minXct
    BY <1>0, <1>1, <2>1
  <2>4. Freed(x)
    BY <2>1, <2>2, <2>3 DEF LogKeeps, ChkptTable, TableLogged
  <2>. QED
    BY <2>4, RecsDurable
<1>. QED
  BY <1>2, <1>3

-----------------------------------------------------------------------------
(***************************************************************************)
(* The transaction table that a checkpoint logs.                           *)
(***************************************************************************)
\* The checkpoint under way, and the table it has logged, under steps that log nothing that
\* decides or ends a transaction.
LEMMA ChkptTableKept ==
  ASSUME Base, Base', Step, ChkptTable, chk.at # "off",
         chk'.lsn = chk.lsn, chk'.minXct = chk.minXct,
         \/ chk'.at = chk.at
         \/ chk.at = "sync" /\ chk'.at = "scavenge"
         \/ chk.at = "scan" /\ chk'.at = "xcts"
         \/ chk.at = "end" /\ chk'.at = "sync",
         \A x \in Xct : /\ FreeRecs(x)' = FreeRecs(x) /\ EndRecs(x)' = EndRecs(x)
                        /\ \A i \in Own(x)' : i \in Own(x) \/ i = Len(log) + 1,
         Since("xtab")' = Since("xtab"),
         \A i \in Since("xtab") : log'[i] = log[i],
         \A c \in Since("cend")' : c \in Since("cend") \/ c = Len(log) + 1
  PROVE  ChkptTable'
<1>0. /\ chk.lsn \in Nat /\ chk.minXct \in Nat /\ Len(log) \in Nat /\ chk.lsn <= Len(log)
      /\ chk.at \in {"scan", "xcts", "end", "sync", "scavenge"}
  BY DEF Base, TypeOK, LogInv, Chkpt
<1>1. \A x \in Xct : \A j \in FreeRecs(x)' \union EndRecs(x)' : j < chk'.lsn
  BY DEF ChkptTable
<1>2. chk'.at \in {"scan", "xcts"} => Since("xtab")' = {}
  BY DEF ChkptTable
<1>3. ASSUME chk'.at \in {"end", "sync", "scavenge"}
      PROVE  TableLogged'
  <2>1. chk.at \in {"end", "sync", "scavenge"}
    BY <1>3
  <2>2. chk.minXct <= chk.lsn /\ \A x \in Xct : \A i \in Own(x) : i < chk.minXct => Freed(x)
    BY <2>1 DEF ChkptTable, TableLogged
  <2>3. ASSUME NEW x \in Xct, NEW i \in Own(x)', i < chk'.minXct
        PROVE  Freed(x)'
    <3>1. i \in Own(x)
      BY <1>0, <2>2, <2>3
    <3>. QED
      BY <2>2, <2>3, <3>1, RecsDurable
  <2>4. PICK i \in Since("xtab") : /\ Since("xtab") = {i}
                                   /\ \A c \in Since("cend") : i < c
                                   /\ \A x \in Xct : TableSays(x, chk.lsn, i)
    BY <2>1 DEF ChkptTable, TableLogged
  <2>5. i \in Nat /\ i < Len(log) + 1
    BY <1>0 DEF Since
  <2>6. \A c \in Since("cend")' : i < c
    BY <2>4, <2>5
  <2>7. ASSUME NEW x \in Xct
        PROVE  TableSays(x, chk.lsn, i)'
    <3>1. TableSays(x, chk.lsn, i) /\ log'[i] = log[i] /\ chk'.lsn = chk.lsn
      BY <2>4
    <3>2. FreeRecs(x)' = FreeRecs(x) /\ EndRecs(x)' = EndRecs(x)
      OBVIOUS
    <3>3. (\E j \in Own(x)' : j < i) => \E j \in Own(x) : j < i
      <4>1. \A j \in Own(x)' : j < i => j \in Own(x)
        BY <1>0, <2>5
      <4>. QED
        BY <4>1
    <3>. QED
      BY ONLY <3>1, <3>2, <3>3 DEF TableSays
  <2>. QED
    BY ONLY <2>2, <2>3, <2>4, <2>6, <2>7, chk'.lsn = chk.lsn, chk'.minXct = chk.minXct, Since("xtab")' = Since("xtab") DEF TableLogged
<1>. QED
  BY <1>1, <1>2, <1>3 DEF ChkptTable

\* The records since the checkpoint began, under a step that leaves the log alone.
LEMMA SinceStays ==
  ASSUME log' = log, chk'.lsn = chk.lsn
  PROVE  \A k : Since(k)' = Since(k)
BY DEF Since

\* The table itself: chkpt lists the transactions that have logged something, which have not
\* ended, and those that it does not list have decided for good.
LEMMA ChkptTableLogged ==
  ASSUME Base, Base', Step, ChkptInv, ChkptTable, \A x \in Xct : Life(x), InsertAside, ChkptXcts
  PROVE  ChkptTable'
<1>. DEFINE r == [k |-> "xtab", tab |-> [x \in Xct |-> ListedAs(x)]]
            F == {xct[x].first : x \in Listed} \union {chk.lsn}
<1>0. /\ TypeOK /\ LogInv /\ chk.at = "xcts" /\ mode = "up" /\ chk.lsn \in Nat /\ Len(log) \in Nat
      /\ chk \in Chkpt /\ xct \in [Xct -> Entry] /\ chk.lsn \in 1 .. Len(log)
  <2>1. TypeOK /\ LogInv /\ chk.at = "xcts"
    BY DEF Base, ChkptXcts
  <2>2. chk \in Chkpt /\ xct \in [Xct -> Entry] /\ chk.lsn \in Nat /\ Len(log) \in Nat /\ master \in Nat
    BY <2>1 DEF TypeOK, Chkpt
  <2>3. mode = "up" /\ chk.lsn <= Len(log) /\ 1 <= master /\ master <= chk.lsn
    BY <2>1 DEF LogInv
  <2>. QED
    BY <2>1, <2>2, <2>3
<1>n. PICK n : n = Len(log) + 1
  OBVIOUS
<1>1. /\ chk'.at = "end" /\ chk'.minXct = Min(F) /\ chk'.lsn = chk.lsn
      /\ log' = Append(log, r) /\ UNCHANGED <<durable, xct, thread, mode>>
  BY <1>0 DEF ChkptXcts, LogsForCheckpoint, Logs, Chkpt, restartVars
<1>. HIDE DEF F
<1>2. /\ log' \in Seq(LogRec) /\ Len(log') = n /\ log'[n] = r /\ log'[n].k = "xtab"
      /\ log'[n].tab = [x \in Xct |-> ListedAs(x)]
      /\ \A i \in 1 .. Len(log) : log'[i] = log[i]
  BY <1>0, <1>1, <1>n DEF Base, TypeOK
<1>. HIDE DEF r
<1>3. /\ Min(F) \in Nat /\ Min(F) <= chk.lsn /\ \A x \in Listed : Min(F) <= xct[x].first
  <2>1. F \in SUBSET Nat /\ F # {}
    <3>1. \A x \in Listed : xct[x].first \in Nat
      BY <1>0 DEF Listed, Entry
    <3>. QED
      BY <1>0, <3>1 DEF F
  <2>2. Min(F) \in F /\ \A k \in F : Min(F) <= k
    BY <2>1, MinIs
  <2>3. chk.lsn \in F /\ \A x \in Listed : xct[x].first \in F
    BY DEF F
  <2>. QED
    BY <2>1, <2>2, <2>3
<1>4. \A x : SameRecs(x)
  <2>1. Extends
    BY <1>0, <1>2, <1>n DEF Extends
  <2>2. log'[n] \notin Update \union Mark
    BY <1>2 DEF Update, Mark
  <2>. QED
    BY <1>0, <1>2, <1>n, <2>1, <2>2, RecsGrow
<1>5. Since("xtab")' = {n} /\ Since("cend")' = {}
  <2>1. Since("xtab") = {} /\ Since("cend") = {}
    BY <1>0 DEF ChkptTable, ChkptInv
  <2>2. \A k : Since(k)' = IF log'[Len(log) + 1].k = k THEN Since(k) \union {Len(log) + 1} ELSE Since(k)
    BY <1>0, <1>1, <1>2, <1>n, ChkptRecord
  <2>. QED
    BY <1>2, <1>n, <2>1, <2>2
\* those that have not decided for good are listed
<1>6. ASSUME NEW x \in Xct, NEW i \in Own(x), ~Freed(x)
      PROVE  x \in Listed /\ xct[x].first <= i /\ xct[x].st # "none"
  <2>1. ~At(x, "logged")
    BY <1>0, <1>1 DEF InsertAside
  <2>2. xct[x].first # 0 /\ xct[x].first <= i
    BY <1>0, <1>6, <2>1 DEF Life, FirstKnown
  <2>3. xct[x].st \notin {"none", "ended"}
    BY <1>0, <1>6 DEF Life, Unfinished
  <2>. QED
    BY <2>2, <2>3 DEF Listed, NoLsn
<1>7. \A x \in Xct : Freed(x)' = Freed(x)
  BY <1>1, <1>4 DEF Freed, SameRecs
<1>8. ASSUME NEW x \in Xct, NEW i \in Own(x)', i < Min(F)
      PROVE  Freed(x)'
  <2>1. i \in Own(x) /\ i \in Nat
    <3>1. i \in Own(x)
      BY <1>4, <1>8 DEF SameRecs
    <3>. QED
      BY <3>1 DEF Own
  <2>2. ASSUME ~Freed(x) PROVE FALSE
    <3>1. x \in Listed /\ xct[x].first <= i /\ xct[x].first \in Nat
      BY <1>0, <1>6, <2>1, <2>2 DEF Entry
    <3>. QED
      BY <1>3, <1>8, <2>1, <3>1
  <2>. QED
    BY <1>7, <2>2
<1>9. ASSUME NEW x \in Xct
      PROVE  TableSays(x, chk.lsn, n)'
  <2>1. /\ Own(x) \subseteq 1 .. Len(log) /\ FreeRecs(x) \subseteq Own(x) /\ EndRecs(x) \subseteq Own(x)
    BY <1>0, RecsAre
  <2>2. \A j \in FreeRecs(x) \union EndRecs(x) : j < chk.lsn
    BY <1>0 DEF ChkptTable
  <2>3. \A j \in FreeRecs(x) \union EndRecs(x) : ~(chk.lsn < j /\ j < n)
    BY <1>0, <1>n, <2>1, <2>2
  <2>4. Works(x)
    BY DEF Life
  <2>5. FreeRecs(x) # {} => \E j \in FreeRecs(x) : j < n
    BY <1>0, <1>n, <2>1
  <2>6. log'[n].tab[x] = ListedAs(x)
    BY <1>2
  <2>7. ListedAs(x) = "none" /\ (\E j \in Own(x) : j < n) => FreeRecs(x) # {}
    <3>1. ASSUME ListedAs(x) = "none", NEW j \in Own(x)
          PROVE  Freed(x)
      BY <1>6, <3>1 DEF ListedAs
    <3>. QED
      BY <3>1 DEF Freed
  <2>8. ListedAs(x) = "freeing" => FreeRecs(x) # {}
    <3>1. ASSUME ListedAs(x) = "freeing"
          PROVE  xct[x].st = "freeing"
      BY <3>1 DEF ListedAs
    <3>2. xct[x].st = "freeing" => At(x, "sync") \/ At(x, "ending")
      BY <2>4 DEF Works, At
    <3>. QED
      BY <2>4, <3>1, <3>2 DEF Works, Freed
  <2>9. ListedAs(x) \in {"active", "committing"} => FreeRecs(x) = {}
    <3>1. ListedAs(x) \in {"active", "committing"} => xct[x].st \in {"active", "aborting", "committing"}
      BY DEF ListedAs
    <3>. QED
      BY <2>4, <3>1 DEF Works
  <2>10. Own(x)' = Own(x) /\ FreeRecs(x)' = FreeRecs(x) /\ EndRecs(x)' = EndRecs(x)
    BY <1>4 DEF SameRecs
  <2>11. chk'.lsn = chk.lsn
    BY <1>1
  <2>. QED
    BY ONLY <2>3, <2>5, <2>6, <2>7, <2>8, <2>9, <2>10, <2>11 DEF TableSays
<1>10. \A x \in Xct : \A j \in FreeRecs(x)' \union EndRecs(x)' : j < chk'.lsn
  BY <1>0, <1>1, <1>4 DEF ChkptTable, SameRecs
<1>11. TableLogged'
  BY <1>1, <1>3, <1>5, <1>8, <1>9 DEF TableLogged
<1>. QED
  BY <1>1, <1>10, <1>11 DEF ChkptTable

\* Every step keeps ChkptTable.
LEMMA ChkptTableStep ==
  ASSUME Base, Base', Step, ChkptInv, ChkptTable, \A x \in Xct : Life(x), InsertAside
  PROVE  ChkptTable'
<1>0. /\ TypeOK /\ LogInv /\ ChainInv /\ LatchInv /\ chk \in Chkpt /\ log \in Seq(LogRec) /\ Len(log) \in Nat
      /\ \A k : \A i \in Since(k) : i \in 1 .. Len(log)
  <2>1. TypeOK /\ LogInv /\ ChainInv /\ LatchInv
    BY DEF Base
  <2>2. chk \in Chkpt /\ log \in Seq(LogRec) /\ Len(log) \in Nat /\ chk.lsn \in Nat
    BY <2>1 DEF TypeOK, Chkpt
  <2>3. \A k : \A i \in Since(k) : i \in 1 .. Len(log)
    BY <2>2 DEF Since
  <2>. QED
    BY <2>1, <2>2, <2>3
<1>. SUFFICES ASSUME chk'.at # "off"
              PROVE  ChkptTable'
  BY DEF ChkptTable
<1>1. ASSUME log' = log, chk' = chk \/ (chk'.lsn = chk.lsn /\ chk'.minXct = chk.minXct /\ chk.at # "off"
                                        /\ (chk'.at = chk.at \/ (chk.at = "sync" /\ chk'.at = "scavenge")
                                            \/ (chk.at = "scan" /\ chk'.at = "xcts")))
      PROVE  ChkptTable'
  <2>1. \A k : Since(k)' = Since(k)
    BY <1>1, SinceStays
  <2>2. \A x \in Xct : SameRecs(x)
    BY <1>0, <1>1, RecsStay
  <2>3. /\ \A x \in Xct : /\ FreeRecs(x)' = FreeRecs(x) /\ EndRecs(x)' = EndRecs(x)
                          /\ \A i \in Own(x)' : i \in Own(x) \/ i = Len(log) + 1
        /\ \A i \in Since("xtab") : log'[i] = log[i]
        /\ \A c \in Since("cend")' : c \in Since("cend") \/ c = Len(log) + 1
    BY <1>1, <2>1, <2>2 DEF SameRecs
  <2>4. chk.at # "off"
    BY <1>1
  <2>5. /\ chk'.lsn = chk.lsn /\ chk'.minXct = chk.minXct
        /\ \/ chk'.at = chk.at
           \/ chk.at = "sync" /\ chk'.at = "scavenge"
           \/ chk.at = "scan" /\ chk'.at = "xcts"
    BY <1>1
  <2>. QED
    BY <2>1, <2>3, <2>4, <2>5, ChkptTableKept
<1>2. ASSUME NEW x \in Xct, Quiet(x)
      PROVE  ChkptTable'
  BY <1>0, <1>1, <1>2, QuietKeeps DEF logVars
<1>3. ASSUME NEW x \in Xct, Logging(x)
      PROVE  ChkptTable'
  <2>1. /\ chk' = chk /\ log' \in Seq(LogRec) /\ Len(log') = Len(log) + 1
        /\ \A i \in 1 .. Len(log) : log'[i] = log[i]
        /\ log'[Len(log) + 1] \in Update \union Mark
    BY <1>0, <1>3, LoggingIs, LogTypes DEF Logging
  <2>2. chk.at # "off" /\ ~LogFreeing(x) /\ ~LogEnd(x)
    BY <2>1 DEF LogFreeing, LogEnd, NoCheckpoint
  <2>3. \A y \in Xct : /\ FreeRecs(y)' = FreeRecs(y) /\ EndRecs(y)' = EndRecs(y)
                       /\ Own(y)' = Own(y) \/ Own(y)' = Own(y) \union {Len(log) + 1}
    BY <1>3, <2>2, RecsLogging DEF SameRecs
  <2>4. log'[Len(log) + 1].k \notin {"xtab", "cend"}
    BY <2>1 DEF Update, Mark
  <2>5. Since("xtab")' = Since("xtab") /\ Since("cend")' = Since("cend")
    <3>1. chk.lsn \in Nat /\ chk.lsn <= Len(log) /\ chk'.lsn = chk.lsn
      BY <1>0, <2>1, <2>2 DEF Chkpt, LogInv
    <3>2. \A i \in chk.lsn + 1 .. Len(log') : i \in chk.lsn + 1 .. Len(log) \/ i = Len(log) + 1
      BY <1>0, <2>1, <3>1
    <3>3. \A i \in chk.lsn + 1 .. Len(log) : i \in chk.lsn + 1 .. Len(log') /\ log'[i] = log[i]
      BY <1>0, <2>1, <3>1
    <3>. QED
      BY <2>4, <3>1, <3>2, <3>3 DEF Since
  <2>6. \A i \in Since("xtab") : log'[i] = log[i]
    BY <1>0, <2>1
  <2>. QED
    BY <2>1, <2>2, <2>3, <2>5, <2>6, ChkptTableKept
<1>4. ASSUME NEW x \in Xct, CompensateInLog(x)
      PROVE  ChkptTable'
  <2>1. chk' = chk
    BY <1>4 DEF CompensateInLog
  <2>2. /\ Len(log') = Len(log) /\ log[xct[x].last] \in Update /\ log'[xct[x].last] \in Update
        /\ \A i \in 1 .. Len(log) : i # xct[x].last => log'[i] = log[i]
    BY <1>0, <1>4, CompensateTypes, Zenon
  <2>3. \A y \in Xct : SameRecs(y)
    BY <1>0, <1>4, RecsCompensate
  <2>4. ASSUME NEW i \in 1 .. Len(log), log[i].k \in {"xtab", "cend"} \/ log'[i].k \in {"xtab", "cend"}
        PROVE  log'[i] = log[i]
    BY <2>2, <2>4 DEF Update
  <2>5. \A i \in chk.lsn + 1 .. Len(log) : i \in 1 .. Len(log)
    BY <1>0 DEF Chkpt
  <2>6. Since("xtab")' = Since("xtab") /\ Since("cend")' = Since("cend")
        /\ \A i \in Since("xtab") : log'[i] = log[i]
    BY <2>1, <2>2, <2>4, <2>5 DEF Since
  <2>. QED
    BY <2>1, <2>3, <2>6, ChkptTableKept DEF SameRecs
<1>5. CASE \E p \in Page : Copy(p) \/ WriteCopy(p) \/ Drop(p)
  BY <1>1, <1>5 DEF Copy, WriteCopy, Drop, logVars
<1>6. ASSUME NEW p \in Page, ChkptScan(p)
      PROVE  ChkptTable'
  <2>1. log' = log /\ chk'.lsn = chk.lsn /\ chk'.minXct = chk.minXct /\ chk.at # "off" /\ chk'.at = chk.at
    BY <1>0, <1>6 DEF ChkptScan, logVars, Chkpt
  <2>. QED
    BY <1>1, <2>1
\* chkpt_begin
<1>7. CASE ChkptBegin
  <2>1. /\ chk.at = "off" /\ chk'.at = "scan" /\ chk'.lsn = Len(log) + 1 /\ Len(log') = Len(log) + 1
        /\ log'[Len(log) + 1].k = "begin"
    BY <1>0, <1>7, ChkptSteps DEF ChkptBegin, Checkpointing
  <2>2. log' \in Seq(LogRec) /\ \A i \in 1 .. Len(log) : log'[i] = log[i]
    BY <1>0, <1>7, <2>1, ChkptLogs
  <2>3. Extends
    BY <1>0, <2>1, <2>2 DEF Extends
  <2>4. log'[Len(log) + 1] \notin Update \union Mark
    BY <2>1 DEF Update, Mark
  <2>5. \A x : SameRecs(x)
    BY <1>0, <2>1, <2>3, <2>4, RecsGrow
  <2>6. \A x \in Xct : \A j \in FreeRecs(x)' \union EndRecs(x)' : j < Len(log) + 1
    BY <1>0, <2>5, RecsAre DEF SameRecs
  <2>7. Since("xtab")' = {}
    BY <1>0, <2>1 DEF Since
  <2>. QED
    BY <2>1, <2>6, <2>7 DEF ChkptTable
\* the table of dirty pages, and the end
<1>8. CASE ChkptPages \/ ChkptEnd
  <2>1. /\ chk.at # "off" /\ chk'.lsn = chk.lsn /\ chk'.minXct = chk.minXct
        /\ (chk.at = "scan" /\ chk'.at = "xcts") \/ (chk.at = "end" /\ chk'.at = "sync")
    BY <1>0, <1>8 DEF ChkptPages, ChkptEnd, Chkpt
  <2>2. log' = log \/ (Len(log') = Len(log) + 1 /\ log'[Len(log) + 1].k \in {"bftab", "cend"})
    BY <1>0, <1>8, <2>1, ChkptSteps DEF Checkpointing
  <2>3. CASE log' = log
    <3>1. chk.at = "scan"
      <4>1. ASSUME ChkptEnd PROVE Len(log') = Len(log) + 1
        BY <1>0, <4>1, ChkptSteps DEF Checkpointing, ChkptEnd
      <4>. QED
        BY <1>0, <1>8, <2>3, <4>1 DEF ChkptPages
    <3>. QED
      BY <1>1, <2>1, <2>3, <3>1
  <2>4. CASE Len(log') = Len(log) + 1 /\ log'[Len(log) + 1].k \in {"bftab", "cend"}
    <3>1. log' \in Seq(LogRec) /\ \A i \in 1 .. Len(log) : log'[i] = log[i]
      BY <1>0, <1>8, <2>4, ChkptLogs
    <3>2. Extends /\ log'[Len(log) + 1] \notin Update \union Mark
      <4>1. Extends
        BY <1>0, <2>4, <3>1 DEF Extends
      <4>2. log'[Len(log) + 1] \notin Update \union Mark
        BY <2>4 DEF Update, Mark
      <4>. QED
        BY <4>1, <4>2
    <3>3. \A x : SameRecs(x)
      BY <1>0, <2>4, <3>2, RecsGrow
    <3>4. chk.lsn \in 1 .. Len(log)
      <4>1. master \in Nat /\ 1 <= master /\ master <= chk.lsn /\ chk.lsn <= Len(log) /\ chk.lsn \in Nat
        BY <1>0, <2>1 DEF LogInv, TypeOK, Chkpt
      <4>. QED
        BY <1>0, <4>1
    <3>5. \A k : Since(k)' = IF log'[Len(log) + 1].k = k THEN Since(k) \union {Len(log) + 1} ELSE Since(k)
      BY <1>0, <2>1, <2>4, <3>1, <3>4, ChkptRecord
    <3>6. /\ Since("xtab")' = Since("xtab")
          /\ \A c \in Since("cend")' : c \in Since("cend") \/ c = Len(log) + 1
          /\ \A i \in Since("xtab") : log'[i] = log[i]
      BY <1>0, <2>4, <3>1, <3>5
    <3>. QED
      BY <2>1, <3>3, <3>6, ChkptTableKept DEF SameRecs
  <2>. QED
    BY <2>2, <2>3, <2>4
<1>9. CASE ChkptXcts
  BY <1>9, ChkptTableLogged
<1>10. CASE SetMaster
  <2>1. log' = log /\ chk'.lsn = chk.lsn /\ chk'.minXct = chk.minXct /\ chk.at = "sync" /\ chk'.at = "scavenge"
    BY <1>0, <1>10 DEF SetMaster, Chkpt
  <2>. QED
    BY <1>1, <2>1
<1>11. CASE Scavenge \/ Crash
  BY <1>0, <1>11, ScavengeIs, CrashIs
<1>12. CASE FlushBegins \/ FlushEnds \/ RedoEnds \/ ForceEnds \/ Analyse \/ RedoRecord \/ UndoEnds
  BY <1>1, <1>12 DEF FlushBegins, FlushEnds, RedoEnds, ForceEnds, Analyse, RedoRecord, UndoEnds, logVars
<1>. QED
  BY <1>2, <1>3, <1>4, <1>5, <1>6, <1>7, <1>8, <1>9, <1>10, <1>11, <1>12, StepCases DEF Flushing, Checkpointing

-----------------------------------------------------------------------------
(***************************************************************************)
(* How far back restart rolls back.                                        *)
(***************************************************************************)
\* Every step keeps UndoInv,
LEMMA UndoStep ==
  ASSUME UndoInv, [Next /\ CleanerAside /\ InsertAside /\ ListedHeard]_vars
  PROVE  UndoInv'
<1>1. BackInv /\ (\A x \in Xct : Life(x)) /\ LogKeeps /\ ChkptTable /\ MasterTable
  BY DEF UndoInv
<1>2. BackInv'
  BY <1>1, BackStep
<1>3. CASE Next /\ CleanerAside /\ InsertAside /\ ListedHeard
  <2>1. Base /\ Base' /\ ChkptInv /\ Step
    BY <1>1, <1>2, <1>3 DEF BackInv, IInv, Next
  <2>2. \A x \in Xct : Life(x)'
    BY <1>1, <2>1, LifeStep
  <2>3. LogKeeps' /\ ChkptTable' /\ MasterTable'
    BY <1>1, <1>3, <2>1, LogKeepsStep, ChkptTableStep, MasterTableStep
  <2>. QED
    BY <1>2, <2>2, <2>3 DEF UndoInv
<1>4. CASE UNCHANGED vars
  <2>1. UNCHANGED <<log, durable, low, master, xct, thread, chk, mode, hist>>
    BY <1>4 DEF vars, logVars, restartVars
  <2>2. /\ \A x : Own(x)' = Own(x) /\ FreeRecs(x)' = FreeRecs(x) /\ EndRecs(x)' = EndRecs(x) /\ Freed(x)' = Freed(x)
        /\ \A k : Since(k)' = Since(k)
    BY <2>1 DEF Own, FreeRecs, EndRecs, Freed, Since
  <2>3. \A x \in Xct : Life(x)'
    <3>1. SUFFICES ASSUME NEW x \in Xct PROVE Life(x)'
      OBVIOUS
    <3>2. EndsOnce(x)' /\ Works(x)'
      BY <1>1, <2>1, <2>2 DEF Life, EndsOnce, Works, At
    <3>3. Known(x)' /\ Unfinished(x)' /\ FirstKnown(x)'
      BY <1>1, <2>1, <2>2 DEF Life, Known, Unfinished, FirstKnown, At
    <3>. QED
      BY <3>2, <3>3 DEF Life
  <2>4. LogKeeps'
    BY <1>1, <2>1, <2>2 DEF LogKeeps
  <2>5. \A x, l, i : TableSays(x, l, i)' <=> TableSays(x, l, i)
    BY <2>1, <2>2 DEF TableSays
  <2>6. ChkptTable' /\ MasterTable'
    BY <1>1, <2>1, <2>2, <2>5 DEF ChkptTable, TableLogged, MasterTable
  <2>. QED
    BY <1>2, <2>3, <2>4, <2>6 DEF UndoInv
<1>. QED
  BY <1>3, <1>4

\* and it holds to begin with.
LEMMA UndoInit ==
  ASSUME Init
  PROVE  UndoInv
<1>1. BackInv /\ TypeOK
  BY BackInit DEF BackInv, IInv, Base
<1>2. /\ log = FirstLog /\ durable = Len(FirstLog) /\ low = 1 /\ master = 1 /\ chk = NoChkpt /\ mode = "up"
      /\ hist.cut = {} /\ \A x \in Xct : xct[x] = NewXct /\ thread[x] = Idle
  BY DEF Init
<1>3. /\ Len(log) = 3 /\ durable = 3 /\ log[1].k = "begin" /\ log[2].k = "xtab" /\ log[3].k = "cend"
      /\ \A x \in Xct : log[2].tab[x] = "none"
  BY <1>2, FirstLogIs DEF FirstLog
<1>4. \A x : Own(x) = {}
  <2>1. \A i \in 1 .. 3 : i = 1 \/ i = 2 \/ i = 3
    OBVIOUS
  <2>. QED
    BY <1>3, <2>1 DEF Own, Update, Mark
<1>5. \A x : FreeRecs(x) = {} /\ EndRecs(x) = {} /\ ~Freed(x)
  BY <1>4 DEF FreeRecs, EndRecs, Freed
<1>6. ASSUME NEW x \in Xct
      PROVE  Life(x)
  <2>1. xct[x].st = "none" /\ xct[x].first = 0 /\ thread[x].at = "idle"
    BY <1>2, Starts DEF NewXct
  <2>. QED
    BY <1>2, <1>4, <1>5, <2>1 DEF Life, EndsOnce, Works, Working, Known, Unfinished, FirstKnown, At
<1>7. LogKeeps /\ ChkptTable
  BY <1>2, <1>4, Starts DEF LogKeeps, ChkptTable
<1>8. MasterTable
  <2>1. PICK i, c : i = 2 /\ c = 3
    OBVIOUS
  <2>2. i \in master + 1 .. durable /\ c \in i + 1 .. durable
    BY <1>2, <1>3, <2>1
  <2>3. (\A j \in master + 1 .. i : j = 2) /\ (\A j \in master + 1 .. c : j = 2 \/ j = 3)
    BY <1>2, <2>1
  <2>4. /\ log[i].k = "xtab" /\ log[c].k = "cend"
        /\ \A j \in master + 1 .. i : log[j].k # "cend"
        /\ \A j \in master + 1 .. c : log[j].k = "xtab" => j = i
    BY <1>3, <2>1, <2>3
  <2>5. \A x \in Xct : TableSays(x, master, i) /\ log[i].tab[x] # "active"
    BY <1>3, <1>4, <1>5, <2>1 DEF TableSays
  <2>. QED
    BY <2>2, <2>4, <2>5 DEF MasterTable
<1>. QED
  BY <1>1, <1>6, <1>7, <1>8 DEF UndoInv

\* Then what a restart would take back is in the log.
LEMMA UndoFinds ==
  ASSUME UndoInv
  PROVE  UndoReachesBack
<1>1. Base /\ StoredInv /\ MasterTable /\ LogKeeps /\ \A x \in Xct : Life(x)
  BY DEF UndoInv, BackInv, IInv
<1>2. PICK L : L = SubSeq(log, 1, durable)
  OBVIOUS
<1>3. /\ L \in Seq(LogRec) /\ master \in Nat /\ master <= Len(L) /\ Linked(L)
      /\ \A x \in Xct : OwnIn(L, x) = {i \in Own(x) : i <= durable}
  BY <1>1, <1>2, DurableLog
<1>4. outlook.taken = UNION {UndoChain(L, XtOf(L, master)[x].undo) :
                               x \in {y \in Xct : XtOf(L, master)[y].st = "active"}}
  <2>1. outlook = Outlook(L, master, disk)
    BY <1>1, <1>2 DEF StoredInv
  <2>. QED
    BY <2>1 DEF Outlook, XtOf
<1>5. ASSUME NEW x \in Xct, XtOf(L, master)[x].st = "active", NEW n \in UndoChain(L, XtOf(L, master)[x].undo)
      PROVE  n >= low
  <2>1. XtOf(L, master)[x] \in XctEntry
    BY <1>3, XtIs
  <2>2. PICK u \in Nat : u = XtOf(L, master)[x].undo
    BY <2>1 DEF XctEntry
  <2>3. u # 0 => u \in OwnIn(L, x)
    BY <1>3, <2>2, XtOwn
  <2>4. n \in OwnIn(L, x)
    BY <1>3, <1>5, <2>2, <2>3, UndoneOwn
  <2>5. n \in Own(x) /\ n \in Nat
    BY <1>3, <2>4 DEF Own
  <2>6. ~Freed(x)
    <3>1. EndsOnce(x)
      BY <1>1 DEF Life
    <3>2. Freed(x) => XtOf(SubSeq(log, 1, durable), master)[x].st = "none"
      BY <1>1, <3>1, RestartKnows
    <3>. QED
      BY <1>2, <1>5, <3>2
  <2>7. low \in Nat
    BY <1>1 DEF Base, TypeOK
  <2>. QED
    BY <1>1, <2>5, <2>6, <2>7 DEF LogKeeps
<1>. QED
  BY <1>4, <1>5 DEF UndoReachesBack

\* Scavenge leaves every record that a restart needs, those that redo starts from and those that
\* the rollback of a loser reads: min_xct_lsn is computed while transactions log, mark their
\* pages, commit and roll back, and what the checkpoint's table does not list, or the scan of
\* the log disposes of, has decided for good.
THEOREM RestartHasItsLog == SparedSpec => []LogReachesBack
<1>1. Init => UndoInv
  BY UndoInit
<1>2. UndoInv /\ [Next /\ CleanerAside /\ InsertAside /\ ListedHeard]_vars => UndoInv'
  BY UndoStep
<1>3. UndoInv => LogReachesBack
  BY RedoFinds, UndoFinds DEF UndoInv, LogReachesBack
<1>. QED
  BY <1>1, <1>2, <1>3, PTL DEF SparedSpec
=============================================================================
