------------------------------ MODULE ZstdVfs ------------------------------
(***************************************************************************)
(* The compressing SQLite VFS of src/src/common/sqlite-zstd-vfs.c.         *)
(*                                                                         *)
(* The scrollback database (the "inner" database) keeps its pages as rows  *)
(* of a second SQLite database (the "outer" one).  The inner pager runs    *)
(* with journal_mode=MEMORY, so after a crash nothing of its journal is    *)
(* left: its atomicity rests entirely on the outer transaction the VFS     *)
(* opens and commits around the pager's calls.                             *)
(*                                                                         *)
(* A page's content is the number of the inner transaction that wrote it;  *)
(* page 1 also holds the inner header, whose database size is size[t].     *)
(***************************************************************************)
EXTENDS Integers

CONSTANTS
    MaxPgno,        \* bound: largest page number of the inner database
    MaxTxn,         \* bound: inner transactions started
    DictPages,      \* DICT_PAGE_THRESHOLD: pages before a dictionary is trained
    FailPoints      \* outer statements that may fail, a subset of AllFailPoints

AllFailPoints == {"begin", "write", "delete", "commit", "read", "meta"}

ASSUME BoundsAssumption ==
    /\ MaxPgno \in Nat \ {0}
    /\ MaxTxn \in Nat \ {0}
    /\ DictPages \in Nat
ASSUME FailAssumption == FailPoints \subseteq AllFailPoints

Pgno == 1..MaxPgno
Txn  == 0..MaxTxn      \* 0: never written

(***************************************************************************)
(* is_compressed of a row of the pages table.  "none" stands for no row.   *)
(***************************************************************************)
Method == {"none", "raw", "zstd", "dict"}
Cell   == [t : Txn, m : Method]
NoCell == [t |-> 0, m |-> "none"]

(***************************************************************************)
(* A state of the outer database: the pages table and the rows page_size   *)
(* (0: no row), page_count (0: no row) and zstd_dict of the meta table.    *)
(***************************************************************************)
Outer == [pages : [Pgno -> Cell], ps : 0..1, pc : 0..MaxPgno, dict : BOOLEAN]
OuterState(pages, ps, count, dict) ==
    [pages |-> pages, ps |-> ps, pc |-> count, dict |-> dict]
WithPages(w, pages) == OuterState(pages, w.ps, w.pc, w.dict)
WithPageSize(w)     == OuterState(w.pages, 1, w.pc, w.dict)
WithPageCount(w, n) == OuterState(w.pages, w.ps, n, w.dict)

EmptyOuter ==
    [pages |-> [p \in Pgno |-> NoCell], ps |-> 0, pc |-> 0, dict |-> FALSE]

VARIABLES
    db,         \* outer connection: [disk, work, auto] - committed state, the
                \* connection's own view, sqlite3_get_autocommit()
    older,      \* committed states still in the un-synced part of the WAL
    inTxn,      \* f->in_transaction
    pageSize,   \* f->page_size (0 unknown, 1 known)
    pageCount,  \* f->page_count
    saved,      \* f->meta_page_count_saved
    lock,       \* f->lock_level
    cdict,      \* f->cdict and f->ddict loaded
    pc,         \* where the inner pager is
    todo,       \* pages the pager still has to write
    wset,       \* pages the inner transaction changes
    cur,        \* number of the last inner transaction started
    orig,       \* transaction whose image the in-memory journal restores
    size,       \* history: size[t], the database size transaction t puts in page 1
    img,        \* history: img[t][p], what page p holds once t has committed
    acked,      \* history: last transaction whose commit the pager was told of
    torn        \* history: a transaction whose undo was given up half way has
                \* been committed

fileVars  == <<inTxn, pageSize, pageCount, saved, lock, cdict>>
pagerVars == <<pc, todo, wset, cur, orig>>
histVars  == <<size, img, acked, torn>>
vars == <<db, older, fileVars, pagerVars, histVars>>

PagerStates ==
    {"closed", "refused", "idle", "write", "synced", "undo", "fin", "half"}

TypeOK ==
    /\ db \in [disk : Outer, work : Outer, auto : BOOLEAN]
    /\ older \subseteq Outer
    /\ inTxn \in BOOLEAN
    /\ pageSize \in 0..1
    /\ pageCount \in 0..MaxPgno
    /\ saved \in 0..MaxPgno
    /\ lock \in {0, 2}
    /\ cdict \in BOOLEAN
    /\ pc \in PagerStates
    /\ todo \subseteq Pgno
    /\ wset \subseteq Pgno
    /\ cur \in Txn
    /\ orig \in Txn
    /\ size \in [Txn -> 0..MaxPgno]
    /\ img \in [Txn -> [Pgno -> Txn]]
    /\ acked \in Txn
    /\ torn \in BOOLEAN

Init ==
    /\ db = [disk |-> EmptyOuter, work |-> EmptyOuter, auto |-> TRUE]
    /\ older = {}
    /\ inTxn = FALSE /\ pageSize = 0 /\ pageCount = 0 /\ saved = 0
    /\ lock = 0 /\ cdict = FALSE
    /\ pc = "closed" /\ todo = {} /\ wset = {} /\ cur = 0 /\ orig = 0
    /\ size = [t \in Txn |-> 0]
    /\ img = [t \in Txn |-> [p \in Pgno |-> 0]]
    /\ acked = 0 /\ torn = FALSE

-----------------------------------------------------------------------------
(***************************************************************************)
(* The outer connection (SQLite, external).  A statement outside a         *)
(* transaction commits by itself; a failing one may roll the transaction   *)
(* back, which the VFS can only see from sqlite3_get_autocommit().         *)
(***************************************************************************)
ConnState(disk, work, auto) == [disk |-> disk, work |-> work, auto |-> auto]

Apply(s, w)   == ConnState(IF s.auto THEN w ELSE s.disk, w, s.auto)
RolledBack(s) == ConnState(s.disk, s.disk, TRUE)
InTxn(s)      == ConnState(s.disk, s.work, FALSE)
Committed(w)  == ConnState(w, w, TRUE)

\* A statement that failed has rolled the transaction back or only itself.
AfterError(s) == {RolledBack(s), s}

MayFail(point, outcomes) == IF point \in FailPoints THEN outcomes ELSE {}

\* A change of the committed state leaves the previous one in the WAL.
NoteWal == older' = IF db'.disk = db.disk THEN older ELSE older \cup {db.disk}

HeaderTxn(d) == d.pages[1].t
Present(d, p) == d.pages[p].m # "none"
\* SELECT MAX(pgno) FROM pages
MaxPg(d) == CHOOSE n \in 0..MaxPgno :
                /\ n # 0 => Present(d, n)
                /\ \A p \in Pgno : p > n => ~Present(d, p)

(***************************************************************************)
(* begin_outer: the connection once a transaction is open, and whether     *)
(* BEGIN IMMEDIATE may fail instead (which leaves the connection alone and *)
(* in_transaction clear).  A flag SQLite's own rollback made stale counts  *)
(* as no transaction.                                                      *)
(***************************************************************************)
BeginOuter_TrustsFlag(s, flag) == IF flag THEN s ELSE InTxn(s)

BeginOuter(s, flag) == IF flag /\ ~s.auto THEN s ELSE InTxn(s)

BeginMayFail(s, flag) == ~(flag /\ ~s.auto) /\ "begin" \in FailPoints

(***************************************************************************)
(* commit_outer: the outcomes [ok, s, saved]; in_transaction is always     *)
(* cleared.  COMMIT failing is followed by an explicit ROLLBACK; a failing *)
(* save of page_count rolls back by itself and makes COMMIT fail.          *)
(***************************************************************************)
CommitOuter_IgnoresFailure(s, flag) ==
    IF ~flag THEN {[ok |-> TRUE, s |-> s, saved |-> saved]}
    ELSE {[ok |-> TRUE, s |-> r, saved |-> pageCount] :
              r \in {Committed(s.work), RolledBack(s)}}

CommitOuter(s, flag) ==
    IF ~flag THEN {[ok |-> TRUE, s |-> s, saved |-> saved]}
    ELSE IF s.auto THEN {[ok |-> FALSE, s |-> s, saved |-> saved]}
    ELSE LET w == IF pageCount # saved THEN WithPageCount(s.work, pageCount)
                                       ELSE s.work
         IN {[ok |-> TRUE, s |-> Committed(w), saved |-> pageCount]}
            \cup MayFail(IF pageCount # saved /\ "commit" \notin FailPoints
                         THEN "meta" ELSE "commit",
                   {[ok |-> FALSE, s |-> RolledBack(s), saved |-> pageCount]})

\* compress_page and the page-1 exception of zvfs_write: how page p may be stored.
StoredAs_CompressesHeader(p) == {"raw", IF cdict THEN "dict" ELSE "zstd"}

StoredAs(p) == IF p = 1 THEN {"raw"}
               ELSE {"raw", IF cdict THEN "dict" ELSE "zstd"}

\* The first write ever reveals the page size; outer_db_save_meta_int drops
\* the result of its statement.
SavePageSize(s) ==
    IF pageSize # 0 THEN {s}
    ELSE {Apply(s, WithPageSize(s.work))} \cup MayFail("meta", {RolledBack(s)})

\* s once page p has the content t, stored as m.
PageStored(s, p, t, m) ==
    Apply(s, WithPages(s.work, [s.work.pages EXCEPT ![p] = [t |-> t, m |-> m]]))

\* The INSERT OR REPLACE of zvfs_write: [ok, s].
StorePage_DropsResult(s, p, t, m) ==
    {[ok |-> TRUE, s |-> r] : r \in {PageStored(s, p, t, m), RolledBack(s)}}

StorePage(s, p, t, m) ==
    {[ok |-> TRUE, s |-> PageStored(s, p, t, m)]}
    \cup MayFail("write", {[ok |-> FALSE, s |-> r] : r \in AfterError(s)})

(***************************************************************************)
(* zvfs_write of page p with content t.  ok is its return code.            *)
(***************************************************************************)
ZvfsWrite(p, t, ok) ==
    /\ \/ /\ BeginMayFail(db, inTxn) /\ ~ok
          /\ inTxn' = FALSE
          /\ UNCHANGED <<db, pageSize, pageCount>>
       \/ /\ inTxn' = TRUE
          /\ \E s \in SavePageSize(BeginOuter(db, inTxn)), m \in StoredAs(p) :
               \E r \in StorePage(s, p, t, m) :
                  /\ ok = r.ok
                  /\ db' = r.s
                  /\ pageSize' = 1
                  /\ pageCount' = IF ok /\ p > pageCount THEN p ELSE pageCount
    /\ NoteWal
    /\ UNCHANGED <<saved, lock, cdict>>

\* DELETE FROM pages WHERE pgno > n
DeleteAbove(w, n) ==
    WithPages(w, [p \in Pgno |-> IF p > n THEN NoCell ELSE w.pages[p]])

\* zvfs_truncate to n pages.
ZvfsTruncate(n, ok) ==
    /\ \/ /\ pageSize = 0 /\ ok
          /\ UNCHANGED <<db, inTxn, pageCount>>
       \/ /\ pageSize # 0 /\ BeginMayFail(db, inTxn) /\ ~ok
          /\ inTxn' = FALSE
          /\ UNCHANGED <<db, pageCount>>
       \/ /\ pageSize # 0 /\ ok
          /\ inTxn' = TRUE
          /\ LET s == BeginOuter(db, inTxn) IN db' = Apply(s, DeleteAbove(s.work, n))
          /\ pageCount' = n
       \/ /\ pageSize # 0 /\ ~ok /\ "delete" \in FailPoints
          /\ inTxn' = TRUE
          /\ db' \in AfterError(BeginOuter(db, inTxn))
          /\ UNCHANGED pageCount
    /\ NoteWal
    /\ UNCHANGED <<pageSize, saved, lock, cdict>>

\* zvfs_sync: commit, then reopen the envelope while the lock is held.
ZvfsSync(ok) ==
    /\ \E c \in CommitOuter(db, inTxn) :
          /\ ok = c.ok
          /\ saved' = c.saved
          /\ \/ /\ ok /\ lock >= 2
                /\ inTxn' = TRUE /\ db' = BeginOuter(c.s, FALSE)
             \/ /\ ok => lock < 2 \/ BeginMayFail(c.s, FALSE)
                /\ inTxn' = FALSE /\ db' = c.s
    /\ NoteWal
    /\ UNCHANGED <<pageSize, pageCount, lock, cdict>>

\* zvfs_lock to RESERVED.
ZvfsLock(ok) ==
    /\ \/ /\ ok
          /\ inTxn' = TRUE /\ db' = BeginOuter(db, inTxn) /\ lock' = 2
       \/ /\ ~ok /\ BeginMayFail(db, inTxn)
          /\ inTxn' = FALSE /\ UNCHANGED <<db, lock>>
    /\ UNCHANGED <<older, pageSize, pageCount, saved, cdict>>

\* zvfs_unlock below RESERVED; the result of commit_outer is dropped.
ZvfsUnlock ==
    /\ lock' = 0
    /\ IF lock >= 2
       THEN \E c \in CommitOuter(db, inTxn) :
               db' = c.s /\ inTxn' = FALSE /\ saved' = c.saved
       ELSE UNCHANGED <<db, inTxn, saved>>
    /\ NoteWal
    /\ UNCHANGED <<pageSize, pageCount, cdict>>

(***************************************************************************)
(* zvfs_read of page p: the content returned, or why there is none.        *)
(***************************************************************************)
ZvfsRead(p) ==
    LET c == db.work.pages[p]
    IN IF pageSize = 0 \/ p > pageCount \/ c.m = "none"
       THEN [rc |-> "short_read", t |-> 0]
       ELSE IF c.m = "dict" /\ ~cdict THEN [rc |-> "ioerr_read", t |-> 0]
       ELSE [rc |-> "ok", t |-> c.t]

-----------------------------------------------------------------------------
(***************************************************************************)
(* outer_db_init: derive the geometry from the pages table; refuse a       *)
(* populated database whose page size cannot be told.  A refused file may  *)
(* be opened again, by the next start of the client.                       *)
(***************************************************************************)
PageSizeKnown(d) == d.ps # 0 \/ d.pages[1].m = "raw"

DerivedPageCount_TrustsMeta(d) == IF d.pc > 0 THEN d.pc ELSE MaxPg(d)

DerivedPageCount_OffByOne(d) == MaxPg(d) + 1

DerivedPageCount(d) == MaxPg(d)

Open ==
    /\ pc \in {"closed", "refused"}
    /\ pageCount' = DerivedPageCount(db.disk)
    /\ pageSize' = IF PageSizeKnown(db.disk) THEN 1 ELSE 0
    /\ pc' = IF pageSize' = 0 /\ MaxPg(db.disk) >= 1 THEN "refused" ELSE "idle"
    /\ saved' = db.disk.pc
    /\ cdict' = db.disk.dict
    /\ inTxn' = FALSE /\ lock' = 0
    /\ UNCHANGED <<db, older, todo, wset, cur, orig, histVars>>

(***************************************************************************)
(* The inner pager takes RESERVED and settles the transaction it will      *)
(* write: pages W of a database of n pages.                                *)
(***************************************************************************)
PagerBegin(n, W) ==
    LET base == HeaderTxn(db.work) IN
    /\ pc = "idle" /\ cur < MaxTxn
    /\ W \subseteq 1..n /\ 1 \in W
    /\ \A p \in 1..n : p > size[base] => p \in W
    /\ \/ /\ ZvfsLock(TRUE)
          /\ pc' = "write" /\ todo' = W /\ wset' = W
          /\ cur' = cur + 1 /\ orig' = base
          /\ size' = [size EXCEPT ![cur + 1] = n]
          /\ img' = [img EXCEPT ![cur + 1] = [p \in Pgno |->
                        IF p \in W THEN cur + 1
                        ELSE IF p <= n THEN img[base][p] ELSE 0]]
          /\ UNCHANGED <<acked, torn>>
       \/ /\ ZvfsLock(FALSE)
          /\ UNCHANGED <<pagerVars, histVars>>

\* From here on the pager restores the images its memory journal holds.
StartUndo == pc' = "undo" /\ todo' = {p \in wset : p <= size[orig]}

PagerWrite(p) ==
    /\ pc = "write" /\ p \in todo
    /\ \/ /\ ZvfsWrite(p, cur, TRUE)
          /\ todo' = todo \ {p} /\ UNCHANGED pc
       \/ /\ ZvfsWrite(p, cur, FALSE)
          /\ StartUndo
    /\ UNCHANGED <<wset, cur, orig, histVars>>

\* A page read inside the transaction fails in the outer database, which
\* rolls the outer transaction back; the pager gets SQLITE_IOERR_READ.
PagerReadError ==
    /\ pc = "write" /\ "read" \in FailPoints
    /\ db' = RolledBack(db)
    /\ StartUndo
    /\ UNCHANGED <<older, fileVars, wset, cur, orig, histVars>>

\* ROLLBACK by the application.
PagerRollback ==
    /\ pc = "write"
    /\ StartUndo
    /\ UNCHANGED <<db, older, fileVars, wset, cur, orig, histVars>>

PagerCommit ==
    /\ pc = "write" /\ todo = {}
    /\ \/ /\ ZvfsSync(TRUE)
          /\ pc' = "synced" /\ acked' = cur
          /\ UNCHANGED <<todo, size, img, torn>>
       \/ /\ ZvfsSync(FALSE)
          /\ StartUndo
          /\ UNCHANGED histVars
    /\ UNCHANGED <<wset, cur, orig>>

\* After the commit the pager drops the pages past the new size.
PagerShrink ==
    /\ pc = "synced" /\ pageCount > size[cur]
    /\ \E ok \in BOOLEAN : ZvfsTruncate(size[cur], ok)
    /\ pc' = "fin"
    /\ UNCHANGED <<todo, wset, cur, orig, histVars>>

(***************************************************************************)
(* A failed undo step is either tried again from the start or given up.    *)
(* Given up before the original is back (its pages, or for an empty        *)
(* original the truncation), with the outer transaction still open, it     *)
(* leaves the transaction half undone.                                     *)
(***************************************************************************)
OriginalBack == todo = {} /\ orig # 0

UndoFailed == \/ StartUndo
              \/ /\ pc' = IF OriginalBack \/ db'.auto THEN "fin" ELSE "half"
                 /\ UNCHANGED todo

PagerUndoWrite(p) ==
    /\ pc = "undo" /\ p \in todo
    /\ \/ /\ ZvfsWrite(p, img[orig][p], TRUE)
          /\ todo' = todo \ {p} /\ UNCHANGED pc
       \/ /\ ZvfsWrite(p, img[orig][p], FALSE)
          /\ UndoFailed
    /\ UNCHANGED <<wset, cur, orig, histVars>>

PagerUndoTruncate ==
    /\ pc = "undo" /\ todo = {} /\ pageCount > size[orig]
    /\ \/ /\ ZvfsTruncate(size[orig], TRUE)
          /\ UNCHANGED <<pc, todo>>
       \/ /\ ZvfsTruncate(size[orig], FALSE)
          /\ UndoFailed
    /\ UNCHANGED <<wset, cur, orig, histVars>>

PagerUndoSync ==
    /\ pc = "undo" /\ todo = {} /\ pageCount <= size[orig]
    /\ \E ok \in BOOLEAN : ZvfsSync(ok)
    /\ pc' = "fin"
    /\ UNCHANGED <<todo, wset, cur, orig, histVars>>

\* zvfs_unlock commits whatever the outer transaction holds.
PagerUnlock ==
    /\ pc \in {"fin", "half"} \/ (pc = "synced" /\ pageCount <= size[cur])
    /\ ZvfsUnlock
    /\ pc' = "idle" /\ todo' = {}
    /\ torn' = (torn \/ (pc = "half" /\ db'.disk # db.disk))
    /\ UNCHANGED <<wset, cur, orig, size, img, acked>>

-----------------------------------------------------------------------------
\* Nothing of the file and of the pager survives but the history.
Dead ==
    /\ inTxn' = FALSE /\ pageSize' = 0 /\ pageCount' = 0 /\ saved' = 0
    /\ lock' = 0 /\ cdict' = FALSE
    /\ pc' = "closed" /\ todo' = {}
    /\ UNCHANGED <<wset, cur, orig, size, img, torn>>

(***************************************************************************)
(* zvfs_close between transactions: commit_outer has nothing to do, a      *)
(* dictionary may be trained, the geometry is saved, and closing the       *)
(* outer database checkpoints its WAL.                                     *)
(***************************************************************************)
TrainDictionary(d) ==
    IF cdict \/ pageCount < DictPages THEN {d}
    ELSE {d, OuterState(d.pages, d.ps, d.pc, TRUE)}

Close ==
    /\ pc = "idle"
    /\ \E c \in CommitOuter(db, inTxn) :
         \E d \in TrainDictionary(c.s.work) :
            db' = Apply(c.s, OuterState(d.pages,
                                        IF pageSize > 0 THEN 1 ELSE d.ps,
                                        IF pageCount > 0 THEN pageCount ELSE d.pc,
                                        d.dict))
    /\ older' = {}
    /\ Dead
    /\ UNCHANGED acked

\* The process is killed: the operating system still has the whole WAL.
Crash ==
    /\ pc \notin {"closed", "refused"}
    /\ db' = RolledBack(db)
    /\ Dead
    /\ UNCHANGED <<older, acked>>

\* The machine loses power: with synchronous=NORMAL the un-synced tail of the
\* WAL may be gone, so an earlier committed state comes back.
PowerLoss ==
    /\ pc \notin {"closed", "refused"}
    /\ \E d \in older :
          /\ db' = Committed(d)
          /\ acked' = HeaderTxn(d)
    /\ older' = {}
    /\ Dead

\* SQLite's automatic checkpoint syncs the WAL.
Checkpoint ==
    /\ pc \notin {"closed", "refused"} /\ older # {} /\ db.auto
    /\ older' = {}
    /\ UNCHANGED <<db, fileVars, pagerVars, histVars>>

Next ==
    \/ Open
    \/ \E n \in Pgno, W \in SUBSET Pgno : PagerBegin(n, W)
    \/ \E p \in Pgno : PagerWrite(p) \/ PagerUndoWrite(p)
    \/ PagerReadError \/ PagerRollback \/ PagerCommit \/ PagerShrink
    \/ PagerUndoTruncate \/ PagerUndoSync \/ PagerUnlock
    \/ Close \/ Crash \/ PowerLoss \/ Checkpoint

Spec == Init /\ [][Next]_vars

-----------------------------------------------------------------------------
(***************************************************************************)
(* Properties.                                                             *)
(***************************************************************************)

\* Every state the outer database may be found in after a crash or a power loss.
Durable == {db.disk} \cup older

\* d holds exactly the image of the transaction its header page belongs to.
Whole(d) ==
    /\ \A p \in Pgno : p <= size[HeaderTxn(d)] => d.pages[p].t = img[HeaderTxn(d)][p]
    /\ ~Present(d, 1) => \A p \in Pgno : ~Present(d, p)

(***************************************************************************)
(* No commit of the outer database exposes part of an inner transaction:   *)
(* whatever failed, was rolled back or was retried before, each committed  *)
(* state is the complete image of one inner transaction (begin_outer's     *)
(* re-check of autocommit, commit_outer's placement).  The one exception   *)
(* is torn: an undo write failed without ending the outer transaction, the *)
(* pager gave up, and zvfs_unlock committed what there was.                *)
(***************************************************************************)
CommitsWhole == \A d \in Durable : Whole(d)

NoTornCommit == torn \/ CommitsWhole

(***************************************************************************)
(* Every committed state can be opened again: outer_db_init can tell its   *)
(* page size (also when the page_size row was lost to a rollback), no      *)
(* page its header counts is missing, and a page compressed with the       *)
(* dictionary never outlives the dictionary.  Torn commits are excepted.   *)
(***************************************************************************)
Openable(d) ==
    /\ MaxPg(d) >= 1 => PageSizeKnown(d)
    /\ MaxPg(d) >= size[HeaderTxn(d)]
    /\ \A p \in Pgno : d.pages[p].m = "dict" => d.dict

Reopenable == torn \/ (pc # "refused" /\ \A d \in Durable : Openable(d))

(***************************************************************************)
(* Between transactions the inner database reads back, page by page, the   *)
(* last transaction whose commit it was told of - in the same session,     *)
(* after failed and undone transactions, after a kill and a reopen, with   *)
(* whatever stale page_count row is left (zvfs_read's end of file comes    *)
(* from f->page_count).  Torn commits are excepted.                        *)
(***************************************************************************)
ReadsLastCommit ==
    pc = "idle" /\ ~torn =>
        \A p \in Pgno : p <= size[acked] =>
            ZvfsRead(p) = [rc |-> "ok", t |-> img[acked][p]]

(***************************************************************************)
(* The VFS implements an atomic store as long as no commit is torn: seen   *)
(* through Image, each step of the pager and of the outer database begins, *)
(* commits or drops one inner transaction, or changes nothing.             *)
(***************************************************************************)
Image(d) == [p \in Pgno |-> IF p <= size[HeaderTxn(d)] THEN d.pages[p].t ELSE 0]

Store == INSTANCE AtomicStore WITH
            Images <- [Pgno -> Txn],
            Blank  <- [p \in Pgno |-> 0],
            store  <- Image(db.disk),
            txn    <- IF pc = "write" THEN {img[cur]} ELSE {},
            past   <- {Image(d) : d \in older}

ImplementsAtomicStore == Store!Init /\ [][Store!Next \/ torn']_(Store!view)

(***************************************************************************)
(* Writing a page never changes the committed state: it lands in an open   *)
(* outer transaction (comment on begin_outer; "no page write ever lands    *)
(* outside an outer transaction").                                         *)
(***************************************************************************)
WritesStayInTransaction ==
    [][(\E p \in Pgno : PagerWrite(p) \/ PagerUndoWrite(p)) => db'.disk = db.disk]_vars

(***************************************************************************)
(* The page_count row is fresh as of every commit, as the comment in       *)
(* commit_outer says.                                                      *)
(***************************************************************************)
MetaFreshAtCommit == pc = "synced" => db.disk.pc = MaxPg(db.disk)

=============================================================================
