--------------------------- MODULE ZstdVfs_proofs ---------------------------
(***************************************************************************)
(* Proofs about the compressing VFS, for any number of pages, any number   *)
(* of inner transactions and any sequence of failures of the outer         *)
(* database's statements.                                                  *)
(***************************************************************************)
EXTENDS ZstdVfs, TLAPS, WellFoundedInduction

Conn == [disk : Outer, work : Outer, auto : BOOLEAN]

(***************************************************************************)
(* MAX(pgno) is well defined: a set of naturals has a smallest upper       *)
(* bound.                                                                  *)
(***************************************************************************)
LEMMA MaxPgProps ==
    ASSUME NEW d \in Outer
    PROVE  /\ MaxPg(d) \in 0..MaxPgno
           /\ MaxPg(d) # 0 => Present(d, MaxPg(d))
           /\ \A p \in Pgno : p > MaxPg(d) => ~Present(d, p)
<1> DEFINE Above == {n \in Nat : n \in 0..MaxPgno
                         /\ \A p \in Pgno : p > n => ~Present(d, p)}
           R == OpToRel(<, Nat)
<1>1. Above \subseteq Nat /\ MaxPgno \in Above
  BY BoundsAssumption DEF Pgno
<1>2. PICK m \in Above : \A y \in Above : <<y, m>> \notin R
  <2>1. IsWellFoundedOn(R, Nat)
    BY NatLessThanWellFounded
  <2> HIDE DEF Above, R
  <2>2. QED
    BY <1>1, <2>1, WFMin
<1>3. \A y \in Above : ~(y < m)
  BY <1>2 DEF OpToRel
<1>4. m # 0 => Present(d, m)
  <2> SUFFICES ASSUME m # 0, ~Present(d, m) PROVE FALSE
    OBVIOUS
  <2>1. m - 1 \in Above
    BY BoundsAssumption DEF Pgno
  <2>2. QED
    BY <1>3, <2>1
<1>5. \E n \in 0..MaxPgno : /\ n # 0 => Present(d, n)
                            /\ \A p \in Pgno : p > n => ~Present(d, p)
  BY <1>4
<1>6. QED
  BY <1>5 DEF MaxPg

(***************************************************************************)
(* Types of the operations on the outer database and its connection.       *)
(***************************************************************************)
LEMMA OuterStateType ==
    ASSUME NEW g \in [Pgno -> Cell], NEW ps \in 0..1, NEW n \in 0..MaxPgno,
           NEW dict \in BOOLEAN
    PROVE  OuterState(g, ps, n, dict) \in Outer
BY DEF OuterState, Outer

LEMMA OuterFields ==
    ASSUME NEW w \in Outer
    PROVE  /\ w.pages \in [Pgno -> Cell] /\ w.ps \in 0..1
           /\ w.pc \in 0..MaxPgno /\ w.dict \in BOOLEAN
BY DEF Outer

LEMMA ConnType ==
    ASSUME NEW a \in Outer, NEW w \in Outer, NEW auto \in BOOLEAN
    PROVE  ConnState(a, w, auto) \in Conn
BY DEF ConnState, Conn

LEMMA ConnFields ==
    ASSUME NEW s \in Conn
    PROVE  s.disk \in Outer /\ s.work \in Outer /\ s.auto \in BOOLEAN
BY DEF Conn

LEMMA ApplyType ==
    ASSUME NEW s \in Conn, NEW w \in Outer
    PROVE  Apply(s, w) \in Conn
BY ConnType, ConnFields DEF Apply

LEMMA RolledBackType ==
    ASSUME NEW s \in Conn
    PROVE  RolledBack(s) \in Conn
BY ConnType, ConnFields DEF RolledBack

LEMMA AfterErrorType ==
    ASSUME NEW s \in Conn, NEW r \in AfterError(s)
    PROVE  r \in Conn
BY RolledBackType DEF AfterError

LEMMA BeginOuterType ==
    ASSUME NEW s \in Conn, NEW flag \in BOOLEAN
    PROVE  BeginOuter(s, flag) \in Conn
BY ConnType, ConnFields DEF BeginOuter, InTxn

LEMMA CommitOuterType ==
    ASSUME TypeOK, NEW s \in Conn, NEW flag \in BOOLEAN, NEW c \in CommitOuter(s, flag)
    PROVE  c.s \in Conn /\ c.saved \in 0..MaxPgno
<1>1. s.work \in Outer /\ WithPageCount(s.work, pageCount) \in Outer
  BY ConnFields, OuterFields, OuterStateType DEF WithPageCount, TypeOK
<1>2. \A w \in Outer : Committed(w) \in Conn
  BY ConnType DEF Committed
<1>3. \E w \in Outer :
         \/ c = [ok |-> TRUE, s |-> s, saved |-> saved]
         \/ c = [ok |-> FALSE, s |-> s, saved |-> saved]
         \/ c = [ok |-> TRUE, s |-> Committed(w), saved |-> pageCount]
         \/ c = [ok |-> FALSE, s |-> RolledBack(s), saved |-> pageCount]
  BY <1>1, Zenon DEF CommitOuter, MayFail
<1>4. QED
  BY <1>2, <1>3, RolledBackType DEF TypeOK

LEMMA StorePageType ==
    ASSUME NEW s \in Conn, NEW p \in Pgno, NEW t \in Txn, NEW m \in StoredAs(p),
           NEW r \in StorePage(s, p, t, m)
    PROVE  r.s \in Conn
<1>1. [t |-> t, m |-> m] \in Cell
  BY DEF Cell, StoredAs, Method
<1>2. WithPages(s.work, [s.work.pages EXCEPT ![p] = [t |-> t, m |-> m]]) \in Outer
  BY <1>1, ConnFields, OuterFields, OuterStateType DEF WithPages
<1>3. PageStored(s, p, t, m) \in Conn
  BY <1>2, ApplyType DEF PageStored
<1>4. \E x \in {PageStored(s, p, t, m)} \cup AfterError(s), b \in BOOLEAN :
         r = [ok |-> b, s |-> x]
  BY Zenon DEF StorePage, MayFail
<1>5. QED
  BY <1>3, <1>4, AfterErrorType

LEMMA SavePageSizeType ==
    ASSUME NEW s \in Conn, NEW s1 \in SavePageSize(s)
    PROVE  s1 \in Conn
<1>1. WithPageSize(s.work) \in Outer
  BY ConnFields, OuterFields, OuterStateType DEF WithPageSize
<1>2. QED
  BY <1>1, ApplyType, RolledBackType DEF SavePageSize, MayFail

\* What TypeOK says of the variables the VFS itself keeps.
FileTypeOK ==
    /\ db \in Conn /\ older \subseteq Outer /\ inTxn \in BOOLEAN
    /\ pageSize \in 0..1 /\ pageCount \in 0..MaxPgno /\ saved \in 0..MaxPgno
    /\ lock \in {0, 2} /\ cdict \in BOOLEAN

LEMMA NoteWalType ==
    ASSUME TypeOK, NoteWal
    PROVE  older' \subseteq Outer
BY DEF TypeOK, NoteWal

LEMMA ZvfsWriteType ==
    ASSUME TypeOK, NEW p \in Pgno, NEW t \in Txn, NEW ok, ZvfsWrite(p, t, ok)
    PROVE  FileTypeOK'
<1>1. db \in Conn /\ BeginOuter(db, inTxn) \in Conn
  BY BeginOuterType DEF TypeOK, Conn
<1>2. \/ inTxn' = FALSE /\ UNCHANGED <<db, pageSize, pageCount>>
      \/ /\ inTxn' = TRUE
         /\ \E s \in SavePageSize(BeginOuter(db, inTxn)), m \in StoredAs(p) :
              \E r \in StorePage(s, p, t, m) :
                 /\ db' = r.s /\ pageSize' = 1
                 /\ pageCount' = IF ok /\ p > pageCount THEN p ELSE pageCount
  BY DEF ZvfsWrite
<1>3. db' \in Conn
  BY <1>1, <1>2, SavePageSizeType, StorePageType
<1>4. pageSize' \in 0..1 /\ pageCount' \in 0..MaxPgno
  <2>1. /\ pageSize' = pageSize \/ pageSize' = 1
        /\ pageCount' = pageCount \/ pageCount' = p
    BY <1>2, Zenon
  <2>2. pageSize \in 0..1 /\ pageCount \in 0..MaxPgno /\ p \in 0..MaxPgno
    BY BoundsAssumption DEF TypeOK, Pgno
  <2>3. QED
    BY <2>1, <2>2
<1>5. older' \subseteq Outer
  BY <1>3, NoteWalType DEF ZvfsWrite
<1>6. QED
  BY <1>2, <1>3, <1>4, <1>5 DEF FileTypeOK, TypeOK, ZvfsWrite

LEMMA DeleteAboveType ==
    ASSUME NEW w \in Outer, NEW n \in 0..MaxPgno
    PROVE  DeleteAbove(w, n) \in Outer
<1>1. NoCell \in Cell
  BY BoundsAssumption DEF NoCell, Cell, Txn, Method
<1>2. QED
  BY <1>1, OuterFields, OuterStateType DEF DeleteAbove, WithPages

LEMMA ZvfsTruncateType ==
    ASSUME TypeOK, NEW n \in 0..MaxPgno, NEW ok, ZvfsTruncate(n, ok)
    PROVE  FileTypeOK'
<1> DEFINE s == BeginOuter(db, inTxn)
<1>1. db \in Conn /\ s \in Conn
  BY BeginOuterType DEF TypeOK, Conn
<1>2. /\ inTxn' \in BOOLEAN /\ pageCount' \in {pageCount, n}
      /\ db' \in {db, Apply(s, DeleteAbove(s.work, n))} \cup AfterError(s)
  BY DEF ZvfsTruncate, TypeOK
<1>3. db' \in Conn
  BY <1>1, <1>2, ConnFields, DeleteAboveType, ApplyType, AfterErrorType
<1>4. older' \subseteq Outer
  BY NoteWalType DEF ZvfsTruncate
<1>5. QED
  BY <1>2, <1>3, <1>4 DEF FileTypeOK, TypeOK, ZvfsTruncate

LEMMA ZvfsSyncType ==
    ASSUME TypeOK, NEW ok, ZvfsSync(ok)
    PROVE  FileTypeOK'
<1>1. db \in Conn /\ inTxn \in BOOLEAN
  BY DEF TypeOK, Conn
<1>2. PICK c \in CommitOuter(db, inTxn) :
        /\ saved' = c.saved
        /\ \/ db' = BeginOuter(c.s, FALSE) /\ inTxn' = TRUE
           \/ db' = c.s /\ inTxn' = FALSE
  BY DEF ZvfsSync
<1>3. c.s \in Conn /\ c.saved \in 0..MaxPgno
  BY <1>1, CommitOuterType
<1>4. db' \in Conn /\ inTxn' \in BOOLEAN
  BY <1>2, <1>3, BeginOuterType
<1>5. older' \subseteq Outer
  BY NoteWalType DEF ZvfsSync
<1>6. QED
  BY <1>2, <1>3, <1>4, <1>5 DEF FileTypeOK, TypeOK, ZvfsSync

LEMMA ZvfsLockType ==
    ASSUME TypeOK, NEW ok, ZvfsLock(ok)
    PROVE  FileTypeOK'
<1>1. db \in Conn /\ BeginOuter(db, inTxn) \in Conn
  BY BeginOuterType DEF TypeOK, Conn
<1>2. QED
  BY <1>1 DEF FileTypeOK, TypeOK, ZvfsLock

LEMMA ZvfsUnlockType ==
    ASSUME TypeOK, ZvfsUnlock
    PROVE  FileTypeOK'
<1>1. db \in Conn /\ inTxn \in BOOLEAN
  BY DEF TypeOK, Conn
<1>2. older' \subseteq Outer
  BY NoteWalType DEF ZvfsUnlock
<1>3. db' \in Conn /\ inTxn' \in BOOLEAN /\ saved' \in 0..MaxPgno
  BY <1>1, CommitOuterType DEF ZvfsUnlock, TypeOK
<1>4. QED
  BY <1>2, <1>3 DEF FileTypeOK, TypeOK, ZvfsUnlock

\* What TypeOK says of the pager and of the history variables.
PagerTypeOK ==
    /\ pc \in PagerStates /\ todo \subseteq Pgno /\ wset \subseteq Pgno
    /\ cur \in Txn /\ orig \in Txn
    /\ size \in [Txn -> 0..MaxPgno] /\ img \in [Txn -> [Pgno -> Txn]]
    /\ acked \in Txn /\ torn \in BOOLEAN

(***************************************************************************)
(* TypeOK is inductive.                                                    *)
(***************************************************************************)
LEMMA TypeInit == Init => TypeOK
<1> SUFFICES ASSUME Init PROVE TypeOK
  OBVIOUS
<1>1. EmptyOuter \in Outer /\ 0 \in Txn
  BY BoundsAssumption DEF EmptyOuter, Outer, NoCell, Cell, Txn, Method
<1>2. db \in Conn
  BY <1>1, ConnType, Zenon DEF Init, ConnState
<1>3. inTxn \in BOOLEAN /\ cdict \in BOOLEAN /\ torn \in BOOLEAN
  BY Zenon DEF Init
<1>4. pageSize \in 0..1 /\ pageCount \in 0..MaxPgno /\ saved \in 0..MaxPgno
  BY BoundsAssumption DEF Init
<1>5. size \in [Txn -> 0..MaxPgno] /\ img \in [Txn -> [Pgno -> Txn]]
  BY <1>1, BoundsAssumption DEF Init
<1>6. /\ lock \in {0, 2} /\ pc \in PagerStates /\ todo \subseteq Pgno /\ wset \subseteq Pgno
      /\ cur \in Txn /\ orig \in Txn /\ acked \in Txn /\ older \subseteq Outer
  BY <1>1 DEF Init, PagerStates
<1>7. QED
  BY <1>2, <1>3, <1>4, <1>5, <1>6, Zenon DEF TypeOK, Conn

LEMMA DeadType ==
    ASSUME TypeOK, Dead, db' \in Conn, older' \subseteq Outer, acked' \in Txn
    PROVE  TypeOK'
<1>1. inTxn' \in BOOLEAN /\ cdict' \in BOOLEAN /\ torn' \in BOOLEAN
  BY Zenon DEF Dead, TypeOK
<1>2. pageSize' \in 0..1 /\ pageCount' \in 0..MaxPgno /\ saved' \in 0..MaxPgno
  BY BoundsAssumption DEF Dead
<1>3. /\ lock' \in {0, 2} /\ pc' \in PagerStates /\ todo' \subseteq Pgno
      /\ wset' \subseteq Pgno /\ cur' \in Txn /\ orig' \in Txn
      /\ size' \in [Txn -> 0..MaxPgno] /\ img' \in [Txn -> [Pgno -> Txn]]
  BY DEF Dead, TypeOK, PagerStates
<1>4. QED
  BY <1>1, <1>2, <1>3, Zenon DEF TypeOK, Conn

LEMMA TypeStep == TypeOK /\ [Next]_vars => TypeOK'
<1> SUFFICES ASSUME TypeOK, [Next]_vars PROVE TypeOK'
  OBVIOUS
<1> USE DEF PagerStates
<1>0. db \in Conn /\ FileTypeOK /\ PagerTypeOK
  BY Zenon DEF TypeOK, FileTypeOK, PagerTypeOK, Conn
<1>1. CASE Open
  <2>1. MaxPg(db.disk) \in 0..MaxPgno
    BY <1>0, ConnFields, MaxPgProps
  <2>2. db.disk.pc \in 0..MaxPgno /\ db.disk.dict \in BOOLEAN
    BY <1>0, ConnFields, OuterFields
  <2>3. FileTypeOK'
    <3>1. inTxn' \in BOOLEAN /\ cdict' \in BOOLEAN
      BY <1>1, <2>2, Zenon DEF Open
    <3>2. /\ pageSize' \in 0..1 /\ pageCount' \in 0..MaxPgno /\ saved' \in 0..MaxPgno
          /\ lock' \in {0, 2} /\ db' \in Conn /\ older' \subseteq Outer
      BY <1>0, <1>1, <2>1, <2>2 DEF Open, DerivedPageCount, FileTypeOK
    <3>3. QED
      BY <3>1, <3>2, Zenon DEF FileTypeOK
  <2>4. PagerTypeOK'
    BY <1>0, <1>1 DEF Open, PagerTypeOK, histVars
  <2>5. QED
    BY <2>3, <2>4 DEF TypeOK, FileTypeOK, PagerTypeOK, Conn
<1>2. ASSUME NEW n \in Pgno, NEW W \in SUBSET Pgno, PagerBegin(n, W)
      PROVE  TypeOK'
  <2>1. FileTypeOK'
    BY <1>2, ZvfsLockType DEF PagerBegin
  <2>2. PagerTypeOK'
    <3>1. HeaderTxn(db.work) \in Txn
      BY <1>0, ConnFields, OuterFields, BoundsAssumption DEF HeaderTxn, Cell, Pgno
    <3>2. cur < MaxTxn => cur + 1 \in Txn
      BY <1>0, BoundsAssumption DEF PagerTypeOK, Txn
    <3>3. CASE UNCHANGED <<pagerVars, histVars>>
      BY <1>0, <3>3 DEF PagerTypeOK, pagerVars, histVars
    <3>4. CASE ~UNCHANGED <<pagerVars, histVars>>
      <4> DEFINE base == HeaderTxn(db.work)
                 g == [p \in Pgno |-> IF p \in W THEN cur + 1
                                      ELSE IF p <= n THEN img[base][p] ELSE 0]
      <4>1. g \in [Pgno -> Txn]
        <5>1. cur + 1 \in Txn /\ 0 \in Txn /\ img[base] \in [Pgno -> Txn]
          BY <1>0, <1>2, <3>1, <3>2, BoundsAssumption, SMTT(30) DEF PagerTypeOK, PagerBegin, Txn
        <5>2. QED
          BY <5>1
      <4>2. /\ pc' = "write" /\ todo' = W /\ wset' = W /\ cur' = cur + 1 /\ orig' = base
            /\ size' = [size EXCEPT ![cur + 1] = n] /\ img' = [img EXCEPT ![cur + 1] = g]
            /\ acked' = acked /\ torn' = torn /\ cur < MaxTxn
        BY <1>2, <3>4 DEF PagerBegin
      <4> HIDE DEF g, base
      <4>3. QED
        BY <1>0, <3>1, <3>2, <4>1, <4>2 DEF PagerTypeOK, Pgno, base
    <3>5. QED
      BY <3>3, <3>4
  <2>3. QED
    BY <2>1, <2>2 DEF TypeOK, FileTypeOK, PagerTypeOK, Conn
<1>3. ASSUME NEW p \in Pgno, PagerWrite(p) \/ PagerUndoWrite(p)
      PROVE  TypeOK'
  <2>1. cur \in Txn /\ img[orig][p] \in Txn
    BY <1>0 DEF PagerTypeOK
  <2>2. FileTypeOK'
    BY <1>3, <2>1, ZvfsWriteType DEF PagerWrite, PagerUndoWrite
  <2>3. PagerTypeOK'
    BY <1>0, <1>3 DEF PagerWrite, PagerUndoWrite, PagerTypeOK, StartUndo, UndoFailed, histVars
  <2>4. QED
    BY <2>2, <2>3 DEF TypeOK, FileTypeOK, PagerTypeOK, Conn
<1>4. CASE PagerReadError
  <2>1. FileTypeOK'
    BY <1>0, <1>4, RolledBackType DEF PagerReadError, FileTypeOK, fileVars
  <2>2. PagerTypeOK'
    BY <1>0, <1>4 DEF PagerReadError, PagerTypeOK, StartUndo, histVars
  <2>3. QED
    BY <2>1, <2>2 DEF TypeOK, FileTypeOK, PagerTypeOK, Conn
<1>5. CASE PagerRollback
  <2>1. FileTypeOK'
    BY <1>0, <1>5 DEF PagerRollback, FileTypeOK, fileVars
  <2>2. PagerTypeOK'
    BY <1>0, <1>5 DEF PagerRollback, PagerTypeOK, StartUndo, histVars
  <2>3. QED
    BY <2>1, <2>2 DEF TypeOK, FileTypeOK, PagerTypeOK, Conn
<1>6. CASE PagerCommit
  <2>1. FileTypeOK'
    BY <1>6, ZvfsSyncType DEF PagerCommit
  <2>2. PagerTypeOK'
    BY <1>0, <1>6 DEF PagerCommit, PagerTypeOK, StartUndo, histVars
  <2>3. QED
    BY <2>1, <2>2 DEF TypeOK, FileTypeOK, PagerTypeOK, Conn
<1>7. CASE PagerShrink \/ PagerUndoTruncate
  <2>1. size[cur] \in 0..MaxPgno /\ size[orig] \in 0..MaxPgno
    BY <1>0 DEF PagerTypeOK
  <2>2. FileTypeOK'
    BY <1>7, <2>1, ZvfsTruncateType DEF PagerShrink, PagerUndoTruncate
  <2>3. PagerTypeOK'
    BY <1>0, <1>7 DEF PagerShrink, PagerUndoTruncate, PagerTypeOK, StartUndo, UndoFailed, histVars
  <2>4. QED
    BY <2>2, <2>3 DEF TypeOK, FileTypeOK, PagerTypeOK, Conn
<1>8. CASE PagerUndoSync
  <2>1. FileTypeOK'
    BY <1>8, ZvfsSyncType DEF PagerUndoSync
  <2>2. PagerTypeOK'
    BY <1>0, <1>8 DEF PagerUndoSync, PagerTypeOK, histVars
  <2>3. QED
    BY <2>1, <2>2 DEF TypeOK, FileTypeOK, PagerTypeOK, Conn
<1>9. CASE PagerUnlock
  <2>1. FileTypeOK'
    BY <1>9, ZvfsUnlockType DEF PagerUnlock
  <2>2. PagerTypeOK'
    <3>1. torn' \in BOOLEAN
      BY <1>9, Zenon DEF PagerUnlock
    <3>2. QED
      BY <1>0, <1>9, <3>1 DEF PagerUnlock, PagerTypeOK
  <2>3. QED
    BY <2>1, <2>2 DEF TypeOK, FileTypeOK, PagerTypeOK, Conn
<1>10. CASE Close
  <2>1. PICK c \in CommitOuter(db, inTxn) : \E d \in TrainDictionary(c.s.work) :
            db' = Apply(c.s, OuterState(d.pages, IF pageSize > 0 THEN 1 ELSE d.ps,
                                        IF pageCount > 0 THEN pageCount ELSE d.pc, d.dict))
    BY <1>10 DEF Close
  <2>2. c.s \in Conn /\ c.s.work \in Outer
    BY <1>0, CommitOuterType, ConnFields DEF FileTypeOK
  <2>3. \A d \in TrainDictionary(c.s.work) : d \in Outer
    BY <2>2, OuterFields, OuterStateType DEF TrainDictionary
  <2>4. db' \in Conn
    <3>1. \A d \in Outer : OuterState(d.pages, IF pageSize > 0 THEN 1 ELSE d.ps,
                      IF pageCount > 0 THEN pageCount ELSE d.pc, d.dict) \in Outer
      <4>1. ASSUME NEW d \in Outer
            PROVE  /\ (IF pageSize > 0 THEN 1 ELSE d.ps) \in 0..1
                   /\ (IF pageCount > 0 THEN pageCount ELSE d.pc) \in 0..MaxPgno
        BY <1>0, OuterFields DEF FileTypeOK
      <4>2. QED
        BY <4>1, OuterFields, OuterStateType
    <3>2. QED
      BY <2>1, <2>2, <2>3, <3>1, ApplyType
  <2>5. QED
    BY <1>0, <1>10, <2>4, DeadType DEF Close, PagerTypeOK
<1>11. CASE Crash
  BY <1>0, <1>11, RolledBackType, DeadType DEF Crash, FileTypeOK, PagerTypeOK
<1>12. CASE PowerLoss
  <2>1. PICK d \in older : db' = Committed(d) /\ acked' = HeaderTxn(d)
    BY <1>12 DEF PowerLoss
  <2>2. d \in Outer /\ HeaderTxn(d) \in Txn
    BY <1>0, OuterFields, BoundsAssumption DEF FileTypeOK, HeaderTxn, Cell, Pgno
  <2>3. db' \in Conn /\ older' \subseteq Outer
    BY <1>12, <2>1, <2>2, ConnType DEF PowerLoss, Committed
  <2>4. QED
    BY <1>12, <2>1, <2>2, <2>3, DeadType DEF PowerLoss
<1>13. CASE Checkpoint \/ UNCHANGED vars
  <2>1. FileTypeOK'
    BY <1>0, <1>13 DEF Checkpoint, vars, FileTypeOK, fileVars
  <2>2. PagerTypeOK'
    BY <1>0, <1>13 DEF Checkpoint, vars, PagerTypeOK, pagerVars, histVars
  <2>3. QED
    BY <2>1, <2>2 DEF TypeOK, FileTypeOK, PagerTypeOK, Conn
<1>14. QED
  BY <1>1, <1>2, <1>3, <1>4, <1>5, <1>6, <1>7, <1>8, <1>9, <1>10, <1>11, <1>12, <1>13
     DEF Next

(***************************************************************************)
(* Every reachable state of the VFS is well typed.                         *)
(***************************************************************************)
THEOREM Typing == Spec => []TypeOK
BY TypeInit, TypeStep, PTL DEF Spec

-----------------------------------------------------------------------------
(***************************************************************************)
(* Atomicity.  The properties below need that the rows page_size and       *)
(* page_count of the meta table can be saved: outer_db_save_meta_int drops *)
(* the result of its statement, so a failure there ends the outer          *)
(* transaction behind the back of zvfs_write (module MCZstdVfs has the run *)
(* that shows it).  IInv is the inductive invariant: none of the           *)
(* properties is inductive, because what a commit exposes was put together *)
(* by the page writes and undo steps before it.                            *)
(***************************************************************************)

\* The rows page_size and page_count of the meta table can be saved.
MetaSaved == "meta" \notin FailPoints

(***************************************************************************)
(* A state of the outer database, committed or not: a row of the pages     *)
(* table holds the content of some inner transaction, page 1 is stored raw *)
(* (zvfs_write's exception), and nothing is compressed with a dictionary   *)
(* the meta table does not have.                                           *)
(***************************************************************************)
Sane(d) ==
    /\ \A p \in Pgno : Present(d, p) <=> d.pages[p].t # 0
    /\ Present(d, 1) => d.pages[1].m = "raw"
    /\ \A p \in Pgno : d.pages[p].m = "dict" => d.dict

(***************************************************************************)
(* d is the image of one of the transactions 1..c, or empty.  Written with *)
(* the history as parameters, so that it can be compared before and after  *)
(* a step.                                                                 *)
(***************************************************************************)
FullImage(d, c, sz, im) ==
    /\ HeaderTxn(d) <= c
    /\ \A p \in Pgno : p <= sz[HeaderTxn(d)] => d.pages[p].t = im[HeaderTxn(d)][p]
    /\ HeaderTxn(d) = 0 => \A p \in Pgno : d.pages[p].t = 0

Complete(d) == Sane(d) /\ FullImage(d, cur, size, img)

(***************************************************************************)
(* The images of the inner transactions: transaction 0 is the empty        *)
(* database, every other one started so far has its own header page, and   *)
(* exactly the pages its size counts.                                      *)
(***************************************************************************)
HistInv ==
    /\ size[0] = 0
    /\ \A t \in Txn : t # 0 /\ t <= cur => size[t] # 0 /\ img[t][1] = t
    /\ \A t \in Txn, p \in Pgno : img[t][p] # 0 <=> p <= size[t]

(***************************************************************************)
(* f->in_transaction may be stale in one direction only: clear, it says    *)
(* that the outer connection is in autocommit mode, and then the           *)
(* connection has no private changes.                                      *)
(***************************************************************************)
OpenTxnInv ==
    /\ db.auto => db.work = db.disk
    /\ ~inTxn => db.auto

(***************************************************************************)
(* What may be found on disk, now or after a crash, is complete; the pager *)
(* knows which transaction it is.                                          *)
(***************************************************************************)
ConnInv ==
    /\ Sane(db.work)
    /\ \A d \in Durable : Complete(d)
    /\ acked = HeaderTxn(db.disk)

Busy == {"write", "synced", "undo", "fin", "half"}

(***************************************************************************)
(* What the VFS keeps in memory while the file is open: a page count that  *)
(* covers the last commit, a page size as soon as there is a page, and the *)
(* dictionary whenever a page needs it.                                    *)
(***************************************************************************)
FileInv ==
    /\ pc # "refused"
    /\ pc \notin Busy => ~inTxn 
    /\ lock = IF pc \in Busy THEN 2 ELSE 0
    /\ pc # "closed" =>
         /\ pageCount >= size[acked]
         /\ pageSize = 0 => HeaderTxn(db.disk) = 0 /\ HeaderTxn(db.work) = 0
         /\ cdict => db.disk.dict /\ db.work.dict
         /\ \A p \in Pgno : db.work.pages[p].m = "dict" \/ db.disk.pages[p].m = "dict"
                               => cdict

(***************************************************************************)
(* The inner transaction in progress, and the one its journal restores.    *)
(***************************************************************************)
PlanInv ==
    pc \in {"write", "undo"} =>
      /\ orig = acked /\ orig < cur
      /\ 1 \in wset /\ todo \subseteq wset
      /\ \A p \in wset : p <= size[cur] /\ img[cur][p] = cur
      /\ \A p \in Pgno \ wset : p <= size[cur] =>
            p <= size[orig] /\ img[cur][p] = img[orig][p]
      /\ orig = 0 => \A p \in Pgno : Present(db.work, p) => p <= pageCount

(***************************************************************************)
(* While the pager writes, the outer transaction is open and holds the     *)
(* pages written so far on top of the committed state.                     *)
(***************************************************************************)
WriteInv ==
    pc = "write" =>
      /\ inTxn /\ ~db.auto
      /\ \A p \in wset \ todo : db.work.pages[p].t = cur /\ p <= pageCount
      /\ \A p \in Pgno \ (wset \ todo) : db.work.pages[p] = db.disk.pages[p]

(***************************************************************************)
(* While the pager restores its journal, what is left to do is the         *)
(* original's, and every other page of the original is back (or was never  *)
(* changed).                                                               *)
(***************************************************************************)
UndoInv ==
    pc = "undo" =>
      /\ \A p \in todo : p <= size[orig]
      /\ \A p \in Pgno \ todo : p <= size[orig] => db.work.pages[p].t = img[orig][p]

(***************************************************************************)
(* Once the pager is done, what the outer connection holds is complete:    *)
(* zvfs_unlock will commit it and drop the result.                         *)
(***************************************************************************)
DoneInv ==
    pc \in {"synced", "fin"} =>
      /\ Complete(db.work) /\ HeaderTxn(db.work) = acked
      /\ pc = "synced" => acked = cur /\ cur # 0

IInv == /\ TypeOK /\ HistInv /\ OpenTxnInv /\ ConnInv
        /\ FileInv /\ PlanInv /\ WriteInv /\ UndoInv /\ DoneInv

(***************************************************************************)
(* The fields of an outer state put together by OuterState.                *)
(***************************************************************************)
LEMMA OuterParts ==
    ASSUME NEW g, NEW ps, NEW n, NEW dict
    PROVE  /\ OuterState(g, ps, n, dict).pages = g
           /\ OuterState(g, ps, n, dict).ps = ps
           /\ OuterState(g, ps, n, dict).pc = n
           /\ OuterState(g, ps, n, dict).dict = dict
BY DEF OuterState

(***************************************************************************)
(* A failing statement never changes the committed state.                  *)
(***************************************************************************)
LEMMA AfterErrorEffect ==
    ASSUME NEW s, NEW r \in AfterError(s)
    PROVE  /\ r.disk = s.disk
           /\ (r.auto /\ r.work = r.disk) \/ r = s
BY DEF AfterError, RolledBack, ConnState

(***************************************************************************)
(* begin_outer leaves the connection in a transaction, with the state it   *)
(* had, whatever in_transaction said.                                      *)
(***************************************************************************)
LEMMA BeginEffect ==
    ASSUME TypeOK
    PROVE  /\ BeginOuter(db, inTxn).disk = db.disk
           /\ BeginOuter(db, inTxn).work = db.work
           /\ ~BeginOuter(db, inTxn).auto
<1>1. db.auto \in BOOLEAN
  BY DEF TypeOK
<1>2. QED
  BY <1>1 DEF BeginOuter, InTxn, ConnState

\* r is the failed outcome: the transaction is gone or nothing happened.
LostOrKept(s) ==
    \/ db'.auto /\ db'.work = db'.disk
    \/ /\ ~db'.auto
       /\ db'.work.pages = s.work.pages /\ db'.work.dict = s.work.dict

(***************************************************************************)
(* zvfs_write never touches the committed state; it stores the page in the *)
(* open outer transaction, or fails and either loses the transaction or    *)
(* leaves it alone.                                                        *)
(***************************************************************************)
LEMMA WriteEffect ==
    ASSUME TypeOK, OpenTxnInv, MetaSaved, NEW p \in Pgno, NEW t \in Txn,
           NEW ok \in BOOLEAN, ZvfsWrite(p, t, ok)
    PROVE  /\ db'.disk = db.disk /\ older' = older
           /\ UNCHANGED <<saved, lock, cdict>>
           /\ ~inTxn' => db'.auto
           /\ pageSize' = pageSize \/ pageSize' = 1
           /\ ok => /\ inTxn' = TRUE /\ ~db'.auto /\ pageSize' = 1
                    /\ pageCount' = IF p > pageCount THEN p ELSE pageCount
                    /\ db'.work.dict = db.work.dict
                    /\ \E m \in StoredAs(p) :
                         db'.work.pages = [db.work.pages EXCEPT ![p] = [t |-> t, m |-> m]]
           /\ ~ok => pageCount' = pageCount /\ LostOrKept(db)
<1>1. db.auto \in BOOLEAN /\ inTxn \in BOOLEAN
  BY DEF TypeOK
<1>2. CASE BeginMayFail(db, inTxn) /\ ~ok /\ inTxn' = FALSE /\ UNCHANGED <<db, pageSize, pageCount>>
  <2>1. db.auto /\ db.work = db.disk
    BY <1>1, <1>2 DEF BeginMayFail, OpenTxnInv
  <2>2. older' = older
    BY <1>2 DEF ZvfsWrite, NoteWal
  <2>3. QED
    BY <1>2, <2>1, <2>2 DEF ZvfsWrite, LostOrKept
<1>3. CASE ~(BeginMayFail(db, inTxn) /\ ~ok /\ inTxn' = FALSE /\ UNCHANGED <<db, pageSize, pageCount>>)
  <2> DEFINE b == BeginOuter(db, inTxn)
  <2>1. PICK s \in SavePageSize(b), m \in StoredAs(p) :
          \E r \in StorePage(s, p, t, m) :
             /\ ok = r.ok /\ db' = r.s /\ pageSize' = 1 /\ inTxn' = TRUE
             /\ pageCount' = IF ok /\ p > pageCount THEN p ELSE pageCount
    BY <1>3 DEF ZvfsWrite
  <2>2. PICK r \in StorePage(s, p, t, m) :
             /\ ok = r.ok /\ db' = r.s /\ pageSize' = 1 /\ inTxn' = TRUE
             /\ pageCount' = IF ok /\ p > pageCount THEN p ELSE pageCount
    BY <2>1
  <2>3. b.disk = db.disk /\ b.work = db.work /\ ~b.auto
    BY BeginEffect
  <2> HIDE DEF b
  <2>4. /\ s.disk = db.disk /\ s.work.pages = db.work.pages
        /\ s.work.dict = db.work.dict /\ ~s.auto
    <3>1. s = b \/ s = Apply(b, WithPageSize(b.work))
      BY DEF SavePageSize, MayFail, MetaSaved
    <3>2. CASE s = b
      BY <2>3, <3>2
    <3>3. CASE s = Apply(b, WithPageSize(b.work))
      BY <2>3, <3>3, OuterParts DEF Apply, WithPageSize, ConnState
    <3>4. QED
      BY <3>1, <3>2, <3>3
  <2>5. \/ r = [ok |-> TRUE, s |-> PageStored(s, p, t, m)]
        \/ \E x \in AfterError(s) : r = [ok |-> FALSE, s |-> x]
    BY Zenon DEF StorePage, MayFail
  <2>6. CASE r = [ok |-> TRUE, s |-> PageStored(s, p, t, m)]
    <3>1. ok = TRUE /\ db' = PageStored(s, p, t, m)
      BY <2>2, <2>6
    <3>2. /\ db'.disk = db.disk /\ ~db'.auto /\ db'.work.dict = db.work.dict
          /\ db'.work.pages = [db.work.pages EXCEPT ![p] = [t |-> t, m |-> m]]
      BY <2>4, <3>1, OuterParts DEF PageStored, Apply, WithPages, ConnState
    <3>3. older' = older
      BY <3>2 DEF ZvfsWrite, NoteWal
    <3>4. QED
      BY <2>2, <3>1, <3>2, <3>3 DEF ZvfsWrite
  <2>7. ASSUME NEW x \in AfterError(s), r = [ok |-> FALSE, s |-> x]
        PROVE  /\ ok = FALSE /\ db'.disk = db.disk
               /\ LostOrKept(db)
    <3>1. ok = FALSE /\ db' = x
      BY <2>2, <2>7
    <3>2. QED
      BY <2>4, <3>1, AfterErrorEffect DEF LostOrKept
  <2>8. CASE \E x \in AfterError(s) : r = [ok |-> FALSE, s |-> x]
    <3>1. ok = FALSE /\ db'.disk = db.disk /\ LostOrKept(db)
      BY <2>7, <2>8
    <3>2. older' = older
      BY <3>1 DEF ZvfsWrite, NoteWal
    <3>3. QED
      BY <2>2, <3>1, <3>2 DEF ZvfsWrite
  <2>9. QED
    BY <2>5, <2>6, <2>8
<1>4. QED
  BY <1>2, <1>3

(***************************************************************************)
(* The same for zvfs_truncate.                                             *)
(***************************************************************************)
LEMMA TruncateEffect ==
    ASSUME TypeOK, OpenTxnInv, NEW n \in 0..MaxPgno, NEW ok \in BOOLEAN, ZvfsTruncate(n, ok)
    PROVE  /\ db'.disk = db.disk /\ older' = older
           /\ UNCHANGED <<pageSize, saved, lock, cdict>>
           /\ \/ ok /\ UNCHANGED <<db, inTxn, pageCount>>
              \/ /\ ok /\ inTxn' = TRUE /\ ~db'.auto /\ pageCount' = n
                 /\ db'.work.dict = db.work.dict
                 /\ db'.work.pages =
                      [p \in Pgno |-> IF p > n THEN NoCell ELSE db.work.pages[p]]
              \/ ~ok /\ pageCount' = pageCount /\ (~inTxn' => db'.auto) /\ LostOrKept(db)
<1>1. db.auto \in BOOLEAN /\ inTxn \in BOOLEAN
  BY DEF TypeOK
<1> DEFINE b == BeginOuter(db, inTxn)
<1>2. b.disk = db.disk /\ b.work = db.work /\ ~b.auto
  BY BeginEffect
<1> HIDE DEF b
<1>3. CASE pageSize = 0 /\ ok /\ UNCHANGED <<db, inTxn, pageCount>>
  BY <1>3 DEF ZvfsTruncate, NoteWal
<1>4. CASE BeginMayFail(db, inTxn) /\ ~ok /\ inTxn' = FALSE /\ UNCHANGED <<db, pageCount>>
  <2>1. db.auto /\ db.work = db.disk
    BY <1>1, <1>4 DEF BeginMayFail, OpenTxnInv
  <2>2. QED
    BY <1>4, <2>1 DEF ZvfsTruncate, NoteWal, LostOrKept
<1>5. CASE ok /\ inTxn' = TRUE /\ db' = Apply(b, DeleteAbove(b.work, n)) /\ pageCount' = n
  <2>1. /\ db'.disk = db.disk /\ ~db'.auto /\ db'.work.dict = db.work.dict
        /\ db'.work.pages = [p \in Pgno |-> IF p > n THEN NoCell ELSE db.work.pages[p]]
    BY <1>2, <1>5, OuterParts DEF Apply, DeleteAbove, WithPages, ConnState
  <2>2. QED
    BY <1>5, <2>1 DEF ZvfsTruncate, NoteWal
<1>6. CASE ~ok /\ inTxn' = TRUE /\ db' \in AfterError(b) /\ pageCount' = pageCount
  <2>1. db'.disk = db.disk /\ LostOrKept(db)
    BY <1>2, <1>6, AfterErrorEffect DEF LostOrKept
  <2>2. QED
    BY <1>6, <2>1 DEF ZvfsTruncate, NoteWal
<1>7. QED
  BY <1>3, <1>4, <1>5, <1>6 DEF ZvfsTruncate, b

\* A commit replaces the committed state by the connection's, page_count aside.
TookWork == db'.disk.pages = db.work.pages /\ db'.disk.dict = db.work.dict

(***************************************************************************)
(* commit_outer ends in autocommit mode; it reports success only when      *)
(* there was no transaction or the transaction is on disk.                 *)
(***************************************************************************)
LEMMA CommitEffect ==
    ASSUME TypeOK, OpenTxnInv, NEW c \in CommitOuter(db, inTxn)
    PROVE  /\ c.s.auto /\ c.s.work = c.s.disk
           /\ \/ c.s.disk = db.disk /\ (c.ok => ~inTxn)
              \/ /\ c.ok /\ inTxn /\ ~db.auto
                 /\ c.s.disk.pages = db.work.pages /\ c.s.disk.dict = db.work.dict
<1>1. db.auto \in BOOLEAN /\ inTxn \in BOOLEAN
  BY DEF TypeOK
<1>2. CASE ~inTxn
  <2>1. c = [ok |-> TRUE, s |-> db, saved |-> saved]
    BY <1>2, Zenon DEF CommitOuter
  <2>2. QED
    BY <1>2, <2>1 DEF OpenTxnInv
<1>3. CASE inTxn /\ db.auto
  <2>1. c = [ok |-> FALSE, s |-> db, saved |-> saved]
    BY <1>3, Zenon DEF CommitOuter
  <2>2. QED
    BY <1>3, <2>1 DEF OpenTxnInv
<1>4. CASE inTxn /\ ~db.auto
  <2> DEFINE w == IF pageCount # saved THEN WithPageCount(db.work, pageCount) ELSE db.work
  <2>1. w.pages = db.work.pages /\ w.dict = db.work.dict
    BY OuterParts DEF WithPageCount
  <2>2. \/ c = [ok |-> TRUE, s |-> Committed(w), saved |-> pageCount]
        \/ c = [ok |-> FALSE, s |-> RolledBack(db), saved |-> pageCount]
    BY <1>4, Zenon DEF CommitOuter, MayFail
  <2> HIDE DEF w
  <2>3. CASE c = [ok |-> TRUE, s |-> Committed(w), saved |-> pageCount]
    BY <1>4, <2>1, <2>3 DEF Committed, ConnState
  <2>4. CASE c = [ok |-> FALSE, s |-> RolledBack(db), saved |-> pageCount]
    BY <2>4 DEF RolledBack, ConnState
  <2>5. QED
    BY <2>2, <2>3, <2>4
<1>5. QED
  BY <1>2, <1>3, <1>4

(***************************************************************************)
(* zvfs_sync: after it the connection has no private changes.              *)
(***************************************************************************)
LEMMA SyncEffect ==
    ASSUME TypeOK, OpenTxnInv, NEW ok \in BOOLEAN, ZvfsSync(ok)
    PROVE  /\ db'.work = db'.disk /\ (~inTxn' => db'.auto)
           /\ UNCHANGED <<pageSize, pageCount, lock, cdict>>
           /\ NoteWal
           /\ \/ db'.disk = db.disk /\ (ok => ~inTxn)
              \/ ok /\ inTxn /\ ~db.auto /\ TookWork
<1>1. PICK c \in CommitOuter(db, inTxn) :
          /\ ok = c.ok
          /\ \/ inTxn' = TRUE /\ db' = BeginOuter(c.s, FALSE)
             \/ inTxn' = FALSE /\ db' = c.s
  BY DEF ZvfsSync
<1>2. db'.disk = c.s.disk /\ db'.work = c.s.work /\ (~inTxn' => db'.auto = c.s.auto)
  BY <1>1 DEF BeginOuter, InTxn, ConnState
<1>3. QED
  BY <1>1, <1>2, CommitEffect DEF ZvfsSync, TookWork

(***************************************************************************)
(* zvfs_unlock: whatever commit_outer answered, the connection has no      *)
(* private changes and no transaction.                                     *)
(***************************************************************************)
LEMMA UnlockEffect ==
    ASSUME TypeOK, OpenTxnInv, lock = 2, ZvfsUnlock
    PROVE  /\ db'.work = db'.disk /\ db'.auto /\ inTxn' = FALSE /\ lock' = 0
           /\ UNCHANGED <<pageSize, pageCount, cdict>>
           /\ NoteWal
           /\ db'.disk = db.disk \/ TookWork
<1>1. PICK c \in CommitOuter(db, inTxn) : db' = c.s /\ inTxn' = FALSE
  BY DEF ZvfsUnlock
<1>2. QED
  BY <1>1, CommitEffect DEF ZvfsUnlock, TookWork


(***************************************************************************)
(* The header page exists and names a transaction.                         *)
(***************************************************************************)
LEMMA HeaderType ==
    ASSUME NEW d \in Outer
    PROVE  HeaderTxn(d) \in Txn /\ 1 \in Pgno
BY OuterFields, BoundsAssumption DEF HeaderTxn, Cell, Pgno

(***************************************************************************)
(* The predicates on an outer state look at its pages and its dictionary   *)
(* only, not at the page_size and page_count rows.                         *)
(***************************************************************************)
LEMMA SamePages ==
    ASSUME NEW d \in Outer, NEW e \in Outer, e.pages = d.pages, e.dict = d.dict,
           NEW c, NEW sz, NEW im
    PROVE  /\ HeaderTxn(e) = HeaderTxn(d)
           /\ Sane(d) => Sane(e)
           /\ FullImage(d, c, sz, im) => FullImage(e, c, sz, im)
BY DEF HeaderTxn, Sane, FullImage, Present

(***************************************************************************)
(* Storing a page keeps an outer state sane: compress_page uses the        *)
(* dictionary only when it is loaded, and never for page 1.                *)
(***************************************************************************)
LEMMA SaneStore ==
    ASSUME TypeOK, NEW d \in Outer, NEW e \in Outer, NEW p \in Pgno,
           NEW t \in Txn, t # 0, NEW m \in StoredAs(p), cdict => d.dict,
           e.pages = [d.pages EXCEPT ![p] = [t |-> t, m |-> m]], e.dict = d.dict, Sane(d)
    PROVE  Sane(e)
<1>1. d.pages \in [Pgno -> Cell] /\ e.pages \in [Pgno -> Cell] /\ 1 \in Pgno
  BY OuterFields, HeaderType
<1>2. m # "none" /\ (p = 1 => m = "raw") /\ (m = "dict" => d.dict)
  BY DEF StoredAs, TypeOK
<1>3. e.pages[p].t = t /\ e.pages[p].m = m
  BY <1>1
<1>4. \A q \in Pgno : q # p => e.pages[q] = d.pages[q]
  BY <1>1
<1>5. QED
  BY <1>1, <1>2, <1>3, <1>4 DEF Sane, Present

(***************************************************************************)
(* Deleting the rows past a page number keeps an outer state sane.         *)
(***************************************************************************)
LEMMA SaneDelete ==
    ASSUME NEW d \in Outer, NEW e \in Outer, NEW n \in 0..MaxPgno,
           e.pages = [p \in Pgno |-> IF p > n THEN NoCell ELSE d.pages[p]],
           e.dict = d.dict, Sane(d)
    PROVE  Sane(e)
<1>1. 1 \in Pgno /\ NoCell.t = 0 /\ NoCell.m = "none"
  BY HeaderType DEF NoCell
<1>2. \A q \in Pgno : e.pages[q] = d.pages[q] \/ e.pages[q] = NoCell
  OBVIOUS
<1>3. QED
  BY <1>1, <1>2 DEF Sane, Present

(***************************************************************************)
(* A step that leaves the committed states and the history alone keeps     *)
(* ConnInv.                                                                *)
(***************************************************************************)
LEMMA DurableKept ==
    ASSUME ConnInv, db'.disk = db.disk, older' = older,
           UNCHANGED <<cur, size, img, acked>>, Sane(db.work)'
    PROVE  ConnInv'
BY DEF ConnInv, Durable, Complete, HeaderTxn

(***************************************************************************)
(* What ConnInv says of the committed state, spelled out.                  *)
(***************************************************************************)
LEMMA DiskFacts ==
    ASSUME TypeOK, ConnInv
    PROVE  /\ db.disk \in Outer /\ db.work \in Outer
           /\ db.disk.pages \in [Pgno -> Cell] /\ db.work.pages \in [Pgno -> Cell]
           /\ Sane(db.disk) /\ Sane(db.work) /\ HeaderTxn(db.disk) = acked
           /\ acked <= cur
           /\ \A p \in Pgno : p <= size[acked] => db.disk.pages[p].t = img[acked][p]
           /\ acked = 0 => \A p \in Pgno : ~Present(db.disk, p)
<1>1. db.disk \in Outer /\ db.work \in Outer
  BY DEF TypeOK
<1>2. Complete(db.disk) /\ Sane(db.work) /\ HeaderTxn(db.disk) = acked
  BY DEF ConnInv, Durable
<1>3. QED
  BY <1>1, <1>2, OuterFields DEF Complete, FullImage, Sane

(***************************************************************************)
(* The pager starts to restore its journal, or starts over, after any      *)
(* failure: the pages it will not restore are the original's.              *)
(***************************************************************************)
LEMMA UndoStarts ==
    ASSUME IInv, TypeOK', pc \in {"write", "undo"}, StartUndo,
           UNCHANGED <<lock, cdict, pageCount, wset, cur, orig, histVars>>,
           db'.disk = db.disk, older' = older, OpenTxnInv',
           pageSize' = pageSize \/ pageSize' = 1,
           \/ db'.work = db'.disk
           \/ db'.work.pages = db.work.pages /\ db'.work.dict = db.work.dict
    PROVE  IInv'
<1>0. UNCHANGED <<size, img, acked>> /\ pc' = "undo"
  BY DEF histVars, StartUndo
<1>1. /\ TypeOK /\ HistInv /\ ConnInv /\ FileInv /\ PlanInv /\ WriteInv /\ UndoInv
      /\ OpenTxnInv
  BY DEF IInv
<1>2. /\ db'.work \in Outer /\ db'.disk \in Outer /\ db'.work.pages \in [Pgno -> Cell]
      /\ orig \in Txn /\ size[orig] \in 0..MaxPgno
  BY <1>1, OuterFields DEF TypeOK
<1>3. Sane(db'.work)
  BY <1>1, <1>2, DiskFacts, SamePages
<1>4. ConnInv'
  BY <1>0, <1>1, <1>3, DurableKept
<1>5. FileInv'
  BY <1>0, <1>1 DEF FileInv, Busy, HeaderTxn
<1>6. PlanInv'
  <2>1. orig = 0 => \A p \in Pgno : Present(db'.work, p) => p <= pageCount
    BY <1>1, DiskFacts DEF PlanInv, Present
  <2>2. QED
    BY <1>0, <1>1, <2>1 DEF PlanInv, StartUndo, Present
<1>7. UndoInv'
  <2> SUFFICES ASSUME NEW p \in Pgno, p \notin todo', p <= size[orig]
               PROVE  db'.work.pages[p].t = img[orig][p]
    BY <1>0 DEF UndoInv, StartUndo
  <2>1. p \notin wset
    BY DEF StartUndo
  <2>2. db.disk.pages[p].t = img[orig][p]
    BY <1>1, DiskFacts DEF PlanInv
  <2>3. p \notin todo
    BY <1>1, <2>1 DEF PlanInv
  <2>4. QED
    BY <1>1, <2>1, <2>2, <2>3 DEF WriteInv, UndoInv
<1>8. QED
  BY <1>0, <1>1, <1>4, <1>5, <1>6, <1>7 DEF IInv, HistInv, WriteInv, DoneInv

\* The image restored by the journal, once every page is back.
LEMMA UndoneImage ==
    ASSUME IInv, pc = "undo", todo = {}, orig # 0 \/ pageCount <= size[orig]
    PROVE  Complete(db.work) /\ HeaderTxn(db.work) = acked
<1>1. /\ TypeOK /\ HistInv /\ ConnInv /\ PlanInv /\ UndoInv
      /\ orig \in Txn /\ cur \in Txn /\ size[orig] \in 0..MaxPgno /\ pageCount \in Nat
  BY DEF IInv, TypeOK
<1>2. /\ orig = acked /\ orig < cur /\ orig \in Nat /\ cur \in Nat
      /\ db.work \in Outer /\ db.work.pages \in [Pgno -> Cell] /\ Sane(db.work)
  BY <1>1, DiskFacts, BoundsAssumption DEF PlanInv, Txn
<1>3. \A p \in Pgno : p <= size[orig] => db.work.pages[p].t = img[orig][p]
  BY <1>1 DEF UndoInv
<1>4. CASE orig = 0
  <2>1. size[orig] = 0
    BY <1>1, <1>4 DEF HistInv
  <2>2. \A p \in Pgno : db.work.pages[p].t = 0
    BY <1>1, <1>2, <1>4, <2>1, BoundsAssumption DEF PlanInv, Sane, Pgno
  <2>3. HeaderTxn(db.work) = 0
    BY <2>2, <1>2, HeaderType DEF HeaderTxn
  <2>4. QED
    BY <1>2, <1>3, <1>4, <2>2, <2>3 DEF Complete, FullImage
<1>5. CASE orig # 0
  <2>1. size[orig] # 0 /\ img[orig][1] = orig
    BY <1>1, <1>2, <1>5 DEF HistInv
  <2>2. HeaderTxn(db.work) = orig
    BY <1>1, <1>2, <1>3, <2>1, BoundsAssumption DEF HeaderTxn, Pgno
  <2>3. QED
    BY <1>2, <1>3, <1>5, <2>2 DEF Complete, FullImage
<1>6. QED
  BY <1>4, <1>5

(***************************************************************************)
(* Giving up a failed undo step is safe when the outer transaction is gone *)
(* or the original is back; otherwise the transaction is half undone, of   *)
(* which the invariant says nothing but that the disk is as it was.        *)
(***************************************************************************)
LEMMA UndoGivenUp ==
    ASSUME IInv, TypeOK', pc = "undo",
           pc' = IF OriginalBack \/ db'.auto THEN "fin" ELSE "half",
           UNCHANGED <<lock, cdict, pageCount, wset, cur, orig, histVars>>,
           db'.disk = db.disk, older' = older, OpenTxnInv',
           pageSize' = pageSize \/ pageSize' = 1, LostOrKept(db)
    PROVE  IInv'
<1>0. UNCHANGED <<size, img, acked>>
  BY DEF histVars
<1>1. TypeOK /\ HistInv /\ ConnInv /\ FileInv
  BY DEF IInv
<1>2. ConnInv'
  <2>1. db'.work \in Outer /\ db.work \in Outer /\ db.disk \in Outer
    BY <1>1 DEF TypeOK
  <2>2. Sane(db'.work)
    BY <1>1, <2>1, DiskFacts, SamePages DEF LostOrKept
  <2>3. QED
    BY <1>0, <1>1, <2>2, DurableKept
<1>3. FileInv'
  BY <1>0, <1>1 DEF FileInv, Busy, HeaderTxn, LostOrKept
<1>4. DoneInv'
  <2>1. CASE db'.auto
    <3>1. db'.work = db'.disk
      BY <2>1 DEF LostOrKept
    <3>2. QED
      BY <1>2, <2>1, <3>1 DEF DoneInv, ConnInv, Durable
  <2>2. CASE ~db'.auto /\ OriginalBack
    <3>1. Complete(db.work) /\ HeaderTxn(db.work) = acked
      BY <2>2, UndoneImage DEF OriginalBack
    <3>2. db'.work.pages = db.work.pages /\ db'.work.dict = db.work.dict
      BY <2>2 DEF LostOrKept
    <3>3. Complete(db.work)' /\ HeaderTxn(db'.work) = acked
      BY <1>0, <3>1, <3>2 DEF Complete, Sane, FullImage, HeaderTxn, Present
    <3>4. QED
      BY <1>0, <2>2, <3>3 DEF DoneInv
  <2>3. CASE ~db'.auto /\ ~OriginalBack
    BY <2>3 DEF DoneInv
  <2>4. QED
    BY <2>1, <2>2, <2>3
<1>5. QED
  BY <1>0, <1>1, <1>2, <1>3, <1>4 DEF IInv, HistInv, WriteInv, PlanInv, UndoInv

(***************************************************************************)
(* IInv is preserved by the pager's writes.                                *)
(***************************************************************************)
LEMMA WriteStep ==
    ASSUME IInv, TypeOK', MetaSaved, NEW p \in Pgno, PagerWrite(p)
    PROVE  IInv'
<1>0. /\ UNCHANGED <<size, img, acked, wset, cur, orig, histVars>>
      /\ pc = "write" /\ p \in todo
  BY DEF histVars, PagerWrite
<1>1. /\ TypeOK /\ HistInv /\ ConnInv /\ FileInv /\ PlanInv /\ WriteInv /\ UndoInv
      /\ OpenTxnInv /\ cur \in Txn
  BY DEF IInv, TypeOK
<1>2. CASE ZvfsWrite(p, cur, TRUE) /\ todo' = todo \ {p} /\ UNCHANGED pc
  <2>1. /\ db'.disk = db.disk /\ older' = older /\ UNCHANGED <<saved, lock, cdict>>
        /\ inTxn' = TRUE /\ ~db'.auto /\ pageSize' = 1
        /\ pageCount' = IF p > pageCount THEN p ELSE pageCount
        /\ db'.work.dict = db.work.dict
        /\ \E m \in StoredAs(p) :
             db'.work.pages = [db.work.pages EXCEPT ![p] = [t |-> cur, m |-> m]]
    BY <1>1, <1>2, WriteEffect
  <2>2. PICK m \in StoredAs(p) :
             db'.work.pages = [db.work.pages EXCEPT ![p] = [t |-> cur, m |-> m]]
    BY <2>1
  <2>3. /\ db'.work \in Outer /\ db.work \in Outer /\ db.work.pages \in [Pgno -> Cell]
        /\ cur # 0
    <3>1. db'.work \in Outer /\ db.work \in Outer /\ orig \in Txn
      BY <1>1 DEF TypeOK
    <3>2. orig < cur
      BY <1>0, <1>1 DEF PlanInv
    <3>3. cur # 0
      BY <1>1, <3>1, <3>2, BoundsAssumption DEF Txn
    <3>4. QED
      BY <3>1, <3>3, OuterFields
  <2>4. /\ db'.work.pages[p].t = cur /\ db'.work.pages[p].m = m
        /\ \A q \in Pgno : q # p => db'.work.pages[q] = db.work.pages[q]
    BY <2>2, <2>3
  <2>5. /\ pageCount' \in Nat /\ pageCount' >= pageCount /\ pageCount' >= p
        /\ pageCount \in Nat
    BY <1>1, <2>1, BoundsAssumption DEF TypeOK, Pgno
  <2>6. Sane(db'.work)
    BY <1>0, <1>1, <2>1, <2>2, <2>3, SaneStore DEF ConnInv, FileInv
  <2>7. ConnInv'
    BY <1>0, <1>1, <2>1, <2>6, DurableKept
  <2>8. FileInv'
    <3>1. size[acked] \in Nat
      BY <1>1 DEF TypeOK
    <3>2. pageCount' >= size[acked]
      BY <1>0, <1>1, <2>5, <3>1 DEF FileInv
    <3>3. \A q \in Pgno : db'.work.pages[q].m = "dict" \/ db'.disk.pages[q].m = "dict" => cdict
      BY <1>0, <1>1, <2>1, <2>4 DEF FileInv, StoredAs
    <3>4. QED
      BY <1>0, <1>1, <1>2, <2>1, <3>2, <3>3 DEF FileInv, Busy
  <2>9. PlanInv'
    <3>1. orig = 0 => \A q \in Pgno : Present(db'.work, q) => q <= pageCount'
      BY <1>0, <1>1, <2>4, <2>5, BoundsAssumption DEF PlanInv, Present, Pgno
    <3>2. QED
      BY <1>0, <1>1, <1>2, <3>1 DEF PlanInv, Present
  <2>10. WriteInv'
    <3>1. \A q \in wset \ todo' : db'.work.pages[q].t = cur /\ q <= pageCount'
      <4> SUFFICES ASSUME NEW q \in wset \ todo'
                   PROVE  db'.work.pages[q].t = cur /\ q <= pageCount'
        OBVIOUS
      <4>1. q \in Pgno /\ q \in Nat
        BY <1>1, BoundsAssumption DEF TypeOK, Pgno
      <4>2. q # p => db.work.pages[q].t = cur /\ q <= pageCount
        BY <1>0, <1>1, <1>2 DEF WriteInv
      <4>3. QED
        BY <2>4, <2>5, <4>1, <4>2
    <3>2. \A q \in Pgno \ (wset \ todo') : db'.work.pages[q] = db'.disk.pages[q]
      BY <1>0, <1>1, <1>2, <2>1, <2>4 DEF WriteInv, PlanInv
    <3>3. QED
      BY <1>0, <2>1, <3>1, <3>2 DEF WriteInv
  <2>11. QED
    BY <1>0, <1>1, <1>2, <2>1, <2>7, <2>8, <2>9, <2>10
       DEF IInv, HistInv, UndoInv, DoneInv, OpenTxnInv
<1>3. CASE ZvfsWrite(p, cur, FALSE) /\ StartUndo
  <2>1. /\ db'.disk = db.disk /\ older' = older /\ UNCHANGED <<saved, lock, cdict>>
        /\ ~inTxn' => db'.auto
        /\ pageSize' = pageSize \/ pageSize' = 1
        /\ pageCount' = pageCount /\ LostOrKept(db)
    BY <1>1, <1>3, WriteEffect
  <2>2. QED
    BY <1>0, <1>3, <2>1, UndoStarts DEF OpenTxnInv, LostOrKept
<1>4. QED
  BY <1>2, <1>3 DEF PagerWrite


(***************************************************************************)
(* IInv is preserved while the journal is restored.                        *)
(***************************************************************************)
LEMMA UndoWriteStep ==
    ASSUME IInv, TypeOK', MetaSaved, NEW p \in Pgno, PagerUndoWrite(p)
    PROVE  IInv'
<1>0. /\ UNCHANGED <<size, img, acked, wset, cur, orig, histVars>>
      /\ pc = "undo" /\ p \in todo
  BY DEF histVars, PagerUndoWrite
<1> DEFINE t == img[orig][p]
<1>1. /\ TypeOK /\ HistInv /\ ConnInv /\ FileInv /\ PlanInv /\ WriteInv /\ UndoInv
      /\ OpenTxnInv /\ t \in Txn /\ orig \in Txn
  BY ZenonT(30) DEF IInv, TypeOK
<1>2. CASE ZvfsWrite(p, t, TRUE) /\ todo' = todo \ {p} /\ UNCHANGED pc
  <2>1. /\ db'.disk = db.disk /\ older' = older /\ UNCHANGED <<saved, lock, cdict>>
        /\ inTxn' = TRUE /\ ~db'.auto /\ pageSize' = 1
        /\ pageCount' = IF p > pageCount THEN p ELSE pageCount
        /\ db'.work.dict = db.work.dict
        /\ \E m \in StoredAs(p) :
             db'.work.pages = [db.work.pages EXCEPT ![p] = [t |-> t, m |-> m]]
    BY <1>1, <1>2, WriteEffect
  <2>2. PICK m \in StoredAs(p) :
             db'.work.pages = [db.work.pages EXCEPT ![p] = [t |-> t, m |-> m]]
    BY <2>1
  <2>3. /\ db'.work \in Outer /\ db.work \in Outer /\ db.work.pages \in [Pgno -> Cell]
    BY <1>1, OuterFields DEF TypeOK
  <2> HIDE DEF t
  <2>4. /\ db'.work.pages[p].t = t /\ db'.work.pages[p].m = m
        /\ \A q \in Pgno : q # p => db'.work.pages[q] = db.work.pages[q]
    BY <2>2, <2>3
  <2>5. /\ pageCount' \in Nat /\ pageCount' >= pageCount /\ pageCount' >= p
        /\ pageCount \in Nat
    BY <1>1, <2>1, BoundsAssumption DEF TypeOK, Pgno
  <2>6. Sane(db'.work)
    <3>1. CASE t # 0
      BY <1>0, <1>1, <2>1, <2>2, <2>3, <3>1, SaneStore DEF ConnInv, FileInv
    <3>2. t # 0
      BY <1>0, <1>1 DEF HistInv, UndoInv, t
    <3>3. QED
      BY <3>1, <3>2
  <2>7. ConnInv'
    BY <1>0, <1>1, <2>1, <2>6, DurableKept
  <2>8. FileInv'
    <3>1. size[acked] \in Nat
      BY <1>1 DEF TypeOK
    <3>2. pageCount' >= size[acked]
      BY <1>0, <1>1, <2>5, <3>1 DEF FileInv
    <3>3. \A q \in Pgno : db'.work.pages[q].m = "dict" \/ db'.disk.pages[q].m = "dict" => cdict
      BY <1>0, <1>1, <2>1, <2>4 DEF FileInv, StoredAs
    <3>4. QED
      BY <1>0, <1>1, <1>2, <2>1, <3>2, <3>3 DEF FileInv, Busy
  <2>9. PlanInv'
    <3>1. orig = 0 => \A q \in Pgno : Present(db'.work, q) => q <= pageCount'
      BY <1>0, <1>1, <2>4, <2>5, BoundsAssumption DEF PlanInv, Present, Pgno
    <3>2. QED
      BY <1>0, <1>1, <1>2, <3>1 DEF PlanInv, Present
  <2>10. UndoInv'
    BY <1>0, <1>1, <1>2, <2>4 DEF UndoInv, t
  <2>11. QED
    BY <1>0, <1>1, <1>2, <2>1, <2>7, <2>8, <2>9, <2>10
       DEF IInv, HistInv, WriteInv, DoneInv, OpenTxnInv
<1>3. CASE ZvfsWrite(p, t, FALSE) /\ UndoFailed
  <2>1. /\ db'.disk = db.disk /\ older' = older /\ UNCHANGED <<saved, lock, cdict>>
        /\ ~inTxn' => db'.auto
        /\ pageSize' = pageSize \/ pageSize' = 1
        /\ pageCount' = pageCount /\ LostOrKept(db)
    BY <1>1, <1>3, WriteEffect
  <2>2. OpenTxnInv'
    BY <2>1 DEF LostOrKept, OpenTxnInv
  <2>3. CASE StartUndo
    BY <1>0, <2>1, <2>2, <2>3, UndoStarts DEF LostOrKept
  <2>4. CASE pc' = IF OriginalBack \/ db'.auto THEN "fin" ELSE "half"
    BY <1>0, <2>1, <2>2, <2>4, UndoGivenUp
  <2>5. QED
    BY <1>3, <2>3, <2>4 DEF UndoFailed
<1>4. QED
  BY <1>2, <1>3 DEF PagerUndoWrite


(***************************************************************************)
(* IInv is preserved by the truncation after a commit.                     *)
(***************************************************************************)
LEMMA ShrinkStep ==
    ASSUME IInv, TypeOK', PagerShrink
    PROVE  IInv'
<1>0. /\ UNCHANGED <<size, img, acked, wset, cur, orig, histVars>>
      /\ pc = "synced" /\ pc' = "fin" /\ pageCount > size[cur]
  BY DEF histVars, PagerShrink
<1>1. /\ TypeOK /\ HistInv /\ ConnInv /\ FileInv /\ DoneInv /\ OpenTxnInv
      /\ cur \in Txn /\ size[cur] \in 0..MaxPgno
  BY DEF IInv, TypeOK
<1>2. /\ acked = cur /\ cur # 0 /\ Complete(db.work) /\ HeaderTxn(db.work) = cur
      /\ size[cur] # 0
  BY <1>0, <1>1, BoundsAssumption DEF DoneInv, HistInv, Txn
<1>3. db.work \in Outer /\ db'.work \in Outer /\ db'.disk \in Outer
  BY <1>1 DEF TypeOK
<1>4. PICK ok \in BOOLEAN : ZvfsTruncate(size[cur], ok)
  BY DEF PagerShrink
<1>5. /\ db'.disk = db.disk /\ older' = older
      /\ UNCHANGED <<pageSize, saved, lock, cdict>>
      /\ \/ ok /\ UNCHANGED <<db, inTxn, pageCount>>
         \/ /\ ok /\ inTxn' = TRUE /\ ~db'.auto /\ pageCount' = size[cur]
            /\ db'.work.dict = db.work.dict
            /\ db'.work.pages =
                  [p \in Pgno |-> IF p > size[cur] THEN NoCell ELSE db.work.pages[p]]
         \/ ~ok /\ pageCount' = pageCount /\ (~inTxn' => db'.auto) /\ LostOrKept(db)
  BY <1>1, <1>4, TruncateEffect
<1>6. OpenTxnInv'
  BY <1>1, <1>5 DEF OpenTxnInv, LostOrKept
<1>7. /\ Complete(db'.work) /\ HeaderTxn(db'.work) = cur
      /\ \A p \in Pgno : db'.work.pages[p].m = "dict" => cdict
      /\ db'.work.dict = db.work.dict \/ db'.work = db'.disk
      /\ pageCount' >= size[cur]
  <2>1. CASE UNCHANGED <<db, pageCount>>
    BY <1>0, <1>1, <1>2, <2>1, BoundsAssumption DEF FileInv
  <2>2. CASE /\ pageCount' = size[cur] /\ db'.work.dict = db.work.dict
             /\ db'.work.pages =
                  [p \in Pgno |-> IF p > size[cur] THEN NoCell ELSE db.work.pages[p]]
    <3>1. Sane(db'.work)
      BY <1>1, <1>2, <1>3, <2>2, SaneDelete DEF Complete
    <3>2. \A p \in Pgno : p <= size[cur] => db'.work.pages[p] = db.work.pages[p]
      BY <1>1, <2>2, BoundsAssumption DEF Pgno
    <3>3. 1 \in Pgno /\ 1 <= size[cur]
      BY <1>1, <1>2, BoundsAssumption DEF Pgno
    <3>4. HeaderTxn(db'.work) = cur
      BY <1>2, <3>2, <3>3 DEF HeaderTxn
    <3>5. FullImage(db'.work, cur, size, img)
      BY <1>2, <3>2, <3>4 DEF FullImage, Complete
    <3>6. \A p \in Pgno : db'.work.pages[p].m = "dict" => cdict
      <4>1. NoCell.m # "dict"
        BY DEF NoCell
      <4>2. QED
        BY <1>0, <1>1, <2>2, <4>1 DEF FileInv
    <3>7. QED
      BY <1>1, <2>2, <3>1, <3>4, <3>5, <3>6 DEF Complete
  <2>3. CASE pageCount' = pageCount /\ db'.work = db'.disk
    BY <1>0, <1>1, <1>2, <1>5, <2>3, DiskFacts, BoundsAssumption DEF FileInv, ConnInv, Durable
  <2>4. CASE /\ pageCount' = pageCount
             /\ db'.work.pages = db.work.pages /\ db'.work.dict = db.work.dict
    <3>1. Complete(db'.work) /\ HeaderTxn(db'.work) = cur
      BY <1>2, <1>3, <2>4, SamePages DEF Complete
    <3>2. QED
      BY <1>0, <1>1, <1>2, <2>4, <3>1, BoundsAssumption DEF FileInv
  <2>5. QED
    BY <1>5, <2>1, <2>2, <2>3, <2>4 DEF LostOrKept
<1>8. ConnInv'
  BY <1>0, <1>1, <1>5, <1>7, DurableKept DEF Complete
<1>9. FileInv'
  <2>1. pageSize # 0
    BY <1>0, <1>1, <1>2 DEF FileInv
  <2>2. QED
    BY <1>0, <1>1, <1>2, <1>5, <1>7, <2>1 DEF FileInv, Busy
<1>10. DoneInv'
  BY <1>0, <1>2, <1>7 DEF DoneInv, Complete
<1>11. QED
  BY <1>0, <1>1, <1>6, <1>8, <1>9, <1>10 DEF IInv, HistInv, WriteInv, PlanInv, UndoInv

(***************************************************************************)
(* IInv is preserved by the truncation of an undo; for a database that was *)
(* empty it is this step that removes the header page.                     *)
(***************************************************************************)
LEMMA UndoTruncateStep ==
    ASSUME IInv, TypeOK', PagerUndoTruncate
    PROVE  IInv'
<1>0. /\ UNCHANGED <<size, img, acked, wset, cur, orig, histVars>>
      /\ pc = "undo" /\ todo = {} /\ pageCount > size[orig]
  BY DEF histVars, PagerUndoTruncate
<1>1. /\ TypeOK /\ HistInv /\ ConnInv /\ FileInv /\ PlanInv /\ UndoInv /\ OpenTxnInv
      /\ orig \in Txn /\ size[orig] \in 0..MaxPgno
  BY DEF IInv, TypeOK
<1>2. CASE ZvfsTruncate(size[orig], TRUE) /\ UNCHANGED <<pc, todo>>
  <2>1. /\ db'.disk = db.disk /\ older' = older
        /\ UNCHANGED <<pageSize, saved, lock, cdict>>
        /\ \/ UNCHANGED <<db, inTxn, pageCount>>
           \/ /\ inTxn' = TRUE /\ ~db'.auto /\ pageCount' = size[orig]
              /\ db'.work.dict = db.work.dict
              /\ db'.work.pages =
                    [p \in Pgno |-> IF p > size[orig] THEN NoCell ELSE db.work.pages[p]]
    BY <1>1, <1>2, TruncateEffect
  <2>2. CASE UNCHANGED <<db, inTxn, pageCount>>
    <3>1. UNCHANGED vars
      BY <1>0, <1>2, <2>1, <2>2 DEF vars, fileVars, pagerVars, histVars
    <3>2. QED
      BY <1>0, <1>2, <2>1, <2>2, DurableKept
         DEF IInv, HistInv, OpenTxnInv, FileInv, PlanInv, WriteInv, UndoInv, DoneInv, ConnInv
  <2>3. CASE /\ inTxn' = TRUE /\ ~db'.auto /\ pageCount' = size[orig]
             /\ db'.work.dict = db.work.dict
             /\ db'.work.pages =
                  [p \in Pgno |-> IF p > size[orig] THEN NoCell ELSE db.work.pages[p]]
    <3>1. db.work \in Outer /\ db'.work \in Outer
      BY <1>1 DEF TypeOK
    <3>2. Sane(db'.work)
      BY <1>1, <2>3, <3>1, SaneDelete DEF ConnInv
    <3>3. /\ \A p \in Pgno : p <= size[orig] => db'.work.pages[p] = db.work.pages[p]
          /\ \A p \in Pgno : db'.work.pages[p] = db.work.pages[p]
                             \/ db'.work.pages[p] = NoCell
      <4>1. \A p \in Pgno : p \in Int
        BY DEF Pgno
      <4>2. QED
        BY <1>1, <2>3, <4>1
    <3>4. NoCell.m = "none" /\ NoCell.t = 0
      BY DEF NoCell
    <3>5. ConnInv'
      BY <1>0, <1>1, <2>1, <3>2, DurableKept
    <3>6. FileInv'
      <4>1. \A p \in Pgno : db'.work.pages[p].m = "dict" \/ db'.disk.pages[p].m = "dict" => cdict
        BY <1>0, <1>1, <2>1, <3>3, <3>4 DEF FileInv
      <4>2. orig = acked
        BY <1>0, <1>1 DEF PlanInv
      <4>3. HeaderTxn(db.work) = 0 => HeaderTxn(db'.work) = 0
        BY <3>3, <3>4, BoundsAssumption DEF HeaderTxn, Pgno
      <4>4. QED
        BY <1>0, <1>1, <1>2, <2>1, <2>3, <4>1, <4>2, <4>3 DEF FileInv, Busy, HeaderTxn
    <3>7. PlanInv'
      <4>1. orig = 0 => \A p \in Pgno : ~Present(db'.work, p)
        <5> SUFFICES ASSUME orig = 0, NEW p \in Pgno PROVE db'.work.pages[p] = NoCell
          BY <3>4 DEF Present
        <5>1. size[orig] = 0
          BY <1>1 DEF HistInv
        <5>2. QED
          BY <2>3, <5>1, BoundsAssumption DEF Pgno
      <4>2. QED
        BY <1>0, <1>1, <1>2, <4>1 DEF PlanInv, Present
    <3>8. UndoInv'
      BY <1>0, <1>1, <1>2, <3>3 DEF UndoInv
    <3>9. QED
      BY <1>0, <1>1, <1>2, <2>3, <3>5, <3>6, <3>7, <3>8
         DEF IInv, HistInv, WriteInv, DoneInv, OpenTxnInv
  <2>4. QED
    BY <2>1, <2>2, <2>3
<1>3. CASE ZvfsTruncate(size[orig], FALSE) /\ UndoFailed
  <2>1. /\ db'.disk = db.disk /\ older' = older
        /\ UNCHANGED <<pageSize, saved, lock, cdict>>
        /\ pageCount' = pageCount /\ (~inTxn' => db'.auto) /\ LostOrKept(db)
    BY <1>1, <1>3, TruncateEffect
  <2>2. OpenTxnInv'
    BY <2>1 DEF LostOrKept, OpenTxnInv
  <2>3. CASE StartUndo
    BY <1>0, <2>1, <2>2, <2>3, UndoStarts DEF LostOrKept
  <2>4. CASE pc' = IF OriginalBack \/ db'.auto THEN "fin" ELSE "half"
    BY <1>0, <2>1, <2>2, <2>4, UndoGivenUp
  <2>5. QED
    BY <1>3, <2>3, <2>4 DEF UndoFailed
<1>4. QED
  BY <1>2, <1>3 DEF PagerUndoTruncate

(***************************************************************************)
(* A commit of a complete state keeps everything a crash can bring back    *)
(* complete.                                                               *)
(***************************************************************************)
LEMMA WalComplete ==
    ASSUME ConnInv, NoteWal, UNCHANGED <<cur, size, img>>, Complete(db'.disk)
    PROVE  (\A d \in Durable : Complete(d))'
BY DEF ConnInv, NoteWal, Durable, Complete

(***************************************************************************)
(* IInv is preserved by the pager's commit: when the last page is written, *)
(* the outer transaction holds the complete new image.                     *)
(***************************************************************************)
LEMMA CommitStep ==
    ASSUME IInv, TypeOK', PagerCommit
    PROVE  IInv'
<1>0. UNCHANGED <<size, img, wset, cur, orig>> /\ pc = "write" /\ todo = {}
  BY DEF PagerCommit, histVars
<1>1. /\ TypeOK /\ HistInv /\ ConnInv /\ FileInv /\ PlanInv /\ WriteInv /\ OpenTxnInv
      /\ cur \in Txn /\ orig \in Txn
  BY DEF IInv, TypeOK
<1>2. CASE ZvfsSync(TRUE) /\ pc' = "synced" /\ acked' = cur
  <2>1. /\ db'.work = db'.disk /\ (~inTxn' => db'.auto)
        /\ UNCHANGED <<pageSize, pageCount, lock, cdict>> /\ NoteWal
        /\ TookWork
    <3>1. inTxn
      BY <1>0, <1>1 DEF WriteInv
    <3>2. QED
      BY <1>1, <1>2, <3>1, SyncEffect
  <2>2. /\ db.work \in Outer /\ db'.disk \in Outer /\ cur # 0 /\ orig < cur /\ 1 \in wset
        /\ size[cur] \in 0..MaxPgno /\ size[orig] \in 0..MaxPgno /\ pageCount \in Nat
    <3>1. /\ db.work \in Outer /\ db'.disk \in Outer /\ pageCount \in Nat
          /\ size[cur] \in 0..MaxPgno /\ size[orig] \in 0..MaxPgno
      BY <1>0, <1>1 DEF TypeOK
    <3>2. orig < cur /\ 1 \in wset
      BY <1>0, <1>1 DEF PlanInv
    <3>3. cur # 0
      BY <1>1, <3>2, BoundsAssumption DEF Txn
    <3>4. QED
      BY <3>1, <3>2, <3>3
  <2>3. Sane(db.work) /\ HeaderTxn(db.work) = cur
    BY <1>0, <1>1, <2>2 DEF ConnInv, WriteInv, HeaderTxn
  <2>4. \A p \in Pgno : p <= size[cur] => db.work.pages[p].t = img[cur][p]
    <3> SUFFICES ASSUME NEW p \in Pgno, p <= size[cur]
                 PROVE  db.work.pages[p].t = img[cur][p]
      OBVIOUS
    <3>1. CASE p \in wset
      BY <1>0, <1>1, <3>1 DEF PlanInv, WriteInv
    <3>2. CASE p \notin wset
      <4>1. p <= size[acked] /\ img[cur][p] = img[acked][p]
        BY <1>0, <1>1, <3>2 DEF PlanInv
      <4>2. db.disk.pages[p].t = img[acked][p]
        BY <1>1, <4>1, DiskFacts
      <4>3. QED
        BY <1>0, <1>1, <3>2, <4>1, <4>2 DEF WriteInv
    <3>3. QED
      BY <3>1, <3>2
  <2>5. Complete(db.work)
    BY <1>1, <2>2, <2>3, <2>4, BoundsAssumption DEF Complete, FullImage, Txn
  <2>6. Complete(db'.disk) /\ HeaderTxn(db'.disk) = cur
    BY <2>1, <2>2, <2>3, <2>5, SamePages DEF Complete, TookWork
  <2>7. ConnInv'
    BY <1>0, <1>1, <1>2, <2>1, <2>6, WalComplete DEF ConnInv, Complete
  <2>8. FileInv'
    <3>1. pageCount >= size[cur]
      <4>1. size[cur] # 0 /\ size[cur] \in Pgno
        BY <1>1, <2>2, BoundsAssumption DEF HistInv, Pgno, Txn
      <4>2. size[cur] \in wset => size[cur] <= pageCount
        BY <1>0, <1>1 DEF WriteInv
      <4>3. size[cur] \notin wset => size[cur] <= size[acked]
        BY <1>0, <1>1, <2>2, <4>1 DEF PlanInv
      <4>4. size[acked] <= pageCount /\ size[acked] \in Nat
        BY <1>0, <1>1 DEF FileInv, TypeOK
      <4>5. QED
        BY <2>2, <4>2, <4>3, <4>4
    <3>2. pageSize # 0
      BY <1>0, <1>1, <2>2, <2>3 DEF FileInv
    <3>3. db'.disk.dict = db.work.dict /\ db'.disk.pages = db.work.pages
      BY <2>1 DEF TookWork
    <3>4. QED
      BY <1>0, <1>1, <1>2, <2>1, <3>1, <3>2, <3>3 DEF FileInv, Busy
  <2>9. DoneInv'
    BY <1>0, <1>2, <2>1, <2>2, <2>6 DEF DoneInv, Complete
  <2>10. QED
    BY <1>0, <1>1, <1>2, <2>1, <2>7, <2>8, <2>9
       DEF IInv, HistInv, OpenTxnInv, PlanInv, WriteInv, UndoInv
<1>3. CASE ZvfsSync(FALSE) /\ StartUndo /\ UNCHANGED histVars
  <2>1. /\ db'.work = db'.disk /\ (~inTxn' => db'.auto)
        /\ UNCHANGED <<pageSize, pageCount, lock, cdict>> /\ NoteWal
        /\ db'.disk = db.disk
    BY <1>1, <1>3, SyncEffect
  <2>2. older' = older
    BY <2>1 DEF NoteWal
  <2>3. QED
    BY <1>0, <1>3, <2>1, <2>2, UndoStarts DEF OpenTxnInv
<1>4. QED
  BY <1>2, <1>3 DEF PagerCommit

(***************************************************************************)
(* IInv is preserved by the sync that ends an undo.                        *)
(***************************************************************************)
LEMMA UndoSyncStep ==
    ASSUME IInv, TypeOK', PagerUndoSync
    PROVE  IInv'
<1>0. /\ UNCHANGED <<size, img, acked, wset, cur, orig, todo>>
      /\ pc = "undo" /\ todo = {} /\ pageCount <= size[orig] /\ pc' = "fin"
  BY DEF histVars, PagerUndoSync
<1>1. TypeOK /\ HistInv /\ ConnInv /\ FileInv /\ OpenTxnInv
  BY DEF IInv
<1>2. Complete(db.work) /\ HeaderTxn(db.work) = acked
  BY <1>0, UndoneImage
<1>3. /\ db'.work = db'.disk /\ (~inTxn' => db'.auto)
      /\ UNCHANGED <<pageSize, pageCount, lock, cdict>> /\ NoteWal
      /\ db'.disk = db.disk \/ TookWork
  BY <1>1, SyncEffect DEF PagerUndoSync
<1>4. Complete(db'.disk) /\ HeaderTxn(db'.disk) = acked
  <2>1. db.work \in Outer /\ db'.disk \in Outer
    BY <1>1 DEF TypeOK
  <2>2. QED
    BY <1>1, <1>2, <1>3, <2>1, SamePages DEF Complete, TookWork, ConnInv, Durable
<1>5. ConnInv'
  BY <1>0, <1>1, <1>3, <1>4, WalComplete DEF ConnInv, Complete
<1>6. FileInv'
  BY <1>0, <1>1, <1>2, <1>3, <1>4 DEF FileInv, Busy, TookWork
<1>7. DoneInv'
  BY <1>0, <1>3, <1>4 DEF DoneInv, Complete
<1>8. QED
  BY <1>0, <1>1, <1>3, <1>5, <1>6, <1>7
     DEF IInv, HistInv, OpenTxnInv, PlanInv, WriteInv, UndoInv

(***************************************************************************)
(* IInv is preserved by zvfs_unlock, which commits what the connection     *)
(* holds, unless that is a transaction half undone.                        *)
(***************************************************************************)
LEMMA UnlockStep ==
    ASSUME IInv, TypeOK', PagerUnlock, ~torn'
    PROVE  IInv'
<1>0. /\ UNCHANGED <<size, img, acked, wset, cur, orig>>
      /\ pc \in {"fin", "synced", "half"} /\ pc' = "idle"
      /\ pc = "half" => db'.disk = db.disk
  BY DEF PagerUnlock
<1>1. TypeOK /\ HistInv /\ ConnInv /\ FileInv /\ OpenTxnInv /\ lock = 2
  BY <1>0 DEF IInv, FileInv, Busy
<1>2. pc # "half" => Complete(db.work) /\ HeaderTxn(db.work) = acked
  BY <1>0 DEF IInv, DoneInv
<1>3. /\ db'.work = db'.disk /\ db'.auto /\ inTxn' = FALSE /\ lock' = 0
      /\ UNCHANGED <<pageSize, pageCount, cdict>> /\ NoteWal
      /\ db'.disk = db.disk \/ TookWork
  BY <1>1, UnlockEffect DEF PagerUnlock
<1>4. Complete(db'.disk) /\ HeaderTxn(db'.disk) = acked
  <2>1. db.work \in Outer /\ db'.disk \in Outer
    BY <1>1 DEF TypeOK
  <2>2. Complete(db.disk) /\ HeaderTxn(db.disk) = acked
    BY <1>1 DEF ConnInv, Durable
  <2>3. CASE db'.disk = db.disk
    BY <2>2, <2>3
  <2>4. CASE db'.disk # db.disk
    BY <1>0, <1>2, <1>3, <2>1, <2>4, SamePages DEF Complete, TookWork
  <2>5. QED
    BY <2>3, <2>4
<1>5. ConnInv'
  BY <1>0, <1>1, <1>3, <1>4, WalComplete DEF ConnInv, Complete
<1>6. FileInv'
  BY <1>0, <1>1, <1>2, <1>3, <1>4 DEF FileInv, Busy, TookWork
<1>7. QED
  BY <1>0, <1>1, <1>3, <1>5, <1>6
     DEF IInv, HistInv, OpenTxnInv, PlanInv, WriteInv, UndoInv, DoneInv


(***************************************************************************)
(* zvfs_lock changes neither the committed nor the private state.          *)
(***************************************************************************)
LEMMA LockEffect ==
    ASSUME TypeOK, OpenTxnInv, NEW ok \in BOOLEAN, ZvfsLock(ok)
    PROVE  /\ db'.disk = db.disk /\ db'.work = db.work
           /\ UNCHANGED <<older, pageSize, pageCount, saved, cdict>>
           /\ ok => inTxn' = TRUE /\ lock' = 2 /\ ~db'.auto
           /\ ~ok => inTxn' = FALSE /\ lock' = lock /\ db' = db /\ db.auto
<1>1. db.auto \in BOOLEAN /\ inTxn \in BOOLEAN
  BY DEF TypeOK
<1>2. CASE ok
  BY <1>2, BeginEffect DEF ZvfsLock
<1>3. CASE ~ok
  BY <1>1, <1>3 DEF ZvfsLock, BeginMayFail, OpenTxnInv
<1>4. QED
  BY <1>2, <1>3

(***************************************************************************)
(* IInv is preserved by the start of an inner transaction: its number is   *)
(* fresh, so every committed state keeps its image.                        *)
(***************************************************************************)
LEMMA BeginStep ==
    ASSUME IInv, TypeOK', NEW n \in Pgno, NEW W \in SUBSET Pgno, PagerBegin(n, W)
    PROVE  IInv'
<1>0. pc = "idle" /\ cur < MaxTxn /\ W \subseteq 1..n /\ 1 \in W
  BY DEF PagerBegin
<1>1. /\ TypeOK /\ HistInv /\ ConnInv /\ FileInv /\ OpenTxnInv
      /\ cur \in Txn /\ cur \in Nat /\ cur + 1 \in Txn /\ inTxn \in BOOLEAN
  <2>1. TypeOK /\ HistInv /\ ConnInv /\ FileInv /\ OpenTxnInv
    BY DEF IInv
  <2>2. cur \in Txn /\ inTxn \in BOOLEAN
    BY <2>1 DEF TypeOK
  <2>3. cur \in Nat /\ cur + 1 \in Txn
    BY <1>0, <2>2, BoundsAssumption DEF Txn
  <2>4. QED
    BY <2>1, <2>2, <2>3
<1>2. ~inTxn /\ db.auto /\ db.work = db.disk /\ lock = 0
  BY <1>0, <1>1 DEF FileInv, OpenTxnInv, Busy
<1> DEFINE base == HeaderTxn(db.work)
           new == [p \in Pgno |-> IF p \in W THEN cur + 1
                                  ELSE IF p <= n THEN img[base][p] ELSE 0]
<1>3. base = acked /\ acked \in Txn /\ acked <= cur /\ acked \in Nat
  <2>1. base = acked /\ acked <= cur /\ acked \in Txn
    BY <1>1, <1>2, DiskFacts DEF TypeOK
  <2>2. QED
    BY <2>1, BoundsAssumption DEF Txn
<1>4. CASE /\ ZvfsLock(TRUE)
           /\ pc' = "write" /\ todo' = W /\ wset' = W
           /\ cur' = cur + 1 /\ orig' = base
           /\ size' = [size EXCEPT ![cur + 1] = n]
           /\ img' = [img EXCEPT ![cur + 1] = new]
           /\ UNCHANGED <<acked, torn>>
  <2>0. \A p \in 1..n : p > size[base] => p \in W
    BY DEF PagerBegin
  <2> HIDE DEF base, new
  <2>1. /\ db'.disk = db.disk /\ db'.work = db.work
        /\ UNCHANGED <<older, pageSize, pageCount, saved, cdict>>
        /\ inTxn' = TRUE /\ lock' = 2 /\ ~db'.auto
    BY <1>1, <1>4, LockEffect
  <2>2. /\ size \in [Txn -> 0..MaxPgno] /\ img \in [Txn -> [Pgno -> Txn]]
        /\ n \in Nat /\ n # 0
    <3>1. size \in [Txn -> 0..MaxPgno] /\ img \in [Txn -> [Pgno -> Txn]]
      BY <1>1 DEF TypeOK
    <3>2. n \in Nat /\ n # 0
      BY BoundsAssumption DEF Pgno
    <3>3. QED
      BY <3>1, <3>2
  <2>3. /\ size'[cur + 1] = n /\ img'[cur + 1] = new
        /\ \A t \in Txn : t # cur + 1 => size'[t] = size[t] /\ img'[t] = img[t]
    BY <1>1, <1>4, <2>2
  <2>4. \A t \in Txn : t <= cur => t # cur + 1
    BY <1>1, BoundsAssumption DEF Txn
  <2>5. ASSUME NEW p \in Pgno
        PROVE  /\ p \in Int /\ p >= 1
               /\ p \in W => p <= n /\ new[p] = cur + 1
               /\ p \notin W /\ p <= n => p <= size[base] /\ new[p] = img[base][p]
               /\ p \notin W /\ ~(p <= n) => new[p] = 0
    <3>1. p \in Int /\ p >= 1
      BY BoundsAssumption DEF Pgno
    <3>2. p \in W => p <= n
      BY <1>0
    <3>3. p \notin W /\ p <= n => p <= size[base]
      BY <2>0, <2>2, <3>1, <1>3
    <3>4. QED
      BY <3>1, <3>2, <3>3 DEF new
  <2>6. HistInv'
    <3>1. size'[0] = 0
      BY <1>1, <2>3, BoundsAssumption DEF HistInv, Txn
    <3>2. ASSUME NEW t \in Txn, t # 0, t <= cur + 1
          PROVE  size'[t] # 0 /\ img'[t][1] = t
      <4>1. CASE t = cur + 1
        BY <1>0, <2>2, <2>3, <2>5, <4>1
      <4>2. CASE t # cur + 1
        <5>1. t <= cur
          BY <1>1, <3>2, <4>2, BoundsAssumption DEF Txn
        <5>2. QED
          BY <1>1, <2>3, <3>2, <4>2, <5>1 DEF HistInv
      <4>3. QED
        BY <4>1, <4>2
    <3>3. ASSUME NEW t \in Txn, NEW p \in Pgno
          PROVE  img'[t][p] # 0 <=> p <= size'[t]
      <4>1. CASE t = cur + 1
        <5>1. CASE p \in W
          BY <1>1, <2>3, <2>5, <4>1, <5>1
        <5>2. CASE p \notin W /\ p <= n
          BY <1>1, <1>3, <2>3, <2>5, <4>1, <5>2 DEF HistInv
        <5>3. CASE p \notin W /\ ~(p <= n)
          BY <2>3, <2>5, <4>1, <5>3
        <5>4. QED
          BY <5>1, <5>2, <5>3
      <4>2. CASE t # cur + 1
        BY <1>1, <2>3, <4>2 DEF HistInv
      <4>3. QED
        BY <4>1, <4>2
    <3>4. QED
      BY <1>4, <3>1, <3>2, <3>3 DEF HistInv
  <2>7. ConnInv'
    <3>1. \A d \in Durable : d \in Outer /\ Complete(d)
      BY <1>1 DEF ConnInv, Durable, TypeOK
    <3>2. ASSUME NEW d \in Outer, Complete(d)
          PROVE  FullImage(d, cur', size', img')
      <4>1. HeaderTxn(d) \in Txn /\ HeaderTxn(d) <= cur
        BY <3>2, HeaderType DEF Complete, FullImage
      <4>2. size'[HeaderTxn(d)] = size[HeaderTxn(d)] /\ img'[HeaderTxn(d)] = img[HeaderTxn(d)]
        BY <2>3, <2>4, <4>1
      <4>3. HeaderTxn(d) <= cur'
        BY <1>1, <1>4, <4>1, BoundsAssumption DEF Txn
      <4>4. QED
        BY <3>2, <4>2, <4>3 DEF Complete, FullImage
    <3>3. QED
      BY <1>1, <1>4, <2>1, <3>1, <3>2 DEF ConnInv, Durable, Complete, HeaderTxn
  <2>8. FileInv'
    <3>1. size'[acked'] = size[acked]
      BY <1>3, <1>4, <2>3, <2>4
    <3>2. QED
      BY <1>0, <1>1, <1>4, <2>1, <3>1 DEF FileInv, Busy, HeaderTxn
  <2>9. PlanInv'
    <3>1. orig' = acked' /\ orig' < cur'
      BY <1>1, <1>3, <1>4
    <3>2. /\ size'[cur'] = n /\ img'[cur'] = new
          /\ size'[orig'] = size[base] /\ img'[orig'] = img[base]
      BY <1>1, <1>3, <1>4, <2>3, <2>4
    <3>3. \A p \in W : p <= size'[cur'] /\ img'[cur'][p] = cur'
      BY <1>4, <2>5, <3>2
    <3>4. \A p \in Pgno \ W : p <= size'[cur'] =>
               p <= size'[orig'] /\ img'[cur'][p] = img'[orig'][p]
      BY <2>5, <3>2
    <3>5. orig' = 0 => \A p \in Pgno : ~Present(db'.work, p)
      BY <1>1, <1>2, <1>3, <1>4, <2>1, DiskFacts DEF Present
    <3>6. QED
      BY <1>0, <1>4, <3>1, <3>3, <3>4, <3>5 DEF PlanInv, Present
  <2>10. WriteInv'
    BY <1>2, <1>4, <2>1 DEF WriteInv
  <2>11. QED
    BY <1>4, <2>1, <2>6, <2>7, <2>8, <2>9, <2>10
       DEF IInv, OpenTxnInv, UndoInv, DoneInv
<1>5. CASE ZvfsLock(FALSE) /\ UNCHANGED <<pagerVars, histVars>>
  <2>1. UNCHANGED <<db, older, pageSize, pageCount, saved, cdict, lock>> /\ inTxn' = FALSE
    BY <1>1, <1>5, LockEffect
  <2>2. UNCHANGED <<pc, todo, wset, cur, orig, size, img, acked>>
    BY <1>5 DEF pagerVars, histVars
  <2>3. ConnInv'
    BY <1>1, <2>1, <2>2, DurableKept DEF ConnInv
  <2>4. QED
    BY <1>0, <1>1, <1>2, <2>1, <2>2, <2>3
       DEF IInv, HistInv, OpenTxnInv, FileInv, PlanInv, WriteInv, UndoInv, DoneInv, Busy
<1>6. QED
  BY <1>4, <1>5 DEF PagerBegin

(***************************************************************************)
(* A complete state is whole and can be opened by outer_db_init.           *)
(***************************************************************************)
LEMMA CompleteOpenable ==
    ASSUME TypeOK, HistInv, NEW d \in Outer, Complete(d)
    PROVE  Whole(d) /\ Openable(d)
<1>1. /\ HeaderTxn(d) \in Txn /\ 1 \in Pgno /\ size[HeaderTxn(d)] \in 0..MaxPgno
      /\ d.pages \in [Pgno -> Cell]
  BY HeaderType, OuterFields DEF TypeOK
<1>2. Present(d, 1) <=> HeaderTxn(d) # 0
  BY <1>1 DEF Complete, Sane, HeaderTxn
<1>3. ~Present(d, 1) => \A p \in Pgno : ~Present(d, p)
  BY <1>2 DEF Complete, FullImage, Sane
<1>4. Whole(d)
  BY <1>3 DEF Whole, Complete, FullImage
<1>5. MaxPg(d) >= 1 => PageSizeKnown(d)
  <2> SUFFICES ASSUME MaxPg(d) >= 1 PROVE d.pages[1].m = "raw"
    BY DEF PageSizeKnown
  <2>1. MaxPg(d) \in Pgno /\ Present(d, MaxPg(d))
    BY MaxPgProps, BoundsAssumption DEF Pgno
  <2>2. QED
    BY <1>3, <2>1 DEF Complete, Sane
<1>6. MaxPg(d) >= size[HeaderTxn(d)]
  <2>1. CASE size[HeaderTxn(d)] = 0
    BY <2>1, MaxPgProps, BoundsAssumption
  <2>2. CASE size[HeaderTxn(d)] # 0
    <3> DEFINE z == size[HeaderTxn(d)]
    <3>1. z \in Pgno /\ z \in Int
      BY <1>1, <2>2, BoundsAssumption DEF Pgno
    <3>2. d.pages[z].t = img[HeaderTxn(d)][z] /\ img[HeaderTxn(d)][z] # 0
      BY <1>1, <3>1 DEF Complete, FullImage, HistInv
    <3>3. Present(d, z)
      BY <3>1, <3>2 DEF Complete, Sane
    <3>4. QED
      BY <3>1, <3>3, MaxPgProps, BoundsAssumption
  <2>3. QED
    BY <2>1, <2>2
<1>7. QED
  BY <1>4, <1>5, <1>6 DEF Openable, Complete, Sane

(***************************************************************************)
(* IInv is preserved by outer_db_init, which never refuses the database.   *)
(***************************************************************************)
LEMMA OpenStep ==
    ASSUME IInv, TypeOK', Open
    PROVE  IInv'
<1>0. /\ UNCHANGED <<db, older, todo, wset, cur, orig, size, img, acked>>
      /\ pc \in {"closed", "refused"} /\ inTxn' = FALSE /\ lock' = 0 /\ cdict' = db.disk.dict
      /\ pageCount' = MaxPg(db.disk)
      /\ pageSize' = IF PageSizeKnown(db.disk) THEN 1 ELSE 0
      /\ pc' = IF pageSize' = 0 /\ MaxPg(db.disk) >= 1 THEN "refused" ELSE "idle"
  BY DEF Open, histVars, DerivedPageCount
<1>1. /\ TypeOK /\ HistInv /\ ConnInv /\ FileInv /\ OpenTxnInv
  BY DEF IInv
<1>2. db.auto /\ db.work = db.disk /\ ~inTxn
  BY <1>0, <1>1 DEF FileInv, Busy, OpenTxnInv
<1>3. /\ db.disk \in Outer /\ Complete(db.disk) /\ Openable(db.disk)
      /\ HeaderTxn(db.disk) = acked
  BY <1>1, DiskFacts, CompleteOpenable DEF ConnInv, Durable
<1>4. pc' = "idle"
  BY <1>0, <1>3 DEF Openable
<1>5. ConnInv'
  BY <1>0, <1>1, DurableKept DEF ConnInv
<1>6. FileInv'
  <2>1. pageSize' = 0 => HeaderTxn(db.disk) = 0
    <3>1. ~PageSizeKnown(db.disk) => HeaderTxn(db.disk) = 0
      BY <1>3, HeaderType DEF PageSizeKnown, Complete, Sane, HeaderTxn, Present
    <3>2. QED
      BY <1>0, <3>1
  <2>2. pageCount' >= size[acked]
    BY <1>0, <1>3 DEF Openable
  <2>3. \A p \in Pgno : db.disk.pages[p].m = "dict" => cdict'
    BY <1>0, <1>3 DEF Openable
  <2>4. QED
    BY <1>0, <1>2, <1>4, <2>1, <2>2, <2>3 DEF FileInv, Busy, HeaderTxn
<1>7. QED
  BY <1>0, <1>1, <1>2, <1>4, <1>5, <1>6
     DEF IInv, HistInv, OpenTxnInv, PlanInv, WriteInv, UndoInv, DoneInv

(***************************************************************************)
(* Nothing but the committed states and the history survives the process.  *)
(***************************************************************************)
LEMMA DeadStep ==
    ASSUME IInv, TypeOK', Dead, db'.auto, db'.work = db'.disk, ConnInv'
    PROVE  IInv'
BY DEF IInv, Dead, HistInv, OpenTxnInv, FileInv, PlanInv, WriteInv, UndoInv, DoneInv, Busy

(***************************************************************************)
(* IInv is preserved by zvfs_close; the dictionary it may train is only    *)
(* added.                                                                  *)
(***************************************************************************)
LEMMA CloseStep ==
    ASSUME IInv, TypeOK', Close
    PROVE  IInv' /\ db'.disk.pages = db.disk.pages
<1>0. /\ UNCHANGED <<cur, size, img, acked>> /\ pc = "idle" /\ older' = {} /\ Dead
  BY DEF Close, Dead
<1>1. /\ TypeOK /\ HistInv /\ ConnInv /\ FileInv /\ OpenTxnInv
  BY DEF IInv
<1>2. db.auto /\ db.work = db.disk /\ ~inTxn
  BY <1>0, <1>1 DEF FileInv, Busy, OpenTxnInv
<1>3. PICK c \in CommitOuter(db, inTxn) : \E d \in TrainDictionary(c.s.work) :
            db' = Apply(c.s, OuterState(d.pages, IF pageSize > 0 THEN 1 ELSE d.ps,
                                        IF pageCount > 0 THEN pageCount ELSE d.pc, d.dict))
  BY DEF Close
<1>4. c.s = db
  BY <1>2 DEF CommitOuter
<1>5. PICK d \in TrainDictionary(db.disk) :
            db' = Apply(db, OuterState(d.pages, IF pageSize > 0 THEN 1 ELSE d.ps,
                                       IF pageCount > 0 THEN pageCount ELSE d.pc, d.dict))
  BY <1>2, <1>3, <1>4
<1>6. d.pages = db.disk.pages /\ (db.disk.dict => d.dict)
  BY DEF TrainDictionary, OuterState
<1>7. /\ db'.auto /\ db'.work = db'.disk /\ db'.disk.pages = db.disk.pages
      /\ db.disk.dict => db'.disk.dict
  BY <1>2, <1>5, <1>6, OuterParts DEF Apply, ConnState
<1>8. Complete(db'.disk) /\ HeaderTxn(db'.disk) = acked
  <2>1. Complete(db.disk) /\ HeaderTxn(db.disk) = acked
    BY <1>1 DEF ConnInv, Durable
  <2>2. QED
    BY <1>7, <2>1 DEF Complete, Sane, FullImage, HeaderTxn, Present
<1>9. ConnInv'
  BY <1>0, <1>7, <1>8 DEF ConnInv, Durable, Complete
<1>10. QED
  BY <1>0, <1>7, <1>9, DeadStep

(***************************************************************************)
(* IInv is preserved by a kill of the process.                             *)
(***************************************************************************)
LEMMA CrashStep ==
    ASSUME IInv, TypeOK', Crash
    PROVE  IInv' /\ db'.disk = db.disk
<1>0. /\ UNCHANGED <<cur, size, img, acked, older>> /\ Dead /\ db' = RolledBack(db)
  BY DEF Crash, Dead
<1>1. TypeOK /\ ConnInv
  BY DEF IInv
<1>2. db'.auto /\ db'.work = db'.disk /\ db'.disk = db.disk
  BY <1>0 DEF RolledBack, ConnState
<1>3. ConnInv'
  BY <1>0, <1>1, <1>2, DiskFacts, DurableKept
<1>4. QED
  BY <1>0, <1>2, <1>3, DeadStep

(***************************************************************************)
(* IInv is preserved by a loss of power, which brings back a state of the  *)
(* WAL.                                                                    *)
(***************************************************************************)
LEMMA PowerLossStep ==
    ASSUME IInv, TypeOK', PowerLoss
    PROVE  IInv' /\ db'.disk \in older
<1>0. UNCHANGED <<cur, size, img>> /\ Dead /\ older' = {}
  BY DEF PowerLoss, Dead
<1>1. TypeOK /\ ConnInv
  BY DEF IInv
<1>2. PICK d \in older : db' = Committed(d) /\ acked' = HeaderTxn(d)
  BY DEF PowerLoss
<1>3. db'.auto /\ db'.work = d /\ db'.disk = d
  BY <1>2 DEF Committed, ConnState
<1>4. ConnInv'
  BY <1>0, <1>1, <1>2, <1>3 DEF ConnInv, Durable, Complete
<1>5. QED
  BY <1>0, <1>3, <1>4, DeadStep

(***************************************************************************)
(* IInv holds of an empty database.                                        *)
(***************************************************************************)
LEMMA InvInit == Init => IInv
<1> SUFFICES ASSUME Init PROVE IInv
  OBVIOUS
<1>1. TypeOK
  BY TypeInit
<1>2. 0 \in Txn /\ 1 \in Pgno
  BY BoundsAssumption DEF Txn, Pgno
<1>3. /\ db.disk = EmptyOuter /\ db.work = EmptyOuter /\ db.auto /\ ~inTxn
      /\ older = {} /\ pc = "closed" /\ lock = 0 /\ cur = 0 /\ acked = 0
      /\ size = [t \in Txn |-> 0] /\ img = [t \in Txn |-> [p \in Pgno |-> 0]]
  BY DEF Init
<1>4. \A p \in Pgno : EmptyOuter.pages[p].t = 0 /\ EmptyOuter.pages[p].m = "none"
  BY DEF EmptyOuter, NoCell
<1>5. HistInv
  BY <1>2, <1>3, BoundsAssumption DEF HistInv, Txn, Pgno
<1>6. HeaderTxn(EmptyOuter) = 0 /\ Sane(EmptyOuter)
  BY <1>2, <1>4 DEF HeaderTxn, Sane, Present
<1>7. Complete(EmptyOuter)
  BY <1>2, <1>3, <1>4, <1>6 DEF Complete, FullImage
<1>8. QED
  BY <1>1, <1>3, <1>5, <1>6, <1>7
     DEF IInv, OpenTxnInv, ConnInv, Durable, FileInv, Busy, PlanInv, WriteInv, UndoInv, DoneInv

(***************************************************************************)
(* IInv is inductive, when the meta rows can be saved and no commit tears  *)
(* a transaction.                                                          *)
(***************************************************************************)
LEMMA InvStep ==
    ASSUME MetaSaved, IInv, [Next]_vars, ~torn'
    PROVE  IInv'
<1>0. TypeOK /\ TypeOK'
  BY TypeStep DEF IInv
<1>1. CASE PagerReadError \/ PagerRollback
  <2>1. /\ UNCHANGED <<older, inTxn, pageSize, pageCount, saved, lock, cdict>>
        /\ UNCHANGED <<wset, cur, orig, histVars>> /\ StartUndo /\ pc = "write"
        /\ db' = db \/ db' = RolledBack(db)
    BY <1>1 DEF PagerReadError, PagerRollback, fileVars
  <2>2. /\ db'.disk = db.disk /\ OpenTxnInv'
        /\ db'.work = db'.disk \/ db' = db
    BY <2>1 DEF RolledBack, ConnState, IInv, OpenTxnInv
  <2>3. QED
    BY <1>0, <2>1, <2>2, UndoStarts
<1>2. CASE Checkpoint \/ UNCHANGED vars
  <2>1. /\ UNCHANGED <<db, inTxn, pageSize, pageCount, saved, lock, cdict, pc, todo, wset>>
        /\ UNCHANGED <<cur, orig, size, img, acked>>
        /\ older' \subseteq older
    BY <1>2 DEF Checkpoint, vars, fileVars, pagerVars, histVars
  <2>2. ConnInv'
    BY <2>1 DEF IInv, ConnInv, Durable, Complete
  <2>3. QED
    BY <1>0, <2>1, <2>2
       DEF IInv, HistInv, OpenTxnInv, FileInv, PlanInv, WriteInv, UndoInv, DoneInv, Complete
<1>3. QED
  BY <1>0, <1>1, <1>2, OpenStep, BeginStep, WriteStep, UndoWriteStep, CommitStep, ShrinkStep,
     UndoTruncateStep, UndoSyncStep, UnlockStep, CloseStep, CrashStep, PowerLossStep
     DEF Next

(***************************************************************************)
(* A torn commit is never taken back.                                      *)
(***************************************************************************)
LEMMA TornStays ==
    ASSUME torn, [Next]_vars
    PROVE  torn'
BY DEF Next, vars, histVars, Open, PagerBegin, PagerWrite, PagerUndoWrite, PagerReadError,
       PagerRollback, PagerCommit, PagerShrink, PagerUndoTruncate, PagerUndoSync, PagerUnlock,
       Close, Crash, PowerLoss, Checkpoint, Dead

(***************************************************************************)
(* IInv holds until a commit is torn.                                      *)
(***************************************************************************)
LEMMA Invariance == ASSUME MetaSaved PROVE Spec => [](torn \/ IInv)
BY InvInit, InvStep, TornStays, PTL DEF Spec

(***************************************************************************)
(* No commit of the outer database exposes part of an inner transaction,   *)
(* for any number of pages and transactions, any kills, losses of power    *)
(* and failing statements but those that save the meta rows (begin_outer,  *)
(* commit_outer, zvfs_unlock's dropped result), until zvfs_unlock commits  *)
(* a transaction whose undo failed and was given up half way.              *)
(***************************************************************************)
THEOREM Atomicity == ASSUME MetaSaved PROVE Spec => []NoTornCommit
<1>1. IInv => CommitsWhole
  BY CompleteOpenable DEF IInv, CommitsWhole, ConnInv, TypeOK, Durable
<1>2. torn \/ IInv => NoTornCommit
  BY <1>1 DEF NoTornCommit
<1>3. QED
  BY <1>2, Invariance, PTL

(***************************************************************************)
(* Every committed state can be opened again by outer_db_init, which never *)
(* refuses the database, and has every page its header counts, until a     *)
(* commit is torn.                                                         *)
(***************************************************************************)
THEOREM Recovery == ASSUME MetaSaved PROVE Spec => []Reopenable
<1>1. torn \/ IInv => Reopenable
  BY CompleteOpenable DEF IInv, Reopenable, ConnInv, FileInv, TypeOK, Durable
<1>2. QED
  BY <1>1, Invariance, PTL

(***************************************************************************)
(* zvfs_read between transactions returns the last commit's page.          *)
(***************************************************************************)
LEMMA IdleReads ==
    ASSUME IInv, pc = "idle", NEW p \in Pgno, p <= size[acked]
    PROVE  ZvfsRead(p) = [rc |-> "ok", t |-> img[acked][p]]
<1>1. TypeOK /\ HistInv /\ ConnInv /\ FileInv /\ OpenTxnInv
  BY DEF IInv
<1>2. db.work = db.disk
  BY <1>1 DEF FileInv, Busy, OpenTxnInv
<1>3. /\ db.disk.pages[p].t = img[acked][p] /\ Sane(db.disk) /\ HeaderTxn(db.disk) = acked
      /\ acked \in Txn /\ size[acked] \in Nat /\ pageCount \in Nat /\ p \in Int
  <2>1. acked \in Txn /\ size[acked] \in Nat /\ pageCount \in Nat
    BY <1>1 DEF TypeOK
  <2>2. p \in Int
    BY BoundsAssumption DEF Pgno
  <2>3. QED
    BY <1>1, <2>1, <2>2, DiskFacts
<1>4. db.disk.pages[p].m # "none"
  BY <1>1, <1>3 DEF HistInv, Sane, Present
<1>5. acked # 0
  BY <1>1, <1>3, BoundsAssumption DEF HistInv, Pgno
<1>6. pageSize # 0 /\ p <= pageCount /\ (db.disk.pages[p].m = "dict" => cdict)
  BY <1>1, <1>3, <1>5 DEF FileInv
<1>7. QED
  BY <1>2, <1>3, <1>4, <1>6 DEF ZvfsRead

(***************************************************************************)
(* Between transactions the inner database reads back, page by page, the   *)
(* last transaction whose commit it was told of (zvfs_read,                *)
(* f->page_count), until a commit is torn.                                 *)
(***************************************************************************)
THEOREM Fidelity == ASSUME MetaSaved PROVE Spec => []ReadsLastCommit
<1>1. torn \/ IInv => ReadsLastCommit
  BY IdleReads DEF ReadsLastCommit
<1>2. QED
  BY <1>1, Invariance, PTL

(***************************************************************************)
(* What makes the envelope hold, torn commits or not.                      *)
(***************************************************************************)
EnvelopeInv == OpenTxnInv /\ (pc \in {"closed", "refused"} => db.auto)

LEMMA EnvelopeStep ==
    ASSUME MetaSaved, TypeOK, EnvelopeInv, [Next]_vars
    PROVE  EnvelopeInv'
<1> USE DEF EnvelopeInv
<1>0. /\ cur \in Txn /\ orig \in Txn /\ inTxn \in BOOLEAN
      /\ size[cur] \in 0..MaxPgno /\ size[orig] \in 0..MaxPgno
      /\ \A p \in Pgno : img[orig][p] \in Txn
  BY DEF TypeOK
<1>1. CASE Open \/ PagerRollback \/ Checkpoint \/ UNCHANGED vars
  <2>1. /\ db' = db /\ (inTxn' = inTxn \/ pc \in {"closed", "refused"})
        /\ pc' \in {"closed", "refused"} => pc \in {"closed", "refused"}
    BY <1>1 DEF Open, PagerRollback, Checkpoint, vars, fileVars, pagerVars, StartUndo
  <2>2. QED
    BY <1>1, <2>1 DEF OpenTxnInv
<1>2. ASSUME NEW n \in Pgno, NEW W \in SUBSET Pgno, PagerBegin(n, W)
      PROVE  EnvelopeInv'
  BY <1>2, LockEffect DEF PagerBegin, OpenTxnInv, pagerVars
<1>3. ASSUME NEW p \in Pgno, PagerWrite(p) \/ PagerUndoWrite(p)
      PROVE  EnvelopeInv'
  <2>1. PICK t \in Txn, ok \in BOOLEAN : ZvfsWrite(p, t, ok)
    BY <1>0, <1>3 DEF PagerWrite, PagerUndoWrite
  <2>2. pc' \notin {"closed", "refused"}
    BY <1>3 DEF PagerWrite, PagerUndoWrite, StartUndo, UndoFailed
  <2>3. QED
    BY <2>1, <2>2, WriteEffect DEF OpenTxnInv, LostOrKept
<1>4. CASE PagerReadError \/ Crash
  BY <1>4 DEF PagerReadError, Crash, RolledBack, ConnState, OpenTxnInv
<1>5. CASE PagerShrink \/ PagerUndoTruncate
  <2>1. PICK n \in 0..MaxPgno, ok \in BOOLEAN : ZvfsTruncate(n, ok)
    BY <1>0, <1>5 DEF PagerShrink, PagerUndoTruncate
  <2>2. pc' \notin {"closed", "refused"}
    BY <1>5 DEF PagerShrink, PagerUndoTruncate, StartUndo, UndoFailed
  <2>3. QED
    BY <2>1, <2>2, TruncateEffect DEF OpenTxnInv, LostOrKept
<1>6. CASE PagerCommit \/ PagerUndoSync
  BY <1>6, SyncEffect DEF PagerCommit, PagerUndoSync, StartUndo, OpenTxnInv
<1>7. CASE PagerUnlock
  <2>1. lock = 2 \/ lock = 0
    BY DEF TypeOK
  <2>2. CASE lock = 2
    BY <1>7, <2>2, UnlockEffect DEF PagerUnlock, OpenTxnInv
  <2>3. CASE lock = 0
    BY <1>7, <2>3 DEF PagerUnlock, ZvfsUnlock, OpenTxnInv
  <2>4. QED
    BY <2>1, <2>2, <2>3
<1>8. CASE Close
  <2>1. PICK c \in CommitOuter(db, inTxn) : \E w : db' = Apply(c.s, w)
    BY <1>8 DEF Close
  <2>2. QED
    BY <2>1, CommitEffect DEF Apply, ConnState, OpenTxnInv
<1>9. CASE PowerLoss
  BY <1>9 DEF PowerLoss, Committed, ConnState, OpenTxnInv
<1>10. QED
  BY <1>1, <1>2, <1>3, <1>4, <1>5, <1>6, <1>7, <1>8, <1>9 DEF Next

(***************************************************************************)
(* Writing a page never changes the committed state: no page write ever    *)
(* lands outside an outer transaction (begin_outer's re-check of           *)
(* sqlite3_get_autocommit).                                                *)
(***************************************************************************)
THEOREM Envelope == ASSUME MetaSaved PROVE Spec => WritesStayInTransaction
<1>1. ASSUME TypeOK, OpenTxnInv, NEW p \in Pgno, PagerWrite(p) \/ PagerUndoWrite(p)
      PROVE  db'.disk = db.disk
  <2>1. cur \in Txn /\ img[orig][p] \in Txn
    BY <1>1 DEF TypeOK
  <2>2. QED
    BY <1>1, <2>1, WriteEffect DEF PagerWrite, PagerUndoWrite
<1>2. TypeOK /\ EnvelopeInv /\ [Next]_vars =>
        [(\E p \in Pgno : PagerWrite(p) \/ PagerUndoWrite(p)) => db'.disk = db.disk]_vars
  BY <1>1 DEF EnvelopeInv
<1>3. Init => EnvelopeInv
  BY InvInit DEF IInv, Init, EnvelopeInv
<1>4. QED
  BY <1>2, <1>3, EnvelopeStep, Typing, PTL DEF Spec, WritesStayInTransaction

(***************************************************************************)
(* Refinement.                                                             *)
(***************************************************************************)
Committing == IF pc = "write" THEN {img[cur]} ELSE {}
Past       == {Image(d) : d \in older}

(***************************************************************************)
(* Seen through Image, a complete state is the image of its transaction.   *)
(***************************************************************************)
LEMMA CompleteImage ==
    ASSUME TypeOK, HistInv, NEW d \in Outer, Complete(d)
    PROVE  Image(d) = img[HeaderTxn(d)]
<1>1. HeaderTxn(d) \in Txn /\ img[HeaderTxn(d)] \in [Pgno -> Txn]
  BY HeaderType DEF TypeOK
<1>2. \A p \in Pgno : (IF p <= size[HeaderTxn(d)] THEN d.pages[p].t ELSE 0) = img[HeaderTxn(d)][p]
  BY <1>1 DEF HistInv, Complete, FullImage
<1>3. QED
  BY <1>1, <1>2 DEF Image

(***************************************************************************)
(* The abstract store holds the image of the last acknowledged             *)
(* transaction.                                                            *)
(***************************************************************************)
LEMMA StoreImage == ASSUME IInv PROVE Image(db.disk) = img[acked]
BY CompleteImage DEF IInv, ConnInv, Durable, TypeOK

(***************************************************************************)
(* A step that leaves the committed states alone leaves the abstract store *)
(* alone.                                                                  *)
(***************************************************************************)
LEMMA SameView ==
    ASSUME db'.disk = db.disk, older' = older, size' = size
    PROVE  Image(db.disk)' = Image(db.disk) /\ Past' = Past
BY DEF Past, Image, HeaderTxn

(***************************************************************************)
(* A commit leaves the previous image among those a loss of power may      *)
(* bring back.                                                             *)
(***************************************************************************)
LEMMA WalView ==
    ASSUME NoteWal, size' = size
    PROVE  Past' = Past \/ Past' = Past \cup {Image(db.disk)}
<1>1. older' = older \/ older' = older \cup {db.disk}
  BY DEF NoteWal
<1>2. \A d : Image(d)' = Image(d)
  BY DEF Image, HeaderTxn
<1>3. QED
  BY <1>1, <1>2 DEF Past


\* The step the abstract store takes when the VFS takes a step.
StoreStep == [Store!Next]_<<Image(db.disk), Committing, Past>>

(***************************************************************************)
(* The ways a step of the VFS can be a step of the abstract store.         *)
(***************************************************************************)
LEMMA StoreStepCases ==
    ASSUME \/ /\ Image(db.disk)' = Image(db.disk) /\ Past' = Past
              /\ Committing' = Committing \/ Committing' = {}
           \/ /\ Image(db.disk)' = Image(db.disk) /\ Committing' = Committing
              /\ Past' = Past \cup {Image(db.disk)} \/ Past' = {}
           \/ /\ Image(db.disk)' = Image(db.disk) /\ Past' = Past /\ Committing = {}
              /\ \E i \in [Pgno -> Txn] : Committing' = {i}
           \/ /\ \E i \in Committing : Image(db.disk)' = i
              /\ Committing' = {}
              /\ Past' = Past \/ Past' = Past \cup {Image(db.disk)}
           \/ Image(db.disk)' \in Past /\ Past' = {} /\ Committing' = {}
    PROVE  StoreStep
BY DEF StoreStep, Committing, Past, Store!Next, Store!Begin, Store!Commit, Store!Abort,
       Store!Rewrite, Store!Settle, Store!Lose

(***************************************************************************)
(* Every step of the VFS is a step or a stutter of the abstract store.     *)
(***************************************************************************)
LEMMA StoreStepTaken ==
    ASSUME MetaSaved, IInv, IInv', [Next]_vars
    PROVE  StoreStep
<1>0. /\ TypeOK /\ OpenTxnInv /\ HistInv /\ ConnInv /\ FileInv
      /\ Image(db.disk) = img[acked] /\ (Image(db.disk) = img[acked])'
      /\ cur \in Txn /\ orig \in Txn /\ size[cur] \in 0..MaxPgno /\ size[orig] \in 0..MaxPgno
  <2>1. TypeOK /\ OpenTxnInv /\ HistInv /\ ConnInv /\ FileInv
    BY DEF IInv
  <2>2. (Image(db.disk) = img[acked])'
    BY StoreImage, PTL
  <2>3. QED
    BY <2>1, <2>2, StoreImage DEF TypeOK
<1>1. CASE Open
  BY <1>1, SameView, StoreStepCases DEF Open, histVars, Committing
<1>2. ASSUME NEW n \in Pgno, NEW W \in SUBSET Pgno, PagerBegin(n, W)
      PROVE  StoreStep
  <2>1. CASE UNCHANGED <<pagerVars, histVars>>
    <3>1. db'.disk = db.disk /\ older' = older
      BY <1>0, <1>2, LockEffect DEF PagerBegin
    <3>2. UNCHANGED <<pc, cur, img, size>>
      BY <2>1 DEF pagerVars, histVars
    <3>3. QED
      BY <3>1, <3>2, SameView, StoreStepCases DEF Committing
  <2>2. CASE ~UNCHANGED <<pagerVars, histVars>>
    <3>1. /\ ZvfsLock(TRUE) /\ pc = "idle" /\ pc' = "write" /\ cur' = cur + 1 /\ acked' = acked
          /\ size' = [size EXCEPT ![cur + 1] = n]
          /\ \E g : img' = [img EXCEPT ![cur + 1] = g]
      BY <1>2, <2>2 DEF PagerBegin
    <3>2. older' = older
      BY <1>0, <3>1, LockEffect
    <3>3. \A d \in older \cup {db.disk} :
             HeaderTxn(d) \in Txn /\ HeaderTxn(d) # cur + 1
      <4>1. \A d \in older \cup {db.disk} : d \in Outer /\ HeaderTxn(d) <= cur
        BY <1>0 DEF ConnInv, Durable, Complete, FullImage, TypeOK
      <4>2. \A t \in Txn : t <= cur => t # cur + 1
        BY <1>0, BoundsAssumption DEF Txn
      <4>3. QED
        BY <4>1, <4>2, HeaderType
    <3>4. \A t \in Txn : t # cur + 1 => size'[t] = size[t] /\ img'[t] = img[t]
      BY <1>0, <3>1 DEF TypeOK
    <3>5. \A d \in older : Image(d)' = Image(d)
      BY <3>3, <3>4 DEF Image, HeaderTxn
    <3>6. Past' = Past
      BY <3>2, <3>5 DEF Past
    <3>7. acked = HeaderTxn(db.disk)
      BY <1>0 DEF ConnInv
    <3>8. img'[acked'] = img[acked]
      BY <3>1, <3>3, <3>4, <3>7
    <3>9. Committing = {} /\ Committing' = {img'[cur']} /\ img'[cur'] \in [Pgno -> Txn]
      <4>1. img' \in [Txn -> [Pgno -> Txn]] /\ cur' \in Txn
        BY DEF IInv, TypeOK
      <4>2. QED
        BY <3>1, <4>1 DEF Committing
    <3>10. Image(db.disk)' = Image(db.disk)
      BY <1>0, <3>8
    <3>11. QED
      BY <3>6, <3>9, <3>10, StoreStepCases
  <2>3. QED
    BY <2>1, <2>2
<1>3. ASSUME NEW p \in Pgno, PagerWrite(p) \/ PagerUndoWrite(p)
      PROVE  StoreStep
  <2>1. img[orig][p] \in Txn
    BY <1>0 DEF TypeOK
  <2>2. db'.disk = db.disk /\ older' = older
    BY <1>0, <1>3, <2>1, WriteEffect DEF PagerWrite, PagerUndoWrite
  <2>3. /\ UNCHANGED <<cur, size, img>>
        /\ pc' = pc \/ pc' \in {"undo", "fin", "half"}
    BY <1>3 DEF PagerWrite, PagerUndoWrite, histVars, StartUndo, UndoFailed
  <2>4. QED
    BY <2>2, <2>3, SameView, StoreStepCases DEF Committing
<1>4. CASE PagerReadError \/ PagerRollback \/ Crash
  <2>1. db'.disk = db.disk /\ older' = older /\ size' = size /\ pc' # "write"
    BY <1>4 DEF PagerReadError, PagerRollback, Crash, Dead, RolledBack, ConnState, histVars, StartUndo
  <2>2. QED
    BY <2>1, SameView, StoreStepCases DEF Committing
<1>5. CASE PagerCommit
  <2>1. size' = size /\ img' = img /\ cur' = cur /\ pc = "write" /\ pc' # "write"
    BY <1>5 DEF PagerCommit, StartUndo, histVars
  <2>2. CASE ZvfsSync(TRUE) /\ acked' = cur
    <3>1. NoteWal
      BY <2>2 DEF ZvfsSync
    <3>2. Image(db.disk)' = img[cur]
      BY <1>0, <2>1, <2>2
    <3>3. QED
      BY <2>1, <3>1, <3>2, WalView, StoreStepCases DEF Committing
  <2>3. CASE ZvfsSync(FALSE)
    <3>1. db'.disk = db.disk /\ older' = older
      BY <1>0, <2>3, SyncEffect DEF NoteWal
    <3>2. QED
      BY <2>1, <3>1, SameView, StoreStepCases DEF Committing
  <2>4. QED
    BY <1>5, <2>2, <2>3 DEF PagerCommit
<1>6. CASE PagerShrink \/ PagerUndoTruncate
  <2>1. /\ UNCHANGED <<cur, size, img>> /\ pc # "write" /\ pc' # "write"
        /\ \E n \in 0..MaxPgno, ok \in BOOLEAN : ZvfsTruncate(n, ok)
    BY <1>0, <1>6 DEF PagerShrink, PagerUndoTruncate, histVars, StartUndo, UndoFailed
  <2>2. db'.disk = db.disk /\ older' = older
    BY <1>0, <2>1, TruncateEffect
  <2>3. QED
    BY <2>1, <2>2, SameView, StoreStepCases DEF Committing
<1>7. CASE PagerUndoSync \/ PagerUnlock
  <2>1. UNCHANGED <<size, img, acked>> /\ NoteWal /\ pc # "write" /\ pc' # "write"
    BY <1>7 DEF PagerUndoSync, PagerUnlock, ZvfsSync, ZvfsUnlock, histVars
  <2>2. QED
    BY <1>0, <2>1, WalView, StoreStepCases DEF Committing
<1>8. CASE Close
  <2>1. /\ img' = img /\ acked' = acked /\ older' = {} /\ pc # "write" /\ pc' # "write"
    BY <1>8 DEF Close, Dead
  <2>2. QED
    BY <1>0, <2>1, StoreStepCases DEF Committing, Past
<1>9. CASE PowerLoss
  <2>1. db'.disk \in older /\ size' = size /\ older' = {} /\ pc' # "write"
    BY <1>9, PowerLossStep DEF PowerLoss, Dead, IInv
  <2>2. Image(db.disk)' \in Past /\ Past' = {}
    BY <2>1 DEF Past, Image, HeaderTxn
  <2>3. QED
    BY <2>1, <2>2, StoreStepCases DEF Committing
<1>10. CASE Checkpoint
  <2>1. UNCHANGED <<db, pc, cur, img, size>> /\ older' = {}
    BY <1>10 DEF Checkpoint, pagerVars, histVars
  <2>2. Image(db.disk)' = Image(db.disk) /\ Past' = {}
    BY <2>1 DEF Image, HeaderTxn, Past
  <2>3. QED
    BY <2>1, <2>2, StoreStepCases DEF Committing
<1>11. CASE UNCHANGED vars
  BY <1>11, SameView, StoreStepCases DEF vars, pagerVars, histVars, Committing
<1>12. QED
  BY <1>1, <1>2, <1>3, <1>4, <1>5, <1>6, <1>7, <1>8, <1>9, <1>10, <1>11 DEF Next

(***************************************************************************)
(* The VFS implements the atomic store: however its statements fail, its   *)
(* process dies or power is lost, the inner database sees transactions     *)
(* that take effect whole or not at all, until zvfs_unlock commits a       *)
(* transaction half undone.                                                *)
(***************************************************************************)
THEOREM Refinement == ASSUME MetaSaved PROVE Spec => ImplementsAtomicStore
<1>1. Init => Store!Init
  <2> SUFFICES ASSUME Init PROVE Store!Init
    OBVIOUS
  <2>1. Image(db.disk) = img[acked] /\ acked = 0 /\ 0 \in Txn
    BY InvInit, StoreImage, BoundsAssumption DEF Init, Txn
  <2>2. QED
    BY <2>1 DEF Init, Store!Init
<1>2. (torn \/ IInv) /\ (torn \/ IInv)' /\ [Next]_vars =>
           [Store!Next \/ torn']_(Store!view)
  <2> SUFFICES ASSUME torn \/ IInv, (torn \/ IInv)', [Next]_vars
               PROVE  [Store!Next \/ torn']_(Store!view)
    OBVIOUS
  <2>1. CASE torn'
    BY <2>1
  <2>2. CASE ~torn'
    <3>1. IInv /\ IInv'
      BY <2>2, TornStays
    <3>2. StoreStep
      BY <3>1, StoreStepTaken
    <3>3. QED
      BY <3>2 DEF StoreStep, Store!view, Committing, Past
  <2>3. QED
    BY <2>1, <2>2
<1>3. QED
  BY <1>1, <1>2, Invariance, PTL DEF Spec, ImplementsAtomicStore

=============================================================================
