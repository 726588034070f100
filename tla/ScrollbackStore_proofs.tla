----------------------- MODULE ScrollbackStore_proofs -----------------------
(***************************************************************************)
(* Proofs about the message store, for any channels, messages, row ids,    *)
(* anchor limit and backfill chunk, and any number of kills and failed     *)
(* COMMITs and COUNTs.                                                     *)
(***************************************************************************)
EXTENDS ScrollbackStore, TLAPS, FiniteSetTheorems

(***************************************************************************)
(* Numbers: least and greatest elements.                                   *)
(***************************************************************************)
LEMMA LeastNat ==
    ASSUME NEW S, S \subseteq Nat, S # {}
    PROVE  \E m \in S : \A n \in S : m <= n
<1> DEFINE R == OpToRel(<, Nat)
<1>1. PICK m \in S : \A n \in S : <<n, m>> \notin R
  <2>1. IsWellFoundedOn(R, Nat)
    BY NatLessThanWellFounded
  <2> HIDE DEF R
  <2>2. QED
    BY <2>1, WFMin
<1>2. \A n \in S : ~(n < m)
  BY <1>1 DEF OpToRel
<1>3. QED
  BY <1>2

LEMMA GreatestNat ==
    ASSUME NEW S, S \subseteq Nat, S # {}, NEW b \in Nat, \A n \in S : n <= b
    PROVE  \E m \in S : \A n \in S : n <= m
<1> DEFINE U == {u \in Nat : \A n \in S : n <= u}
<1>1. PICK m \in U : \A n \in U : m <= n
  <2>1. b \in U /\ U \subseteq Nat
    OBVIOUS
  <2> HIDE DEF U
  <2>2. QED
    BY <2>1, LeastNat
<1>2. m \in S
  <2> SUFFICES ASSUME m \notin S PROVE FALSE
    OBVIOUS
  <2>1. PICK s \in S : TRUE
    OBVIOUS
  <2>2. m # 0 /\ \A n \in S : n <= m - 1
    BY <2>1
  <2>3. m - 1 \in U
    BY <2>2
  <2>4. QED
    BY <1>1, <2>3
<1>3. QED
  BY <1>2

LEMMA FiniteGreatest ==
    ASSUME NEW S, S \subseteq Nat, IsFiniteSet(S), S # {}
    PROVE  \E m \in S : \A n \in S : n <= m
<1> DEFINE Top(T) == \E m \in T : \A n \in T : n <= m
           Bad == {k \in Nat : \E T \in SUBSET S : T # {} /\ Cardinality(T) = k /\ ~Top(T)}
<1> SUFFICES ASSUME ~Top(S) PROVE FALSE
  OBVIOUS
<1>1. \A T \in SUBSET S : IsFiniteSet(T) /\ Cardinality(T) \in Nat
  BY FS_Subset, FS_CardinalityType
<1>2. Bad \subseteq Nat /\ Bad # {}
  BY <1>1
<1>3. PICK k \in Bad : \A l \in Bad : k <= l
  <2> HIDE DEF Bad
  <2> QED
    BY <1>2, LeastNat
<1>4. PICK T \in SUBSET S : T # {} /\ Cardinality(T) = k /\ ~Top(T)
  BY <1>3
<1>5. PICK x \in T : TRUE
  BY <1>4
<1> DEFINE U == T \ {x}
<1>6. Cardinality(U) = k - 1 /\ U \in SUBSET S /\ k \in Nat /\ x \in Nat
  BY <1>1, <1>4, <1>5, FS_RemoveElement
<1>7. CASE U = {}
  BY <1>4, <1>5, <1>6, <1>7
<1>8. CASE U # {} /\ ~Top(U)
  <2>1. Cardinality(U) \in Nat
    BY <1>1, <1>6
  <2>2. k - 1 \in Bad
    BY <1>6, <1>8, <2>1
  <2>3. QED
    BY <1>3, <1>6, <2>2
<1>9. CASE Top(U)
  <2>1. PICK m \in U : \A n \in U : n <= m
    BY <1>9
  <2>2. m \in T /\ m \in Nat /\ \A n \in T : n = x \/ n <= m
    BY <1>4, <2>1
  <2>3. CASE x <= m
    BY <1>4, <2>2, <2>3
  <2>4. CASE ~(x <= m)
    <3>1. \A n \in T : n \in Nat
      BY <1>4
    <3>2. \A n \in T : n <= x
      BY <1>6, <2>2, <2>4, <3>1
    <3>3. QED
      BY <1>4, <1>5, <3>2
  <2>5. QED
    BY <2>3, <2>4
<1>10. QED
  BY <1>7, <1>8, <1>9

LEMMA LeastProps ==
    ASSUME NEW S, S \subseteq Nat, S # {}
    PROVE  Least(S) \in S /\ \A n \in S : Least(S) <= n
BY LeastNat DEF Least

LEMMA GreatestProps ==
    ASSUME NEW S, S \subseteq Nat, S # {}, NEW b \in Nat, \A n \in S : n <= b
    PROVE  Greatest(S) \in S /\ \A n \in S : n <= Greatest(S)
BY GreatestNat DEF Greatest

LEMMA MaxRowIdProps ==
    ASSUME NEW S, S \subseteq Ids
    PROVE  /\ MaxRowId(S) \in 0..MaxId
           /\ \A i \in S : i <= MaxRowId(S)
           /\ S # {} => MaxRowId(S) \in S
<1>1. S \subseteq Nat /\ MaxId \in Nat /\ \A i \in S : i <= MaxId
  BY StoreAssumption DEF Ids
<1>2. CASE S = {}
  BY <1>1, <1>2 DEF MaxRowId
<1>3. CASE S # {}
  <2>1. \E m \in S : \A n \in S : n <= m
    BY <1>1, <1>3, GreatestNat
  <2>2. MaxRowId(S) \in S /\ \A n \in S : n <= MaxRowId(S)
    BY <1>3, <2>1 DEF MaxRowId
  <2>3. MaxRowId(S) \in Nat /\ MaxRowId(S) <= MaxId
    BY <1>1, <2>2
  <2>4. QED
    BY <1>1, <2>2, <2>3
<1>4. QED
  BY <1>2, <1>3

\* The new row's id is above every id in use.
LEMMA NewIdFree ==
    ASSUME NewId \in Ids, rows \in [Ids -> Rows \cup {NoRow}]
    PROVE  rows[NewId] = NoRow /\ \A i \in Ids : rows[i] # NoRow => i < NewId
<1>1. \A i \in Ids : rows[i] # NoRow => rows[i].ch # 0
  BY StoreAssumption DEF Rows, NoRow
<1>2. \A i \in Live(rows) : i <= MaxRowId(Live(rows))
  BY MaxRowIdProps DEF Live
<1>3. MaxRowId(Live(rows)) \in Nat
  BY MaxRowIdProps, StoreAssumption DEF Live
<1>4. \A i \in Ids : rows[i] # NoRow => i < NewId
  BY <1>1, <1>2, <1>3 DEF Live, NewId, Ids
<1>5. QED
  BY <1>4 DEF Ids

(***************************************************************************)
(* The tables.                                                             *)
(***************************************************************************)
RowTable == [Ids -> Rows \cup {NoRow}]
FtsTable == [Ids -> Entries \cup {NoEntry}]

TablesOK ==
    /\ rows \in RowTable /\ fts \in FtsTable
    /\ built \in [Channels -> BOOLEAN]
    /\ \/ txn = NoTxn
       \/ /\ txn = [open |-> TRUE, rows |-> txn.rows, fts |-> txn.fts]
          /\ txn.rows \in RowTable /\ txn.fts \in FtsTable

\* An open transaction has only added to what a rollback restores.
Grown ==
    txn.open => \A i \in Ids : /\ txn.rows[i] # NoRow => rows[i] = txn.rows[i]
                               /\ txn.fts[i] # NoEntry => fts[i] = txn.fts[i]

LEMMA RowChannel ==
    ASSUME NEW r \in RowTable, NEW i \in Ids
    PROVE  /\ r[i] # NoRow => r[i] \in Rows /\ r[i].ch \in Channels
           /\ r[i] = NoRow <=> r[i].ch = 0
           /\ r[i].ch \in Channels <=> r[i] # NoRow
BY StoreAssumption DEF RowTable, Rows, NoRow

LEMMA EntryChannel ==
    ASSUME NEW f \in FtsTable, NEW i \in Ids
    PROVE  /\ f[i] # NoEntry => f[i] \in Entries /\ f[i].ch \in Channels
           /\ f[i] = NoEntry <=> f[i].ch = 0
BY StoreAssumption DEF FtsTable, Entries, NoEntry

LEMMA MessageRow ==
    ASSUME NEW m \in Messages
    PROVE  /\ m \in Rows /\ m # NoRow /\ m.ch \in Channels /\ m.ts \in Nat
           /\ [ch |-> m.ch, text |-> m.text] \in Entries
           /\ [ch |-> m.ch, text |-> m.text] # NoEntry
<1>1. m = [ch |-> m.ch, ts |-> m.ts, mid |-> m.mid, text |-> m.text]
  BY StoreAssumption
<1>2. m.ch \in Channels /\ m.ch # 0 /\ m.ts \in Nat
  BY StoreAssumption
<1>3. m \in Rows
  BY <1>1, <1>2 DEF Rows
<1>4. m # NoRow /\ [ch |-> m.ch, text |-> m.text] # NoEntry
  BY <1>2 DEF NoRow, NoEntry
<1>5. [ch |-> m.ch, text |-> m.text] \in Entries
  BY <1>2 DEF Entries
<1>6. QED
  BY <1>2, <1>3, <1>4, <1>5

LEMMA RowEntry ==
    ASSUME NEW r \in RowTable, NEW i \in Ids, r[i] # NoRow
    PROVE  /\ [ch |-> r[i].ch, text |-> r[i].text] \in Entries
           /\ [ch |-> r[i].ch, text |-> r[i].text] # NoEntry
<1>1. r[i] \in Rows /\ r[i].ch # 0
  BY RowChannel
<1>2. QED
  BY <1>1 DEF Rows, Entries, NoEntry

LEMMA WithoutType ==
    ASSUME rows \in RowTable, fts \in FtsTable, NEW S
    PROVE  RowsWithout(S) \in RowTable /\ FtsWithout(S) \in FtsTable
BY DEF RowTable, FtsTable, RowsWithout, FtsWithout

(***************************************************************************)
(* The full-text index.  A row without an entry waits for the backfill:    *)
(* its channel is not declared searchable, and the cursor, when it is in   *)
(* that channel, has the row still before it.                              *)
(***************************************************************************)
Waits(st, c, ch, i) == st[ch] # BUILT /\ (c.ch = ch => c.next < i /\ i <= c.max)
Indexed(r, f, st, c, i) ==
    /\ f[i] # NoEntry => r[i] # NoRow /\ f[i] = [ch |-> r[i].ch, text |-> r[i].text]
    /\ r[i] # NoRow /\ f[i] = NoEntry => Waits(st, c, r[i].ch, i)

\* What the backfill has been given: channels whose rows the live path indexes.
QueueInv ==
    /\ state \in [Channels -> {UNINDEXED, BUILDING, BUILT}]
    /\ queue \in Seq(Channels)
    /\ \A k \in 1..Len(queue) : state[queue[k]] # UNINDEXED
    /\ cur.ch \in Channels \cup {0}
    /\ cur.ch # 0 => state[cur.ch] # UNINDEXED
    /\ cur = [ch |-> cur.ch, next |-> cur.next, max |-> cur.max]
    /\ cur.next \in 0..MaxId /\ cur.max \in 0..MaxId
    /\ \A ch \in Channels : built[ch] => state[ch] = BUILT

IndexInv ==
    /\ \A i \in Ids \ torn : Indexed(rows, fts, state, cur, i)
    /\ txn.open => \A i \in Ids \ torn : Indexed(txn.rows, txn.fts, state, cur, i)

SearchInv == TablesOK /\ Grown /\ QueueInv /\ IndexInv

LEMMA SearchInit == Init => SearchInv
<1> SUFFICES ASSUME Init PROVE SearchInv
  OBVIOUS
<1>1. TablesOK /\ Grown
  BY DEF Init, TablesOK, Grown, RowTable, FtsTable, NoTxn
<1>2. QueueInv
  BY StoreAssumption DEF Init, QueueInv, NoCursor, UNINDEXED, BUILDING, BUILT
<1>3. IndexInv
  BY DEF Init, IndexInv, Indexed, NoTxn
<1>4. QED
  BY <1>1, <1>2, <1>3 DEF SearchInv

(***************************************************************************)
(* After a kill or a close the memory starts afresh from the fts_built     *)
(* column.                                                                 *)
(***************************************************************************)
LEMMA SearchReopened ==
    ASSUME SearchInv, Reopened, built' = built,
           rows' \in RowTable, fts' \in FtsTable,
           \A i \in Ids \ torn' :
              /\ fts'[i] # NoEntry =>
                    rows'[i] # NoRow /\ fts'[i] = [ch |-> rows'[i].ch, text |-> rows'[i].text]
              /\ rows'[i] # NoRow /\ fts'[i] = NoEntry => state[rows'[i].ch] # BUILT
    PROVE  SearchInv'
<1>1. TablesOK' /\ Grown'
  BY DEF SearchInv, TablesOK, Reopened, Grown, NoTxn
<1>2. QueueInv'
  BY StoreAssumption DEF SearchInv, QueueInv, TablesOK, Reopened, NoCursor, UNINDEXED, BUILDING, BUILT
<1>3. IndexInv'
  <2>1. ~txn.open'
    BY DEF Reopened, NoTxn
  <2> SUFFICES ASSUME NEW i \in Ids \ torn' PROVE Indexed(rows', fts', state', cur', i)
    BY <2>1 DEF IndexInv
  <2>2. rows'[i] # NoRow => rows'[i].ch \in Channels /\ rows'[i].ch # 0
    BY RowChannel
  <2>3. \A ch \in Channels : state[ch] # BUILT => state'[ch] # BUILT
    BY DEF SearchInv, QueueInv, Reopened, UNINDEXED, BUILT
  <2>4. cur'.ch = 0
    BY DEF Reopened, NoCursor
  <2>5. QED
    BY <2>2, <2>3, <2>4 DEF Indexed, Waits
<1>4. QED
  BY <1>1, <1>2, <1>3 DEF SearchInv

(***************************************************************************)
(* Storing a message.                                                      *)
(***************************************************************************)
LEMMA SearchSave ==
    ASSUME SearchInv, NEW m \in Messages, scrollback_db_save(m)
    PROVE  SearchInv'
<1> DEFINE n == NewId
           e == [ch |-> m.ch, text |-> m.text]
<1>1. /\ n \in Ids /\ rows' = [rows EXCEPT ![n] = m]
      /\ fts' = IF state[m.ch] = UNINDEXED \/ fts[n] # NoEntry THEN fts
                ELSE [fts EXCEPT ![n] = e]
      /\ torn' = {i \in torn : rows'[i] # NoRow \/ fts'[i] # NoEntry}
      /\ UNCHANGED <<built, txn, state, queue, cur>>
  BY DEF scrollback_db_save, Storable, Remember, index, fts_index_row
<1>2. rows \in RowTable /\ fts \in FtsTable /\ rows[n] = NoRow
  BY <1>1, NewIdFree DEF SearchInv, TablesOK, RowTable
<1>3. m \in Rows /\ m # NoRow /\ m.ch \in Channels /\ m.ch # 0 /\ e \in Entries /\ e # NoEntry
  BY MessageRow, StoreAssumption
<1> HIDE DEF n, e
<1>4. rows' \in RowTable /\ fts' \in FtsTable
  BY <1>1, <1>2, <1>3 DEF RowTable, FtsTable
<1>5. TablesOK'
  BY <1>1, <1>4 DEF SearchInv, TablesOK
<1>6. Grown'
  BY <1>1, <1>2 DEF SearchInv, Grown, RowTable, FtsTable
<1>7. QueueInv'
  BY <1>1 DEF SearchInv, QueueInv
<1>8. \A i \in Ids \ torn' : Indexed(rows', fts', state', cur', i)
  <2> SUFFICES ASSUME NEW i \in Ids \ torn' PROVE Indexed(rows', fts', state', cur', i)
    OBVIOUS
  <2>1. CASE i \in torn
    BY <1>1, <2>1 DEF Indexed
  <2>2. CASE i \notin torn /\ i # n
    BY <1>1, <1>2, <2>2 DEF Indexed, SearchInv, IndexInv, RowTable, FtsTable
  <2>3. CASE i \notin torn /\ i = n
    <3>1. fts[n] = NoEntry
      BY <1>1, <1>2, <2>3 DEF Indexed, SearchInv, IndexInv
    <3>2. rows'[n] = m
      BY <1>1, <1>2 DEF RowTable
    <3>3. CASE state[m.ch] = UNINDEXED
      <4>1. cur.ch # m.ch
        BY <1>3, <3>3 DEF SearchInv, QueueInv
      <4>2. fts'[n] = NoEntry
        BY <1>1, <3>1, <3>3
      <4>3. QED
        BY <1>1, <2>3, <3>2, <3>3, <4>1, <4>2 DEF Indexed, Waits, UNINDEXED, BUILT
    <3>4. CASE state[m.ch] # UNINDEXED
      <4>1. fts'[n] = e
        BY <1>1, <1>2, <3>1, <3>4 DEF FtsTable
      <4>2. QED
        BY <1>3, <2>3, <3>2, <4>1 DEF Indexed, e
    <3>5. QED
      BY <3>3, <3>4
  <2>4. QED
    BY <2>1, <2>2, <2>3
<1>9. txn.open => \A i \in Ids \ torn' : Indexed(txn.rows, txn.fts, state, cur, i)
  <2> SUFFICES ASSUME txn.open, NEW i \in Ids \ torn'
               PROVE  Indexed(txn.rows, txn.fts, state, cur, i)
    OBVIOUS
  <2>1. CASE i \notin torn
    BY <2>1 DEF SearchInv, IndexInv
  <2>2. CASE i \in torn
    <3>1. rows'[i] = NoRow /\ fts'[i] = NoEntry
      BY <1>1, <2>2
    <3>2. txn.rows[i] = NoRow /\ txn.fts[i] = NoEntry
      BY <1>1, <1>6, <3>1 DEF Grown
    <3>3. QED
      BY <3>2 DEF Indexed
  <2>3. QED
    BY <2>1, <2>2
<1>10. QED
  BY <1>1, <1>5, <1>6, <1>7, <1>8, <1>9 DEF SearchInv, IndexInv

LEMMA SearchSaveKilled ==
    ASSUME SearchInv, NEW m \in Messages, SaveKilled(m)
    PROVE  SearchInv'
<1> DEFINE n == NewId
<1>1. /\ n \in Ids /\ rows' = [rows EXCEPT ![n] = m] /\ fts' = fts /\ built' = built
      /\ Reopened
      /\ torn' = {i \in (IF state[m.ch] = UNINDEXED THEN torn ELSE torn \cup {n}) :
                     rows'[i] # NoRow \/ fts'[i] # NoEntry}
  BY DEF SaveKilled, Storable, Remember
<1>2. rows \in RowTable /\ fts \in FtsTable /\ rows[n] = NoRow
  BY <1>1, NewIdFree DEF SearchInv, TablesOK, RowTable
<1>3. m \in Rows /\ m # NoRow /\ m.ch \in Channels
  BY MessageRow
<1> HIDE DEF n
<1>4. rows' \in RowTable /\ fts' \in FtsTable
  BY <1>1, <1>2, <1>3 DEF RowTable, FtsTable
<1>5. ASSUME NEW i \in Ids \ torn'
      PROVE  /\ fts'[i] # NoEntry =>
                    rows'[i] # NoRow /\ fts'[i] = [ch |-> rows'[i].ch, text |-> rows'[i].text]
             /\ rows'[i] # NoRow /\ fts'[i] = NoEntry => state[rows'[i].ch] # BUILT
  <2>1. CASE i \in torn
    BY <1>1, <1>5, <2>1
  <2>2. CASE i \notin torn /\ i # n
    BY <1>1, <1>2, <2>2 DEF Indexed, Waits, SearchInv, IndexInv, RowTable
  <2>3. CASE i \notin torn /\ i = n
    <3>1. fts[n] = NoEntry
      BY <1>1, <1>2, <2>3 DEF Indexed, SearchInv, IndexInv
    <3>2. rows'[n] = m
      BY <1>1, <1>2 DEF RowTable
    <3>3. state[m.ch] = UNINDEXED
      BY <1>1, <1>3, <1>5, <2>3, <3>2
    <3>4. QED
      BY <1>1, <2>3, <3>1, <3>2, <3>3 DEF UNINDEXED, BUILT
  <2>4. QED
    BY <2>1, <2>2, <2>3
<1>6. QED
  BY <1>1, <1>4, <1>5, SearchReopened

LEMMA SearchBegin ==
    ASSUME SearchInv, scrollback_begin_transaction
    PROVE  SearchInv'
<1>1. /\ txn' = [open |-> TRUE, rows |-> rows, fts |-> fts]
      /\ UNCHANGED <<rows, fts, built, torn, state, queue, cur>>
  BY DEF scrollback_begin_transaction, disk, index
<1>2. txn'.rows = rows /\ txn'.fts = fts
  BY <1>1
<1>3. TablesOK' /\ Grown' /\ QueueInv'
  BY <1>1, <1>2 DEF SearchInv, TablesOK, Grown, QueueInv
<1>4. IndexInv'
  BY <1>1, <1>2 DEF SearchInv, IndexInv
<1>5. QED
  BY <1>3, <1>4 DEF SearchInv

LEMMA SearchCommit ==
    ASSUME SearchInv, scrollback_commit_transaction
    PROVE  SearchInv'
<1>1. /\ txn' = NoTxn /\ ~txn'.open
      /\ UNCHANGED <<rows, fts, built, torn, state, queue, cur>>
  BY DEF scrollback_commit_transaction, disk, index, NoTxn
<1>2. QED
  BY <1>1 DEF SearchInv, TablesOK, Grown, QueueInv, IndexInv

LEMMA SearchCommitFails ==
    ASSUME SearchInv, CommitFails
    PROVE  SearchInv'
<1>1. /\ txn.open /\ txn' = NoTxn /\ ~txn'.open /\ rows' = txn.rows /\ fts' = txn.fts
      /\ UNCHANGED <<built, torn, state, queue, cur>>
  BY DEF CommitFails, index, NoTxn
<1>2. rows' \in RowTable /\ fts' \in FtsTable
  BY <1>1 DEF SearchInv, TablesOK, NoTxn
<1>3. QED
  BY <1>1, <1>2 DEF SearchInv, TablesOK, Grown, QueueInv, IndexInv

(***************************************************************************)
(* Deleting rows together with their entries.                              *)
(***************************************************************************)
LEMMA IndexedDelete ==
    ASSUME SearchInv, NEW S, NEW T,
           rows' = RowsWithout(S), fts' = FtsWithout(T),
           torn' = {i \in torn : rows'[i] # NoRow \/ fts'[i] # NoEntry},
           \A i \in Ids \ torn : fts[i] # NoEntry => (i \in S <=> i \in T)
    PROVE  /\ rows' \in RowTable /\ fts' \in FtsTable
           /\ \A i \in Ids \ torn' : Indexed(rows', fts', state, cur, i)
<1>1. rows' \in RowTable /\ fts' \in FtsTable
  BY WithoutType DEF SearchInv, TablesOK
<1>2. \A i \in Ids : /\ rows'[i] = IF i \in S THEN NoRow ELSE rows[i]
                     /\ fts'[i] = IF i \in T THEN NoEntry ELSE fts[i]
  BY DEF RowsWithout, FtsWithout
<1>3. ASSUME NEW i \in Ids \ torn'
      PROVE  Indexed(rows', fts', state, cur, i)
  <2>1. CASE i \in torn
    BY <1>3, <2>1 DEF Indexed
  <2>2. CASE i \notin torn
    BY <1>2, <2>2 DEF Indexed, SearchInv, IndexInv
  <2>3. QED
    BY <2>1, <2>2
<1>4. QED
  BY <1>1, <1>3

LEMMA SearchTables ==
    ASSUME SearchInv, ~txn.open, txn' = txn, built' = built,
           rows' \in RowTable, fts' \in FtsTable
    PROVE  TablesOK' /\ Grown'
BY DEF SearchInv, TablesOK, Grown, NoTxn

LEMMA SearchConfirm ==
    ASSUME SearchInv, NEW ch \in Channels, NEW mid \in RealMids, ConfirmPending(ch, mid)
    PROVE  SearchInv'
<1>1. /\ ~txn.open /\ UNCHANGED <<built, txn, state, queue, cur>>
      /\ torn' = {i \in torn : rows'[i] # NoRow \/ fts'[i] # NoEntry}
  BY DEF ConfirmPending, InCallback, index, Remember
<1>2. PICK p \in Pending(ch) :
         \/ rows' = RowsWithout({p}) /\ fts' = FtsWithout({p})
         \/ rows' = [rows EXCEPT ![p].mid = mid] /\ fts' = fts
  BY DEF ConfirmPending
<1>3. rows \in RowTable /\ fts \in FtsTable /\ p \in Ids /\ rows[p].ch = ch /\ rows[p] # NoRow
  BY RowChannel DEF SearchInv, TablesOK, Pending, Of
<1>4. CASE rows' = RowsWithout({p}) /\ fts' = FtsWithout({p})
  <2>1. /\ rows' \in RowTable /\ fts' \in FtsTable
        /\ \A i \in Ids \ torn' : Indexed(rows', fts', state, cur, i)
    BY <1>1, <1>4, IndexedDelete
  <2>2. TablesOK' /\ Grown'
    BY <1>1, <2>1, SearchTables
  <2>3. QED
    BY <1>1, <2>1, <2>2 DEF SearchInv, QueueInv, IndexInv
<1>5. CASE rows' = [rows EXCEPT ![p].mid = mid] /\ fts' = fts
  <2>1. rows[p] \in Rows
    BY <1>3, RowChannel
  <2>2. mid \in {m.mid : m \in Messages}
    BY DEF RealMids
  <2>3. [rows[p] EXCEPT !.mid = mid] \in Rows
    BY <2>1, <2>2 DEF Rows
  <2>4. rows' = [rows EXCEPT ![p] = [rows[p] EXCEPT !.mid = mid]]
    BY <1>5, <1>3 DEF RowTable
  <2>5. rows' \in RowTable /\ fts' \in FtsTable
    BY <1>3, <1>5, <2>3, <2>4 DEF RowTable
  <2>6. \A i \in Ids : /\ rows'[i].ch = rows[i].ch /\ rows'[i].text = rows[i].text
                       /\ rows'[i] = NoRow <=> rows[i] = NoRow
    <3>1. ASSUME NEW i \in Ids
          PROVE  /\ rows'[i].ch = rows[i].ch /\ rows'[i].text = rows[i].text
      <4>1. CASE i # p
        BY <1>3, <2>4, <4>1 DEF RowTable
      <4>2. CASE i = p
        <5>1. rows'[i] = [rows[p] EXCEPT !.mid = mid]
          BY <1>3, <2>4, <4>2 DEF RowTable
        <5>2. QED
          BY <2>1, <4>2, <5>1 DEF Rows
      <4>3. QED
        BY <4>1, <4>2
    <3>2. QED
      BY <1>3, <2>5, <3>1, RowChannel
  <2>7. TablesOK' /\ Grown'
    BY <1>1, <2>5, SearchTables
  <2>8. \A i \in Ids \ torn' : Indexed(rows', fts', state, cur, i)
    BY <1>1, <1>5, <2>6 DEF Indexed, SearchInv, IndexInv
  <2>9. QED
    BY <1>1, <2>7, <2>8 DEF SearchInv, QueueInv, IndexInv
<1>6. QED
  BY <1>2, <1>4, <1>5

\* A kill between the two DELETEs leaves ids in torn.
LEMMA SearchDeleteKilled ==
    ASSUME SearchInv, NEW S, NEW T, NEW P, P \subseteq Ids,
           rows' = RowsWithout(S), fts' = FtsWithout(T), built' = built, Reopened,
           torn' = {i \in torn \cup P : rows'[i] # NoRow \/ fts'[i] # NoEntry},
           \A i \in Ids \ torn : i \in S \/ (i \in T /\ fts[i] # NoEntry) => i \in P
    PROVE  SearchInv'
<1>1. rows' \in RowTable /\ fts' \in FtsTable
  BY WithoutType DEF SearchInv, TablesOK
<1>2. \A i \in Ids : /\ rows'[i] = IF i \in S THEN NoRow ELSE rows[i]
                     /\ fts'[i] = IF i \in T THEN NoEntry ELSE fts[i]
  BY DEF RowsWithout, FtsWithout
<1>3. ASSUME NEW i \in Ids \ torn'
      PROVE  /\ fts'[i] # NoEntry =>
                    rows'[i] # NoRow /\ fts'[i] = [ch |-> rows'[i].ch, text |-> rows'[i].text]
             /\ rows'[i] # NoRow /\ fts'[i] = NoEntry => state[rows'[i].ch] # BUILT
  <2>1. CASE i \in torn \cup P
    BY <1>3, <2>1
  <2>2. CASE i \notin torn \cup P
    BY <1>2, <2>2 DEF Indexed, Waits, SearchInv, IndexInv
  <2>3. QED
    BY <2>1, <2>2
<1>4. QED
  BY <1>1, <1>3, SearchReopened

LEMMA SearchConfirmKilled ==
    ASSUME SearchInv, NEW ch, NEW mid, DeleteKilled(ch, mid)
    PROVE  SearchInv'
<1>1. PICK p \in Pending(ch) : /\ rows' = RowsWithout({p}) /\ fts' = fts /\ built' = built
                               /\ Reopened
                               /\ torn' = {i \in torn \cup {p} :
                                             rows'[i] # NoRow \/ fts'[i] # NoEntry}
  BY DEF DeleteKilled, Remember
<1>2. fts' = FtsWithout({})
  BY <1>1 DEF SearchInv, TablesOK, FtsTable, FtsWithout
<1>3. p \in Ids
  BY DEF Pending, Of
<1>4. QED
  BY <1>1, <1>2, <1>3, SearchDeleteKilled

LEMMA EntryOwner ==
    ASSUME SearchInv
    PROVE  \A i \in Ids \ torn : fts[i] # NoEntry => fts[i].ch = rows[i].ch
<1> SUFFICES ASSUME NEW i \in Ids \ torn, fts[i] # NoEntry PROVE fts[i].ch = rows[i].ch
  OBVIOUS
<1>1. fts[i] = [ch |-> rows[i].ch, text |-> rows[i].text]
  BY DEF SearchInv, IndexInv, Indexed
<1>2. QED
  BY <1>1

LEMMA SearchClear ==
    ASSUME SearchInv, NEW ch \in Channels, scrollback_clear(ch)
    PROVE  SearchInv'
<1> DEFINE T == {i \in Ids : fts[i].ch = ch}
<1>1. /\ ~txn.open /\ UNCHANGED <<built, txn, state, queue, cur>>
      /\ rows' = RowsWithout(Of(rows, ch)) /\ fts' = FtsWithout(T)
      /\ torn' = {i \in torn : rows'[i] # NoRow \/ fts'[i] # NoEntry}
  BY DEF scrollback_clear, InCallback, index, Remember
<1>2. \A i \in Ids \ torn : fts[i] # NoEntry => (i \in Of(rows, ch) <=> i \in T)
  BY EntryOwner DEF Of
<1> HIDE DEF T
<1>3. /\ rows' \in RowTable /\ fts' \in FtsTable
      /\ \A i \in Ids \ torn' : Indexed(rows', fts', state, cur, i)
  BY <1>1, <1>2, IndexedDelete
<1>4. TablesOK' /\ Grown'
  BY <1>1, <1>3, SearchTables
<1>5. QED
  BY <1>1, <1>3, <1>4 DEF SearchInv, QueueInv, IndexInv

LEMMA SearchClearKilled ==
    ASSUME SearchInv, NEW ch \in Channels, ClearKilled(ch)
    PROVE  SearchInv'
<1> DEFINE T == {i \in Ids : fts[i].ch = ch}
<1>1. /\ rows' = rows /\ fts' = FtsWithout(T) /\ built' = built /\ Reopened
      /\ torn' = {i \in torn \cup Of(rows, ch) : rows'[i] # NoRow \/ fts'[i] # NoEntry}
  BY DEF ClearKilled, Remember
<1>2. rows' = RowsWithout({})
  BY <1>1 DEF SearchInv, TablesOK, RowTable, RowsWithout
<1>3. \A i \in Ids \ torn : i \in T /\ fts[i] # NoEntry => i \in Of(rows, ch)
  BY EntryOwner DEF Of
<1>4. Of(rows, ch) \subseteq Ids
  BY DEF Of
<1> HIDE DEF T
<1>5. QED
  BY <1>1, <1>2, <1>3, <1>4, SearchDeleteKilled

LEMMA SearchLoadKilled ==
    ASSUME SearchInv, NEW ch \in Channels, LoadKilled(ch)
    PROVE  SearchInv'
<1>1. /\ rows' = rows /\ fts' = FtsWithout(Pending(ch)) /\ built' = built /\ Reopened
      /\ torn' = {i \in torn \cup Pending(ch) : rows'[i] # NoRow \/ fts'[i] # NoEntry}
  BY DEF LoadKilled, Remember
<1>2. rows' = RowsWithout({})
  BY <1>1 DEF SearchInv, TablesOK, RowTable, RowsWithout
<1>3. Pending(ch) \subseteq Ids
  BY DEF Of, Pending
<1>4. QED
  BY <1>1, <1>2, <1>3, SearchDeleteKilled

(***************************************************************************)
(* Opening a tab, reading through the cache, restarting.                   *)
(***************************************************************************)
LEMMA SearchLoad ==
    ASSUME SearchInv, NEW ch \in Channels, NEW ok \in BOOLEAN, scrollback_load(ch, ok)
    PROVE  SearchInv'
<1>1. /\ ~txn.open /\ UNCHANGED <<built, txn, cur>>
      /\ rows' = RowsWithout(Pending(ch)) /\ fts' = FtsWithout(Pending(ch))
      /\ torn' = {i \in torn : rows'[i] # NoRow \/ fts'[i] # NoEntry}
      /\ \/ state[ch] = UNINDEXED /\ state' = [state EXCEPT ![ch] = BUILDING]
            /\ queue' = Append(queue, ch)
         \/ UNCHANGED <<state, queue>>
  BY DEF scrollback_load, InCallback
<1>2. /\ rows' \in RowTable /\ fts' \in FtsTable
      /\ \A i \in Ids \ torn' : Indexed(rows', fts', state, cur, i)
  BY <1>1, IndexedDelete
<1>3. TablesOK' /\ Grown'
  BY <1>1, <1>2, SearchTables
<1>4. CASE UNCHANGED <<state, queue>>
  BY <1>1, <1>2, <1>3, <1>4 DEF SearchInv, QueueInv, IndexInv
<1>5. CASE /\ state[ch] = UNINDEXED /\ state' = [state EXCEPT ![ch] = BUILDING]
           /\ queue' = Append(queue, ch)
  <2>1. state \in [Channels -> {UNINDEXED, BUILDING, BUILT}] /\ queue \in Seq(Channels)
    BY DEF SearchInv, QueueInv
  <2>2. /\ state' \in [Channels -> {UNINDEXED, BUILDING, BUILT}]
        /\ state'[ch] = BUILDING
        /\ \A c \in Channels : /\ state[c] # UNINDEXED => state'[c] # UNINDEXED
                               /\ state[c] # BUILT => state'[c] # BUILT
                               /\ state[c] = BUILT => state'[c] = BUILT
    BY <1>5, <2>1 DEF UNINDEXED, BUILDING, BUILT
  <2>3. queue' \in Seq(Channels) /\ \A k \in 1..Len(queue') : state'[queue'[k]] # UNINDEXED
    <3>1. /\ queue' \in Seq(Channels) /\ Len(queue') = Len(queue) + 1 /\ Len(queue) \in Nat
          /\ \A k \in 1..Len(queue) : queue'[k] = queue[k] /\ queue[k] \in Channels
          /\ queue'[Len(queue) + 1] = ch
      BY <1>5, <2>1
    <3>2. \A k \in 1..Len(queue') : k \in 1..Len(queue) \/ k = Len(queue) + 1
      BY <3>1
    <3>3. state'[ch] # UNINDEXED
      BY <2>2 DEF UNINDEXED, BUILDING
    <3>4. \A k \in 1..Len(queue) : state'[queue'[k]] # UNINDEXED
      BY <2>2, <3>1 DEF SearchInv, QueueInv
    <3>5. QED
      BY <3>1, <3>2, <3>3, <3>4
  <2>4. QueueInv'
    BY <1>1, <2>2, <2>3 DEF SearchInv, QueueInv
  <2>5. \A i \in Ids \ torn' : Indexed(rows', fts', state', cur', i)
    BY <1>1, <1>2, <2>2, RowChannel DEF Indexed, Waits
  <2>6. QED
    BY <1>1, <1>3, <2>4, <2>5 DEF SearchInv, IndexInv
<1>6. QED
  BY <1>1, <1>4, <1>5

LEMMA SearchUnchanged ==
    ASSUME SearchInv, UNCHANGED <<rows, fts, built, txn, torn, state, queue, cur>>
    PROVE  SearchInv'
BY DEF SearchInv, TablesOK, Grown, QueueInv, IndexInv

LEMMA SearchRestart ==
    ASSUME SearchInv, Restart
    PROVE  SearchInv'
<1>1. /\ built' = built /\ torn' = torn /\ Reopened
      /\ \/ txn.open /\ rows' = txn.rows /\ fts' = txn.fts
         \/ rows' = rows /\ fts' = fts
  BY DEF Restart
<1>2. rows' \in RowTable /\ fts' \in FtsTable
  BY <1>1 DEF SearchInv, TablesOK, NoTxn
<1>3. \A i \in Ids \ torn' :
          /\ fts'[i] # NoEntry =>
                rows'[i] # NoRow /\ fts'[i] = [ch |-> rows'[i].ch, text |-> rows'[i].text]
          /\ rows'[i] # NoRow /\ fts'[i] = NoEntry => state[rows'[i].ch] # BUILT
  BY <1>1 DEF SearchInv, IndexInv, Indexed, Waits
<1>4. QED
  BY <1>1, <1>2, <1>3, SearchReopened

(***************************************************************************)
(* The backfill.  The rows still to do are the rows without an entry: all  *)
(* of the channel's when the cursor enters it, and afterwards those        *)
(* between the cursor and the greatest id there was then.                  *)
(***************************************************************************)
Cursor(c) ==
    \/ cur.ch # 0 /\ c = cur
    \/ /\ cur.ch = 0 /\ queue # << >>
       /\ c = [ch |-> Head(queue), next |-> 0, max |-> MaxRowId(Of(rows, Head(queue)))]
Todo(c) == {i \in Of(rows, c.ch) : c.next < i /\ i <= c.max}
ChunkDone(ok, c, S) ==
    /\ fts' = IF ok THEN [i \in Ids |-> IF i \in S /\ fts[i] = NoEntry
                                        THEN [ch |-> c.ch, text |-> rows[i].text]
                                        ELSE fts[i]]
              ELSE fts
    /\ torn' = IF ok THEN torn ELSE torn \cup {i \in S : fts[i] = NoEntry}

LEMMA BackfillCursor ==
    ASSUME SearchInv, NEW c, Cursor(c)
    PROVE  /\ c.ch \in Channels /\ c.ch # 0 /\ state[c.ch] # UNINDEXED
           /\ c = [ch |-> c.ch, next |-> c.next, max |-> c.max]
           /\ c.next \in 0..MaxId /\ c.max \in 0..MaxId
           /\ \A i \in Ids \ torn : rows[i].ch = c.ch /\ fts[i] = NoEntry =>
                    state[c.ch] # BUILT /\ i \in Todo(c)
<1>1. \A i \in Ids : rows[i].ch \in Channels => rows[i] # NoRow
  BY RowChannel DEF SearchInv, TablesOK
<1>2. CASE cur.ch # 0 /\ c = cur
  <2>1. /\ c.ch \in Channels /\ c.ch # 0 /\ state[c.ch] # UNINDEXED
        /\ c = [ch |-> c.ch, next |-> c.next, max |-> c.max]
        /\ c.next \in 0..MaxId /\ c.max \in 0..MaxId
    BY <1>2 DEF SearchInv, QueueInv
  <2>2. QED
    BY <1>1, <1>2, <2>1 DEF SearchInv, IndexInv, Indexed, Waits, Todo, Of
<1>3. CASE /\ cur.ch = 0 /\ queue # << >>
           /\ c = [ch |-> Head(queue), next |-> 0, max |-> MaxRowId(Of(rows, Head(queue)))]
  <2>1. queue \in Seq(Channels)
    BY DEF SearchInv, QueueInv
  <2>2. Head(queue) \in Channels /\ Head(queue) = queue[1] /\ 1 \in 1..Len(queue)
    BY <1>3, <2>1
  <2>3. c.ch = Head(queue) /\ c.next = 0 /\ c.max = MaxRowId(Of(rows, c.ch))
    BY <1>3
  <2>4. c.ch \in Channels /\ c.ch # 0 /\ state[c.ch] # UNINDEXED
    BY <2>2, <2>3, StoreAssumption DEF SearchInv, QueueInv
  <2>5. Of(rows, c.ch) \subseteq Ids
    BY DEF Of
  <2>6. c.max \in 0..MaxId /\ \A i \in Of(rows, c.ch) : i <= c.max
    BY <2>3, <2>5, MaxRowIdProps
  <2>7. 0 \in 0..MaxId
    BY StoreAssumption
  <2>8. c = [ch |-> c.ch, next |-> c.next, max |-> c.max]
    BY <1>3, <2>3
  <2>9. \A i \in Ids \ torn : rows[i].ch = c.ch /\ fts[i] = NoEntry =>
                state[c.ch] # BUILT /\ i \in Todo(c)
    <3>1. \A i \in Of(rows, c.ch) : i \in Todo(c)
      BY <2>3, <2>5, <2>6 DEF Todo, Ids
    <3>2. QED
      BY <1>1, <2>4, <3>1 DEF SearchInv, IndexInv, Indexed, Waits, Of
  <2>10. QED
    BY <2>3, <2>4, <2>6, <2>7, <2>8, <2>9
<1>4. QED
  BY <1>2, <1>3 DEF Cursor

\* What one chunk S does: the rows of S are indexed, or parted from their entries.
LEMMA BackfillChunk ==
    ASSUME SearchInv, NEW ok \in BOOLEAN, NEW c, Cursor(c), NEW S, S \subseteq Todo(c),
           ChunkDone(ok, c, S)
    PROVE  /\ fts' \in FtsTable
           /\ torn \subseteq torn'
           /\ \A i \in Ids \ torn' :
                /\ fts'[i] # NoEntry =>
                      rows[i] # NoRow /\ fts'[i] = [ch |-> rows[i].ch, text |-> rows[i].text]
                /\ fts'[i] = NoEntry => fts[i] = NoEntry /\ i \notin S
<1>1. rows \in RowTable /\ fts \in FtsTable
  BY DEF SearchInv, TablesOK
<1>2. c.ch \in Channels
  BY BackfillCursor
<1>3. \A i \in S : i \in Ids /\ rows[i].ch = c.ch
  BY DEF Todo, Of
<1>4. \A i \in S : /\ rows[i] # NoRow
                   /\ [ch |-> c.ch, text |-> rows[i].text] \in Entries
                   /\ [ch |-> c.ch, text |-> rows[i].text] # NoEntry
  BY <1>1, <1>2, <1>3, RowChannel, RowEntry
<1>5. CASE ok
  <2>1. /\ torn' = torn
        /\ fts' = [i \in Ids |-> IF i \in S /\ fts[i] = NoEntry
                                 THEN [ch |-> c.ch, text |-> rows[i].text] ELSE fts[i]]
    BY <1>5 DEF ChunkDone
  <2>2. fts' \in FtsTable
    BY <1>1, <1>4, <2>1 DEF FtsTable
  <2>3. ASSUME NEW i \in Ids \ torn'
        PROVE  /\ fts'[i] # NoEntry =>
                      rows[i] # NoRow /\ fts'[i] = [ch |-> rows[i].ch, text |-> rows[i].text]
               /\ fts'[i] = NoEntry => fts[i] = NoEntry /\ i \notin S
    <3>1. CASE i \in S /\ fts[i] = NoEntry
      BY <1>3, <1>4, <2>1, <3>1
    <3>2. CASE ~(i \in S /\ fts[i] = NoEntry)
      BY <2>1, <3>2 DEF SearchInv, IndexInv, Indexed
    <3>3. QED
      BY <3>1, <3>2
  <2>4. QED
    BY <2>1, <2>2, <2>3
<1>6. CASE ~ok
  <2>1. torn' = torn \cup {i \in S : fts[i] = NoEntry} /\ fts' = fts
    BY <1>6 DEF ChunkDone
  <2>2. QED
    BY <1>1, <2>1 DEF SearchInv, IndexInv, Indexed
<1>7. QED
  BY <1>5, <1>6

LEMMA SearchBackfill ==
    ASSUME SearchInv, NEW ok \in BOOLEAN, fts_backfill_idle(ok)
    PROVE  SearchInv'
<1>1. ~txn.open /\ txn' = txn
  BY DEF fts_backfill_idle, InCallback
<1>2. CASE cur.ch = 0 /\ queue = << >>
  BY <1>1, <1>2, SearchUnchanged DEF fts_backfill_idle, disk
<1>3. CASE ~(cur.ch = 0 /\ queue = << >>)
  <2> DEFINE c == IF cur.ch # 0 THEN cur
                  ELSE [ch |-> Head(queue), next |-> 0, max |-> MaxRowId(Of(rows, Head(queue)))]
  <2>1. Cursor(c)
    BY <1>3 DEF Cursor
  <2>2. /\ rows' = rows /\ queue' = IF cur.ch # 0 THEN queue ELSE Tail(queue)
        /\ \/ /\ ChunkDone(ok, c, Todo(c))
              /\ built' = IF ok THEN [built EXCEPT ![c.ch] = TRUE] ELSE built
              /\ state' = [state EXCEPT ![c.ch] = BUILT]
              /\ cur' = NoCursor
           \/ \E last \in Todo(c) :
                /\ ChunkDone(ok, c, {i \in Todo(c) : i <= last})
                /\ cur' = [c EXCEPT !.next = last]
                /\ UNCHANGED <<built, state>>
    BY <1>3 DEF fts_backfill_idle, Advanced, ChunkDone, Todo
  <2> HIDE DEF c
  <2>3. /\ c.ch \in Channels /\ c.ch # 0 /\ state[c.ch] # UNINDEXED
        /\ c = [ch |-> c.ch, next |-> c.next, max |-> c.max]
        /\ c.next \in 0..MaxId /\ c.max \in 0..MaxId
        /\ \A i \in Ids \ torn : rows[i].ch = c.ch /\ fts[i] = NoEntry =>
                    state[c.ch] # BUILT /\ i \in Todo(c)
    BY <2>1, BackfillCursor
  <2>4. state \in [Channels -> {UNINDEXED, BUILDING, BUILT}] /\ queue \in Seq(Channels)
    BY DEF SearchInv, QueueInv
  <2>5. /\ queue' \in Seq(Channels)
        /\ \A k \in 1..Len(queue') : queue'[k] \in Channels /\ state[queue'[k]] # UNINDEXED
    <3>1. CASE cur.ch # 0
      BY <2>2, <2>4, <3>1 DEF SearchInv, QueueInv
    <3>2. CASE cur.ch = 0
      <4>1. /\ Tail(queue) \in Seq(Channels) /\ Len(Tail(queue)) = Len(queue) - 1
            /\ Len(queue) \in Nat
            /\ \A k \in 1..Len(Tail(queue)) : Tail(queue)[k] = queue[k + 1]
        BY <1>3, <2>4, <3>2
      <4>2. \A k \in 1..Len(Tail(queue)) : k + 1 \in 1..Len(queue)
        BY <4>1
      <4>3. \A k \in 1..Len(queue) : queue[k] \in Channels /\ state[queue[k]] # UNINDEXED
        BY <2>4 DEF SearchInv, QueueInv
      <4>4. QED
        BY <2>2, <3>2, <4>1, <4>2, <4>3
    <3>3. QED
      BY <3>1, <3>2
  <2>6. \A i \in Ids : rows[i] # NoRow => rows[i].ch \in Channels
    BY RowChannel DEF SearchInv, TablesOK
  <2>7. CASE /\ ChunkDone(ok, c, Todo(c))
             /\ built' = IF ok THEN [built EXCEPT ![c.ch] = TRUE] ELSE built
             /\ state' = [state EXCEPT ![c.ch] = BUILT]
             /\ cur' = NoCursor
    <3>1. /\ fts' \in FtsTable /\ torn \subseteq torn'
          /\ \A i \in Ids \ torn' :
                /\ fts'[i] # NoEntry =>
                      rows[i] # NoRow /\ fts'[i] = [ch |-> rows[i].ch, text |-> rows[i].text]
                /\ fts'[i] = NoEntry => fts[i] = NoEntry /\ i \notin Todo(c)
      BY <2>1, <2>7, BackfillChunk
    <3>2. /\ state' \in [Channels -> {UNINDEXED, BUILDING, BUILT}]
          /\ \A ch \in Channels : /\ state[ch] # UNINDEXED => state'[ch] # UNINDEXED
                                  /\ ch # c.ch => state'[ch] = state[ch]
                                  /\ state'[c.ch] = BUILT
      BY <2>3, <2>4, <2>7 DEF UNINDEXED, BUILT
    <3>3. /\ built' \in [Channels -> BOOLEAN]
          /\ \A ch \in Channels : built'[ch] => built[ch] \/ ch = c.ch
      BY <2>3, <2>7 DEF SearchInv, TablesOK
    <3>4. TablesOK' /\ Grown'
      BY <1>1, <2>2, <3>1, <3>3 DEF SearchInv, TablesOK, Grown, NoTxn
    <3>5. \A ch \in Channels : built'[ch] => state'[ch] = BUILT
      BY <3>2, <3>3 DEF SearchInv, QueueInv
    <3>6. QueueInv'
      BY <2>5, <2>7, <3>2, <3>5, StoreAssumption DEF QueueInv, NoCursor
    <3>7. ASSUME NEW i \in Ids \ torn'
          PROVE  Indexed(rows', fts', state', cur', i)
      <4>1. ASSUME rows[i] # NoRow, fts'[i] = NoEntry PROVE Waits(state', cur', rows[i].ch, i)
        <5>1. i \notin torn /\ fts[i] = NoEntry /\ i \notin Todo(c)
          BY <3>1, <4>1
        <5>2. rows[i].ch # c.ch
          BY <2>3, <5>1
        <5>3. Waits(state, cur, rows[i].ch, i)
          BY <4>1, <5>1 DEF SearchInv, IndexInv, Indexed
        <5>4. cur'.ch # rows[i].ch
          BY <2>6, <2>7, <4>1, StoreAssumption DEF NoCursor
        <5>5. QED
          BY <2>6, <3>2, <4>1, <5>2, <5>3, <5>4 DEF Waits
      <4>2. QED
        BY <2>2, <3>1, <4>1 DEF Indexed
    <3>8. QED
      BY <1>1, <3>4, <3>6, <3>7 DEF SearchInv, IndexInv
  <2>8. CASE \E last \in Todo(c) :
                /\ ChunkDone(ok, c, {i \in Todo(c) : i <= last})
                /\ cur' = [c EXCEPT !.next = last]
                /\ UNCHANGED <<built, state>>
    <3>1. PICK last \in Todo(c) : /\ ChunkDone(ok, c, {i \in Todo(c) : i <= last})
                                  /\ cur' = [c EXCEPT !.next = last]
                                  /\ UNCHANGED <<built, state>>
      BY <2>8
    <3> DEFINE S == {i \in Todo(c) : i <= last}
    <3>2. S \subseteq Todo(c)
      OBVIOUS
    <3>3. cur' = [ch |-> c.ch, next |-> last, max |-> c.max]
      BY <2>3, <3>1
    <3>4. last \in Ids
      BY DEF Todo, Of
    <3>5. /\ fts' \in FtsTable /\ torn \subseteq torn'
          /\ \A i \in Ids \ torn' :
                /\ fts'[i] # NoEntry =>
                      rows[i] # NoRow /\ fts'[i] = [ch |-> rows[i].ch, text |-> rows[i].text]
                /\ fts'[i] = NoEntry => fts[i] = NoEntry /\ i \notin S
      <4>1. ChunkDone(ok, c, S)
        BY <3>1
      <4> HIDE DEF S
      <4>2. QED
        BY <2>1, <3>2, <4>1, BackfillChunk
    <3>6. TablesOK' /\ Grown'
      BY <1>1, <2>2, <3>1, <3>5 DEF SearchInv, TablesOK, Grown, NoTxn
    <3>7. QueueInv'
      <4>1. cur'.ch = c.ch /\ cur'.next = last /\ cur'.max = c.max
        BY <3>3
      <4>2. last \in 0..MaxId
        BY <3>4, StoreAssumption DEF Ids
      <4>3. cur' = [ch |-> cur'.ch, next |-> cur'.next, max |-> cur'.max]
        BY <3>3, <4>1
      <4>4. QED
        BY <2>3, <2>5, <3>1, <4>1, <4>2, <4>3 DEF SearchInv, QueueInv
    <3>8. ASSUME NEW i \in Ids \ torn'
          PROVE  Indexed(rows', fts', state', cur', i)
      <4>1. ASSUME rows[i] # NoRow, fts'[i] = NoEntry PROVE Waits(state', cur', rows[i].ch, i)
        <5>1. i \notin torn /\ fts[i] = NoEntry /\ i \notin S
          BY <3>5, <4>1
        <5>2. Waits(state, cur, rows[i].ch, i)
          BY <4>1, <5>1 DEF SearchInv, IndexInv, Indexed
        <5>3. CASE rows[i].ch # c.ch
          BY <3>1, <3>3, <5>2, <5>3 DEF Waits
        <5>4. CASE rows[i].ch = c.ch
          <6>1. state[c.ch] # BUILT /\ i \in Todo(c)
            BY <2>3, <5>1, <5>4
          <6>2. last < i /\ i <= c.max
            BY <3>4, <5>1, <6>1 DEF Todo, Ids
          <6>3. QED
            BY <3>1, <3>3, <5>4, <6>1, <6>2 DEF Waits
        <5>5. QED
          BY <5>3, <5>4
      <4>2. QED
        BY <2>2, <3>5, <4>1 DEF Indexed
    <3>9. QED
      BY <1>1, <3>6, <3>7, <3>8 DEF SearchInv, IndexInv
  <2>9. QED
    BY <2>2, <2>7, <2>8
<1>4. QED
  BY <1>2, <1>3

LEMMA SearchNext == SearchInv /\ [Next]_vars => SearchInv'
<1> SUFFICES ASSUME SearchInv, [Next]_vars PROVE SearchInv'
  OBVIOUS
<1>1. CASE UNCHANGED vars
  BY <1>1, SearchUnchanged DEF vars
<1>2. CASE Store
  BY <1>2, SearchSave, SearchSaveKilled, SearchConfirm, SearchConfirmKilled DEF Store
<1>3. ASSUME NEW ch \in Tabs, Show(ch) PROVE SearchInv'
  <2>1. ch \in Channels
    BY StoreAssumption
  <2>2. CASE \E offset \in -1..MaxId - 1, limit \in 0..MaxId - 1, ok \in BOOLEAN :
                  scrollback_load_range(ch, offset, limit, ok)
    BY <2>2, SearchUnchanged DEF scrollback_load_range, disk, index
  <2>3. CASE \E i \in Of(rows, ch), ok \in BOOLEAN : scrollback_get_index_of_rowid(ch, i, ok)
    BY <2>3, SearchUnchanged DEF scrollback_get_index_of_rowid, disk, index
  <2>4. QED
    BY <1>3, <2>1, <2>2, <2>3, SearchClear, SearchClearKilled, SearchLoad, SearchLoadKilled
       DEF Show
<1>4. CASE scrollback_begin_transaction \/ scrollback_commit_transaction \/ CommitFails
  BY <1>4, SearchBegin, SearchCommit, SearchCommitFails
<1>5. CASE Tick \/ Restart
  BY <1>5, SearchBackfill, SearchRestart DEF Tick
<1>6. QED
  BY <1>1, <1>2, <1>3, <1>4, <1>5 DEF Next

(***************************************************************************)
(* A search misses no row of a channel that scrollback_fts_ready declares  *)
(* searchable and finds none that is gone or different, whatever batches,  *)
(* rollbacks, clears, confirmations and restarts interleave with the       *)
(* backfill; only ids whose statements a fault parted are excepted         *)
(* (fts_backfill_idle, fts_index_row and their callers).                   *)
(***************************************************************************)
THEOREM Searching == Spec => []SearchTrue
<1>1. SearchInv => SearchTrue
  <2> SUFFICES ASSUME SearchInv, NEW i \in Ids \ torn
               PROVE  /\ fts[i] # NoEntry => rows[i] # NoRow /\ fts[i] = EntryOf(i)
                      /\ rows[i] # NoRow /\ state[rows[i].ch] = BUILT => fts[i] # NoEntry
    BY DEF SearchTrue
  <2>1. QED
    BY DEF SearchInv, IndexInv, Indexed, Waits, EntryOf
<1>2. QED
  BY <1>1, SearchInit, SearchNext, PTL DEF Spec

(***************************************************************************)
(* The rows of a channel are finitely many and totally ordered by          *)
(* (timestamp, id); a row's ordinal is the number of rows before it.       *)
(***************************************************************************)
LEMMA OfFacts ==
    ASSUME NEW r \in RowTable, NEW ch \in Channels
    PROVE  /\ Of(r, ch) \subseteq Ids /\ IsFiniteSet(Of(r, ch))
           /\ Cardinality(Of(r, ch)) \in 0..MaxId
           /\ \A i \in Of(r, ch) : i \in Nat /\ r[i].ch = ch /\ r[i].ts \in Nat /\ r[i] # NoRow
<1>1. Of(r, ch) \subseteq Ids
  BY DEF Of
<1>2. MaxId \in Nat /\ 1 \in Int /\ MaxId \in Int /\ MaxId >= 1
  BY StoreAssumption
<1>3. IsFiniteSet(Ids) /\ Cardinality(Ids) = MaxId
  BY <1>2, FS_Interval DEF Ids
<1>4. /\ IsFiniteSet(Of(r, ch)) /\ Cardinality(Of(r, ch)) <= MaxId
      /\ Cardinality(Of(r, ch)) \in Nat
  BY <1>1, <1>3, FS_Subset, FS_CardinalityType
<1>5. \A i \in Of(r, ch) : i \in Nat /\ r[i].ch = ch /\ r[i] # NoRow /\ r[i] \in Rows
  BY <1>1, RowChannel DEF Of, Ids
<1>6. \A m \in Messages : m.ts \in Nat
  BY StoreAssumption
<1>7. \A i \in Of(r, ch) : r[i].ts \in Nat
  BY <1>5, <1>6 DEF Rows
<1>8. QED
  BY <1>1, <1>2, <1>4, <1>5, <1>7

\* How many rows of a subset there are.
LEMMA CountType ==
    ASSUME NEW r \in RowTable, NEW ch \in Channels, NEW T, T \subseteq Of(r, ch)
    PROVE  /\ IsFiniteSet(T) /\ Cardinality(T) \in Nat
           /\ Cardinality(T) <= Cardinality(Of(r, ch))
BY OfFacts, FS_Subset, FS_CardinalityType

LEMMA CountUnion ==
    ASSUME NEW r \in RowTable, NEW ch \in Channels,
           NEW T, T \subseteq Of(r, ch), NEW U, U \subseteq Of(r, ch), T \cap U = {}
    PROVE  Cardinality(T \cup U) = Cardinality(T) + Cardinality(U)
<1>1. IsFiniteSet(T) /\ IsFiniteSet(U) /\ Cardinality(T) \in Nat /\ Cardinality(U) \in Nat
  BY CountType
<1>2. Cardinality(T \cup U) = Cardinality(T) + Cardinality(U) - Cardinality(T \cap U)
  BY <1>1, FS_Union
<1>3. Cardinality(T \cap U) = 0
  BY FS_EmptySet
<1>4. QED
  BY <1>1, <1>2, <1>3

Ord(r, ch, i) == CountBefore(r, Of(r, ch), Key(r, i))

LEMMA OrdinalIsOrd ==
    ASSUME NEW r, NEW ch, NEW i \in Of(r, ch)
    PROVE  Ordinal(r, i) = Ord(r, ch, i)
BY DEF Ordinal, Ord, Of

\* The rows from a up to i, one end left out: either end gives the same number.
FromTo(r, ch, a, i) == {j \in Of(r, ch) : AtOrBefore(Key(r, a), Key(r, j)) /\ Before(Key(r, j), Key(r, i))}
AfterTo(r, ch, a, i) == {j \in Of(r, ch) : Before(Key(r, a), Key(r, j)) /\ AtOrBefore(Key(r, j), Key(r, i))}

LEMMA OrdBounds ==
    ASSUME NEW r \in RowTable, NEW ch \in Channels, NEW i \in Of(r, ch)
    PROVE  Ord(r, ch, i) \in Nat /\ Ord(r, ch, i) < Cardinality(Of(r, ch)) /\ Ord(r, ch, i) <= MaxId
<1> DEFINE B == {j \in Of(r, ch) : Before(Key(r, j), Key(r, i))}
<1>1. i \notin B /\ B \cup {i} \subseteq Of(r, ch) /\ B \subseteq Of(r, ch)
  BY OfFacts DEF Before, Key
<1> HIDE DEF B
<1>2. IsFiniteSet(B) /\ Cardinality(B) \in Nat
  BY <1>1, CountType
<1>3. Cardinality(B \cup {i}) = Cardinality(B) + 1
  BY <1>1, <1>2, FS_AddElement
<1>4. Cardinality(B \cup {i}) <= Cardinality(Of(r, ch))
  BY <1>1, CountType
<1>5. Cardinality(Of(r, ch)) \in 0..MaxId
  BY OfFacts
<1>6. QED
  BY <1>2, <1>3, <1>4, <1>5, StoreAssumption DEF Ord, CountBefore, B

LEMMA OrdUp ==
    ASSUME NEW r \in RowTable, NEW ch \in Channels, NEW a \in Of(r, ch), NEW i \in Of(r, ch),
           AtOrBefore(Key(r, a), Key(r, i))
    PROVE  /\ Ord(r, ch, i) = Ord(r, ch, a) + Cardinality(FromTo(r, ch, a, i))
           /\ Cardinality(FromTo(r, ch, a, i)) \in Nat
<1> DEFINE A == {j \in Of(r, ch) : Before(Key(r, j), Key(r, a))}
           B == {j \in Of(r, ch) : Before(Key(r, j), Key(r, i))}
           C == FromTo(r, ch, a, i)
<1>1. A \subseteq Of(r, ch) /\ C \subseteq Of(r, ch)
  BY DEF FromTo
<1>2. A \cap C = {} /\ B = A \cup C
  <2>1. \A j \in Of(r, ch) : /\ ~(j \in A /\ j \in C)
                             /\ j \in B <=> j \in A \/ j \in C
    BY OfFacts DEF FromTo, Before, AtOrBefore, Key
  <2>2. QED
    BY <1>1, <2>1
<1> HIDE DEF A, B, C
<1>3. Cardinality(B) = Cardinality(A) + Cardinality(C) /\ Cardinality(C) \in Nat
  BY <1>1, <1>2, CountUnion, CountType
<1>4. QED
  BY <1>3 DEF Ord, CountBefore, A, B, C

LEMMA OrdSpan ==
    ASSUME NEW r \in RowTable, NEW ch \in Channels, NEW a \in Of(r, ch), NEW i \in Of(r, ch),
           AtOrBefore(Key(r, a), Key(r, i))
    PROVE  /\ Ord(r, ch, i) = Ord(r, ch, a) + Cardinality(AfterTo(r, ch, a, i))
           /\ Cardinality(AfterTo(r, ch, a, i)) \in Nat
<1> DEFINE C == FromTo(r, ch, a, i)
           D == AfterTo(r, ch, a, i)
           E == C \cap D
<1>1. C \subseteq Of(r, ch) /\ D \subseteq Of(r, ch) /\ E \subseteq Of(r, ch)
  BY DEF FromTo, AfterTo
<1>2. IsFiniteSet(E) /\ Cardinality(E) \in Nat /\ Cardinality(C) \in Nat /\ Cardinality(D) \in Nat
  BY <1>1, CountType
<1>3. CASE a = i
  <2>1. C = {} /\ D = {}
    <3>1. \A j \in Of(r, ch) : j \notin C /\ j \notin D
      BY <1>3, OfFacts DEF FromTo, AfterTo, Before, AtOrBefore, Key
    <3>2. QED
      BY <1>1, <3>1
  <2>2. QED
    BY <1>2, <2>1, OrdUp
<1>4. CASE a # i
  <2>1. C = E \cup {a} /\ a \notin E /\ D = E \cup {i} /\ i \notin E
    <3>1. \A j \in Of(r, ch) : /\ j \in C <=> j \in E \/ j = a
                               /\ j \in D <=> j \in E \/ j = i
      BY <1>4, OfFacts DEF FromTo, AfterTo, Before, AtOrBefore, Key
    <3>2. a \notin D /\ i \notin C
      BY OfFacts DEF FromTo, AfterTo, Before, AtOrBefore, Key
    <3>3. QED
      BY <1>1, <3>1, <3>2
  <2> HIDE DEF E
  <2>2. Cardinality(E \cup {a}) = Cardinality(E) + 1 /\ Cardinality(E \cup {i}) = Cardinality(E) + 1
    BY <1>2, <2>1, FS_AddElement
  <2>3. Cardinality(C) = Cardinality(D)
    BY <2>1, <2>2
  <2>4. QED
    BY <1>2, <2>3, OrdUp
<1>5. QED
  BY <1>3, <1>4

LEMMA OrdLess ==
    ASSUME NEW r \in RowTable, NEW ch \in Channels, NEW a \in Of(r, ch), NEW i \in Of(r, ch),
           Before(Key(r, a), Key(r, i))
    PROVE  Ord(r, ch, a) < Ord(r, ch, i)
<1>1. AtOrBefore(Key(r, a), Key(r, i)) /\ a \in FromTo(r, ch, a, i)
  BY OfFacts DEF FromTo, Before, AtOrBefore, Key
<1>2. FromTo(r, ch, a, i) \subseteq Of(r, ch)
  BY DEF FromTo
<1>3. Cardinality(FromTo(r, ch, a, i)) # 0
  BY <1>1, <1>2, CountType, FS_EmptySet
<1>4. QED
  BY <1>1, <1>3, OrdUp, OrdBounds

LEMMA MaxTsProps ==
    ASSUME NEW r \in RowTable, NEW ch \in Channels
    PROVE  /\ MaxTs(r, ch) \in Nat
           /\ \A i \in Of(r, ch) : r[i].ts <= MaxTs(r, ch)
           /\ Of(r, ch) = {} => MaxTs(r, ch) = 0
           /\ Of(r, ch) # {} => \E i \in Of(r, ch) : MaxTs(r, ch) = r[i].ts
<1>1. CASE Of(r, ch) = {}
  BY <1>1 DEF MaxTs
<1>2. CASE Of(r, ch) # {}
  <2> DEFINE S == Of(r, ch)
             Later(i) == {j \in S : r[i].ts < r[j].ts}
             N == {Cardinality(Later(i)) : i \in S}
  <2>1. \A i \in S : /\ IsFiniteSet(Later(i)) /\ Cardinality(Later(i)) \in Nat
    BY CountType
  <2>2. N \subseteq Nat /\ N # {}
    BY <1>2, <2>1
  <2>3. PICK m \in N : \A n \in N : m <= n
    <3> HIDE DEF N
    <3> QED
      BY <2>2, LeastNat
  <2>4. PICK i \in S : m = Cardinality(Later(i))
    OBVIOUS
  <2>5. \A j \in S : r[j].ts <= r[i].ts
    <3> SUFFICES ASSUME NEW j \in S, ~(r[j].ts <= r[i].ts) PROVE FALSE
      OBVIOUS
    <3>1. \A k \in S : r[k].ts \in Nat
      BY OfFacts
    <3>2. j \in Later(i) /\ j \notin Later(j) /\ Later(j) \subseteq Later(i)
      BY <3>1
    <3>3. Cardinality(Later(j)) <= Cardinality(Later(i)) /\ Cardinality(Later(j)) # Cardinality(Later(i))
      <4>1. Later(j) \in SUBSET Later(i) /\ IsFiniteSet(Later(i)) /\ Later(j) # Later(i)
        BY <2>1, <3>2
      <4> HIDE DEF Later
      <4>2. QED
        BY <4>1, FS_Subset
    <3>4. m <= Cardinality(Later(j)) /\ m \in Nat /\ Cardinality(Later(j)) \in Nat
      BY <2>1, <2>2, <2>3
    <3>5. QED
      BY <2>4, <3>3, <3>4
  <2>6. \E k \in S : MaxTs(r, ch) = r[k].ts /\ \A j \in S : r[j].ts <= r[k].ts
    BY <1>2, <2>5 DEF MaxTs
  <2>7. QED
    BY <1>2, <2>6, OfFacts
<1>3. QED
  BY <1>1, <1>2

LEMMA MaxTsIs ==
    ASSUME NEW r \in RowTable, NEW ch \in Channels, NEW t \in Nat,
           \A i \in Of(r, ch) : r[i].ts <= t,
           \E i \in Of(r, ch) : r[i].ts = t
    PROVE  MaxTs(r, ch) = t
<1>1. PICK k \in Of(r, ch) : MaxTs(r, ch) = r[k].ts
  BY MaxTsProps
<1>2. t <= MaxTs(r, ch) /\ MaxTs(r, ch) \in Nat
  BY MaxTsProps
<1>3. MaxTs(r, ch) <= t
  BY <1>1
<1>4. QED
  BY <1>2, <1>3

(***************************************************************************)
(* What a cache entry c says of channel ch, whose rows are in r.           *)
(***************************************************************************)
EntryOK(c) ==
    /\ c = [count |-> c.count, max_ts |-> c.max_ts, anchors |-> c.anchors]
    /\ c.count \in Int /\ c.max_ts \in Nat
    /\ c.count < 0 => c = Unknown
Anchored(c, r, ch) ==
    \A o \in DOMAIN c.anchors : \E i \in Of(r, ch) : c.anchors[o] = Key(r, i) /\ Ord(r, ch, i) = o
Limited(c) ==
    /\ DOMAIN c.anchors \subseteq Nat /\ IsFiniteSet(DOMAIN c.anchors)
    /\ Cardinality(DOMAIN c.anchors) <= SB_ANCHOR_MAX
Exact(c, r, ch) == c.count = Cardinality(Of(r, ch)) /\ c.max_ts = MaxTs(r, ch)

LEMMA UnknownOK ==
    ASSUME NEW r, NEW ch
    PROVE  /\ EntryOK(Unknown) /\ Anchored(Unknown, r, ch) /\ Limited(Unknown)
           /\ Unknown.count = -1 /\ Unknown.anchors = [o \in {} |-> 0]
<1>1. Unknown.count = -1 /\ Unknown.max_ts = 0 /\ Unknown.anchors = [o \in {} |-> 0]
  BY DEF Unknown
<1>2. DOMAIN Unknown.anchors = {}
  BY <1>1
<1>3. EntryOK(Unknown)
  BY <1>1 DEF EntryOK, Unknown
<1>4. QED
  BY <1>1, <1>2, <1>3, FS_EmptySet, StoreAssumption DEF Anchored, Limited

LEMMA AnchorDomain ==
    ASSUME NEW r \in RowTable, NEW ch \in Channels, NEW c, Anchored(c, r, ch)
    PROVE  /\ \A o \in DOMAIN c.anchors : o \in Nat /\ o <= MaxId
           /\ IsFiniteSet(DOMAIN c.anchors) /\ Cardinality(DOMAIN c.anchors) \in Nat
<1>1. \A o \in DOMAIN c.anchors : o \in Nat /\ o <= MaxId
  BY OrdBounds DEF Anchored
<1>2. DOMAIN c.anchors \in SUBSET Nat /\ MaxId \in Nat
  BY <1>1, StoreAssumption
<1>3. IsFiniteSet(DOMAIN c.anchors)
  BY <1>1, <1>2, FS_BoundedSetOfNaturals
<1>4. QED
  BY <1>1, <1>3, FS_CardinalityType

LEMMA FarthestProps ==
    ASSUME NEW A, DOMAIN A \subseteq Nat, NEW b \in Nat, \A g \in DOMAIN A : g <= b,
           DOMAIN A # {}, NEW o \in Nat
    PROVE  Farthest(A, o) \in DOMAIN A
<1> DEFINE D == {Dist(g, o) : g \in DOMAIN A}
<1>1. \A g \in DOMAIN A : Dist(g, o) \in Nat /\ Dist(g, o) <= b + o
  BY DEF Dist
<1>2. D \subseteq Nat /\ D # {} /\ \A d \in D : d <= b + o
  BY <1>1
<1>3. PICK d \in D : \A e \in D : e <= d
  <2> DEFINE m == b + o
  <2>1. m \in Nat /\ \A d \in D : d <= m
    BY <1>2
  <2> HIDE DEF D, m
  <2>2. QED
    BY <1>2, <2>1, GreatestNat
<1> DEFINE F == {g \in DOMAIN A : Dist(g, o) = d}
<1>4. F \subseteq Nat /\ F # {}
  BY <1>3
<1>5. PICK f \in F : \A g \in F : f <= g
  <2> HIDE DEF F
  <2> QED
    BY <1>4, LeastNat
<1>6. /\ f \in DOMAIN A
      /\ \A g \in DOMAIN A : \/ Dist(g, o) < Dist(f, o)
                             \/ Dist(g, o) = Dist(f, o) /\ f <= g
  <2>1. f \in DOMAIN A /\ Dist(f, o) = d /\ d \in Nat
    BY <1>2, <1>5
  <2>2. \A g \in DOMAIN A : Dist(g, o) \in Nat /\ Dist(g, o) <= d
    BY <1>1, <1>3
  <2>3. \A g \in DOMAIN A : Dist(g, o) = d => f <= g
    BY <1>5
  <2>4. ASSUME NEW g \in DOMAIN A
        PROVE  Dist(g, o) < Dist(f, o) \/ (Dist(g, o) = Dist(f, o) /\ f <= g)
    <3>1. Dist(g, o) \in Nat /\ Dist(g, o) <= d
      BY <2>2
    <3>2. Dist(g, o) = d => f <= g
      BY <2>3
    <3>3. Dist(g, o) < d \/ Dist(g, o) = d
      BY <2>1, <3>1
    <3>4. QED
      BY <2>1, <3>2, <3>3
  <2>5. QED
    BY <2>1, <2>4
<1>7. QED
  BY <1>6 DEF Farthest

(***************************************************************************)
(* Adding an anchor keeps the entry within its limit.                      *)
(***************************************************************************)
LEMMA AddLimited ==
    ASSUME NEW c, EntryOK(c), Limited(c), NEW o \in Int, NEW key,
           NEW d, d = chan_cache_add_anchor(c, o, key)
    PROVE  EntryOK(d) /\ Limited(d) /\ d.count = c.count /\ d.max_ts = c.max_ts
<1>1. CASE c.count < 0 \/ o < 0
  BY <1>1 DEF chan_cache_add_anchor
<1>2. CASE ~(c.count < 0 \/ o < 0)
  <2> DEFINE A == c.anchors
             full == o \notin DOMAIN A /\ Cardinality(DOMAIN A) >= SB_ANCHOR_MAX
             kept == IF full THEN DOMAIN A \ {Farthest(A, o)} ELSE DOMAIN A
             B == [p \in kept \cup {o} |-> IF p = o THEN key ELSE A[p]]
  <2>1. d = [c EXCEPT !.anchors = B]
    BY <1>2 DEF chan_cache_add_anchor
  <2>2. d = [count |-> c.count, max_ts |-> c.max_ts, anchors |-> B]
    <3> HIDE DEF B
    <3> QED
      BY <2>1 DEF EntryOK
  <2>3. d.count = c.count /\ d.max_ts = c.max_ts /\ d.anchors = B
    <3> HIDE DEF B
    <3> QED
      BY <2>2
  <2>4. EntryOK(d)
    <3> HIDE DEF B
    <3> QED
      BY <1>2, <2>2, <2>3 DEF EntryOK
  <2>5. DOMAIN A \subseteq Nat /\ IsFiniteSet(DOMAIN A) /\ Cardinality(DOMAIN A) \in Nat
    BY FS_CardinalityType DEF Limited
  <2>6. kept \subseteq DOMAIN A /\ DOMAIN B = kept \cup {o}
    OBVIOUS
  <2>7. Limited(d)
    <3>1. SB_ANCHOR_MAX \in Nat /\ SB_ANCHOR_MAX >= 1 /\ o \in Nat
      BY <1>2, StoreAssumption
    <3>2. Cardinality(DOMAIN A) <= SB_ANCHOR_MAX
      BY DEF Limited
    <3>3. Cardinality(kept \cup {o}) <= SB_ANCHOR_MAX
      <4>1. CASE o \in DOMAIN A
        <5>1. kept \cup {o} = DOMAIN A
          BY <4>1
        <5>2. QED
          BY <3>2, <5>1
      <4>2. CASE o \notin DOMAIN A /\ ~full
        <5>1. kept = DOMAIN A
          BY <4>2
        <5>2. Cardinality(DOMAIN A \cup {o}) = Cardinality(DOMAIN A) + 1
          BY <2>5, <4>2, FS_AddElement
        <5>3. QED
          BY <2>5, <3>1, <4>2, <5>1, <5>2
      <4>3. CASE full
        <5>1. DOMAIN A # {}
          BY <3>1, <4>3, FS_EmptySet
        <5>2. Farthest(A, o) \in DOMAIN A
          <6>1. PICK top \in DOMAIN A : \A g \in DOMAIN A : g <= top
            BY <2>5, <5>1, FiniteGreatest
          <6> HIDE DEF A
          <6>2. QED
            BY <2>5, <3>1, <5>1, <6>1, FarthestProps
        <5>3. kept = DOMAIN A \ {Farthest(A, o)}
          BY <4>3
        <5>4. IsFiniteSet(kept) /\ Cardinality(kept) = Cardinality(DOMAIN A) - 1
          BY <2>5, <5>2, <5>3, FS_RemoveElement
        <5>5. o \notin kept
          BY <4>3, <5>3
        <5>6. Cardinality(kept \cup {o}) = Cardinality(kept) + 1
          <6> HIDE DEF kept
          <6> QED
            BY <5>4, <5>5, FS_AddElement
        <5>7. QED
          BY <2>5, <3>1, <3>2, <5>4, <5>6
      <4>4. QED
        BY <4>1, <4>2, <4>3
    <3>4. kept \cup {o} \subseteq Nat /\ IsFiniteSet(kept \cup {o})
      <4>1. kept \subseteq DOMAIN A
        BY <2>6
      <4>2. IsFiniteSet(kept)
        <5> HIDE DEF kept
        <5> QED
          BY <2>5, <4>1, FS_Subset
      <4>3. IsFiniteSet(kept \cup {o})
        <5> HIDE DEF kept
        <5> QED
          BY <4>2, FS_AddElement
      <4>4. QED
        BY <2>5, <3>1, <4>1, <4>3
    <3>5. QED
      BY <2>3, <2>6, <3>3, <3>4 DEF Limited
  <2>8. QED
    BY <2>3, <2>4, <2>7
<1>3. QED
  BY <1>1, <1>2

\* ... and true, when it is added for a row at its ordinal.
LEMMA AddAnchor ==
    ASSUME NEW r \in RowTable, NEW ch \in Channels, NEW c, EntryOK(c), Anchored(c, r, ch),
           NEW o \in Int, NEW i \in Of(r, ch), Ord(r, ch, i) = o,
           NEW d, d = chan_cache_add_anchor(c, o, Key(r, i))
    PROVE  Anchored(d, r, ch)
<1>1. CASE c.count < 0 \/ o < 0
  BY <1>1 DEF chan_cache_add_anchor
<1>2. CASE ~(c.count < 0 \/ o < 0)
  <2> DEFINE A == c.anchors
             full == o \notin DOMAIN A /\ Cardinality(DOMAIN A) >= SB_ANCHOR_MAX
             kept == IF full THEN DOMAIN A \ {Farthest(A, o)} ELSE DOMAIN A
             B == [p \in kept \cup {o} |-> IF p = o THEN Key(r, i) ELSE A[p]]
  <2>1. d = [c EXCEPT !.anchors = B]
    BY <1>2 DEF chan_cache_add_anchor
  <2>2. d.anchors = B
    <3> HIDE DEF B
    <3> QED
      BY <2>1 DEF EntryOK
  <2>3. kept \subseteq DOMAIN A /\ DOMAIN B = kept \cup {o}
    OBVIOUS
  <2> SUFFICES ASSUME NEW p \in kept \cup {o}
               PROVE  \E x \in Of(r, ch) : B[p] = Key(r, x) /\ Ord(r, ch, x) = p
    BY <2>2 DEF Anchored
  <2>4. CASE p = o
    BY <2>4
  <2>5. CASE p # o
    BY <2>3, <2>5 DEF Anchored
  <2>6. QED
    BY <2>4, <2>5
<1>3. QED
  BY <1>1, <1>2

(***************************************************************************)
(* Counting fills an unknown entry from the table, or, when it fails, with *)
(* 0; an entry that is known stays as it is.                               *)
(***************************************************************************)
LEMMA EnsureCount ==
    ASSUME NEW r \in RowTable, NEW ch \in Channels, NEW e, EntryOK(e), Limited(e),
           NEW ok \in BOOLEAN, NEW c, c = chan_cache_ensure_count(e, r, ch, ok)
    PROVE  /\ EntryOK(c) /\ Limited(c) /\ c.count >= 0
           /\ Anchored(e, r, ch) => Anchored(c, r, ch)
           /\ /\ ok \/ e.count >= 0
              /\ e.count >= 0 => Exact(e, r, ch)
              => Exact(c, r, ch)
<1>1. e.count \in Int
  BY DEF EntryOK
<1>2. CASE e.count >= 0
  BY <1>1, <1>2 DEF chan_cache_ensure_count
<1>3. CASE e.count < 0 /\ ok
  <2>1. e = Unknown
    BY <1>3 DEF EntryOK
  <2>2. c = [count |-> Cardinality(Of(r, ch)), max_ts |-> MaxTs(r, ch), anchors |-> Unknown.anchors]
    <3>1. c = [e EXCEPT !.count = Cardinality(Of(r, ch)), !.max_ts = MaxTs(r, ch)]
      BY <1>1, <1>3 DEF chan_cache_ensure_count
    <3>2. QED
      BY <2>1, <3>1 DEF Unknown
  <2>3. /\ c.count = Cardinality(Of(r, ch)) /\ c.max_ts = MaxTs(r, ch)
        /\ c.anchors = Unknown.anchors
    BY <2>2
  <2>4. MaxTs(r, ch) \in Nat /\ Cardinality(Of(r, ch)) \in Nat
    BY MaxTsProps, OfFacts, StoreAssumption
  <2>5. EntryOK(c)
    BY <2>2, <2>3, <2>4 DEF EntryOK
  <2>6. Limited(c) /\ (Anchored(e, r, ch) => Anchored(c, r, ch))
    BY <2>1, <2>3 DEF Limited, Anchored
  <2>7. QED
    BY <2>3, <2>4, <2>5, <2>6 DEF Exact
<1>4. CASE e.count < 0 /\ ~ok
  <2>1. e = Unknown
    BY <1>4 DEF EntryOK
  <2>2. c = [count |-> 0, max_ts |-> 0, anchors |-> Unknown.anchors]
    BY <1>1, <1>4, <2>1 DEF chan_cache_ensure_count, Unknown
  <2>3. c.count = 0 /\ c.max_ts = 0 /\ c.anchors = Unknown.anchors
    BY <2>2
  <2>4. EntryOK(c)
    BY <2>2, <2>3 DEF EntryOK
  <2>5. Limited(c) /\ (Anchored(e, r, ch) => Anchored(c, r, ch))
    BY <2>1, <2>3 DEF Limited, Anchored
  <2>6. QED
    BY <1>1, <1>4, <2>3, <2>4, <2>5
<1>5. QED
  BY <1>1, <1>2, <1>3, <1>4

(***************************************************************************)
(* scrollback_load_range.  A plan's skip is the distance, in ordinals,     *)
(* from the anchor it seeks from to the first row wanted; a row's place in *)
(* the walk is its distance from that anchor.                              *)
(***************************************************************************)
PlanFrom(r, ch, p, off, end) ==
    \/ /\ p.path = "fwd"
       /\ \E a \in Of(r, ch) : /\ p.from = Key(r, a) /\ Ord(r, ch, a) <= off
                               /\ p.skip = off - Ord(r, ch, a)
    \/ /\ p.path = "bwd"
       /\ \E a \in Of(r, ch) : /\ p.from = Key(r, a) /\ Ord(r, ch, a) >= end
                               /\ p.skip = Ord(r, ch, a) - end
    \/ /\ p.path = "plain" /\ p.skip = off

LEMMA PlanProps ==
    ASSUME NEW r \in RowTable, NEW ch \in Channels, NEW c, Anchored(c, r, ch),
           NEW off \in Nat, NEW end \in Int
    PROVE  PlanFrom(r, ch, Plan(c, off, end), off, end)
<1> DEFINE below == {o \in DOMAIN c.anchors : o <= off}
           above == {o \in DOMAIN c.anchors : o >= end}
           b == Greatest(below)
           a == Least(above)
           p == Plan(c, off, end)
<1>1. \A o \in DOMAIN c.anchors : o \in Nat
  BY AnchorDomain
<1>2. below # {} => b \in below
  <2>1. below \subseteq Nat /\ \A n \in below : n <= off
    BY <1>1
  <2> HIDE DEF below
  <2>2. QED
    BY <2>1, GreatestProps
<1>3. above # {} => a \in above
  <2>1. above \subseteq Nat
    BY <1>1
  <2> HIDE DEF above
  <2>2. QED
    BY <2>1, LeastProps
<1>4. \/ below # {} /\ p = [path |-> "fwd", skip |-> off - b, from |-> c.anchors[b]]
      \/ above # {} /\ p = [path |-> "bwd", skip |-> a - end, from |-> c.anchors[a]]
      \/ p = [path |-> "plain", skip |-> off, from |-> NoCursor]
  BY DEF Plan
<1> HIDE DEF a, b, p
<1>5. CASE below # {} /\ p = [path |-> "fwd", skip |-> off - b, from |-> c.anchors[b]]
  <2>1. b \in DOMAIN c.anchors /\ b <= off
    BY <1>2, <1>5
  <2>2. PICK x \in Of(r, ch) : c.anchors[b] = Key(r, x) /\ Ord(r, ch, x) = b
    BY <2>1 DEF Anchored
  <2>3. QED
    BY <1>5, <2>1, <2>2 DEF PlanFrom, p
<1>6. CASE above # {} /\ p = [path |-> "bwd", skip |-> a - end, from |-> c.anchors[a]]
  <2>1. a \in DOMAIN c.anchors /\ a >= end
    BY <1>3, <1>6
  <2>2. PICK x \in Of(r, ch) : c.anchors[a] = Key(r, x) /\ Ord(r, ch, x) = a
    BY <2>1 DEF Anchored
  <2>3. QED
    BY <1>6, <2>1, <2>2 DEF PlanFrom, p
<1>7. CASE p = [path |-> "plain", skip |-> off, from |-> NoCursor]
  BY <1>7 DEF PlanFrom, p
<1>8. QED
  BY <1>4, <1>5, <1>6, <1>7

\* Where a row is in the walk, and which rows the walk leaves out.
LEMMA PlaceProps ==
    ASSUME NEW r \in RowTable, NEW ch \in Channels, NEW p,
           NEW off \in Nat, NEW end \in Int, PlanFrom(r, ch, p, off, end),
           NEW i \in Of(r, ch)
    PROVE  /\ p.path # "bwd" /\ i \in InRange(r, ch, p) =>
                    Ord(r, ch, i) = off + (Place(r, ch, p, i) - p.skip)
           /\ p.path = "bwd" /\ i \in InRange(r, ch, p) =>
                    Ord(r, ch, i) = end - (Place(r, ch, p, i) - p.skip)
           /\ i \in InRange(r, ch, p) => Place(r, ch, p, i) \in Nat
           /\ i \notin InRange(r, ch, p) => Ord(r, ch, i) < off \/ Ord(r, ch, i) > end
           /\ p.skip \in Nat
<1>1. Ord(r, ch, i) \in Nat /\ \A a \in Of(r, ch) : Ord(r, ch, a) \in Nat
  BY OrdBounds
<1>2. CASE p.path = "plain"
  <2>1. p.skip = off /\ p.path # "bwd" /\ p.path # "fwd"
    BY <1>2 DEF PlanFrom
  <2>2. InRange(r, ch, p) = Of(r, ch)
    BY <2>1 DEF InRange
  <2>3. Place(r, ch, p, i) = Ord(r, ch, i)
    BY <2>1, <2>2 DEF Place, Ord
  <2>4. QED
    BY <1>1, <2>1, <2>2, <2>3
<1>3. CASE p.path = "fwd"
  <2>1. PICK a \in Of(r, ch) : /\ p.from = Key(r, a) /\ Ord(r, ch, a) <= off
                               /\ p.skip = off - Ord(r, ch, a)
    BY <1>3 DEF PlanFrom
  <2>2. InRange(r, ch, p) = {j \in Of(r, ch) : AtOrBefore(Key(r, a), Key(r, j))}
    BY <1>3, <2>1 DEF InRange
  <2>3. CASE i \in InRange(r, ch, p)
    <3>1. AtOrBefore(Key(r, a), Key(r, i))
      BY <2>2, <2>3
    <3>2. Place(r, ch, p, i) = Cardinality(FromTo(r, ch, a, i))
      <4>1. {j \in InRange(r, ch, p) : Before(Key(r, j), Key(r, i))} = FromTo(r, ch, a, i)
        BY <2>2 DEF FromTo
      <4>2. QED
        BY <1>3, <4>1 DEF Place, CountBefore
    <3>3. QED
      BY <1>1, <1>3, <2>1, <2>3, <3>1, <3>2, OrdUp
  <2>4. CASE i \notin InRange(r, ch, p)
    <3>1. Before(Key(r, i), Key(r, a))
      BY <2>2, <2>4, OfFacts DEF Before, AtOrBefore, Key
    <3>2. Ord(r, ch, i) < Ord(r, ch, a)
      BY <3>1, OrdLess
    <3>3. QED
      BY <1>1, <1>3, <2>1, <2>4, <3>2
  <2>5. QED
    BY <2>3, <2>4
<1>4. CASE p.path = "bwd"
  <2>1. PICK a \in Of(r, ch) : /\ p.from = Key(r, a) /\ Ord(r, ch, a) >= end
                               /\ p.skip = Ord(r, ch, a) - end
    BY <1>4 DEF PlanFrom
  <2>2. InRange(r, ch, p) = {j \in Of(r, ch) : AtOrBefore(Key(r, j), Key(r, a))}
    BY <1>4, <2>1 DEF InRange
  <2>3. CASE i \in InRange(r, ch, p)
    <3>1. AtOrBefore(Key(r, i), Key(r, a))
      BY <2>2, <2>3
    <3>2. Place(r, ch, p, i) = Cardinality(AfterTo(r, ch, i, a))
      <4>1. {j \in InRange(r, ch, p) : Before(Key(r, i), Key(r, j))} = AfterTo(r, ch, i, a)
        BY <2>2 DEF AfterTo
      <4>2. QED
        BY <1>4, <4>1 DEF Place, CountAfter
    <3>3. QED
      BY <1>1, <1>4, <2>1, <2>3, <3>1, <3>2, OrdSpan
  <2>4. CASE i \notin InRange(r, ch, p)
    <3>1. Before(Key(r, a), Key(r, i))
      BY <2>2, <2>4, OfFacts DEF Before, AtOrBefore, Key
    <3>2. Ord(r, ch, a) < Ord(r, ch, i)
      BY <3>1, OrdLess
    <3>3. QED
      BY <1>1, <1>4, <2>1, <2>4, <3>2
  <2>5. QED
    BY <2>3, <2>4
<1>5. QED
  BY <1>2, <1>3, <1>4 DEF PlanFrom

(***************************************************************************)
(* The walk finds exactly the rows at the positions asked for.             *)
(***************************************************************************)
LEMMA LoadedProps ==
    ASSUME NEW r \in RowTable, NEW ch \in Channels, NEW c, Anchored(c, r, ch),
           c.count \in Int, c.count >= Cardinality(Of(r, ch)),
           NEW off \in Nat, NEW lim \in Nat, lim > 0
    PROVE  Loaded(r, c, ch, off, lim) = {i \in Of(r, ch) : Ord(r, ch, i) \in off .. off + lim - 1}
<1>1. \A i \in Of(r, ch) : Ord(r, ch, i) \in Nat /\ Ord(r, ch, i) < c.count
  BY OrdBounds, OfFacts
<1>2. CASE off >= c.count
  BY <1>1, <1>2 DEF Loaded
<1>3. CASE ~(off >= c.count)
  <2> DEFINE end == LastIndex(c, off, lim)
             p == Plan(c, off, end)
  <2>1. /\ end \in Int /\ off <= end /\ end <= off + lim - 1
        /\ end = off + lim - 1 \/ end = c.count - 1
    BY <1>3 DEF LastIndex
  <2>2. Loaded(r, c, ch, off, lim) = Walked(r, ch, p, end - off + 1)
    BY <1>3 DEF Loaded
  <2> HIDE DEF end
  <2>3. PlanFrom(r, ch, p, off, end)
    BY <2>1, PlanProps
  <2> HIDE DEF p
  <2>4. ASSUME NEW i \in Of(r, ch)
        PROVE  i \in Walked(r, ch, p, end - off + 1) <=> Ord(r, ch, i) \in off .. off + lim - 1
    <3>1. Ord(r, ch, i) \in off .. off + lim - 1 <=> off <= Ord(r, ch, i) /\ Ord(r, ch, i) <= end
      BY <1>1, <2>1
    <3>2. CASE i \in InRange(r, ch, p)
      <4>1. Place(r, ch, p, i) \in Nat /\ p.skip \in Nat
        BY <2>1, <2>3, <3>2, PlaceProps
      <4>2. \/ Ord(r, ch, i) = off + (Place(r, ch, p, i) - p.skip)
            \/ Ord(r, ch, i) = end - (Place(r, ch, p, i) - p.skip)
        <5>1. /\ p.path # "bwd" /\ i \in InRange(r, ch, p) =>
                    Ord(r, ch, i) = off + (Place(r, ch, p, i) - p.skip)
              /\ p.path = "bwd" /\ i \in InRange(r, ch, p) =>
                    Ord(r, ch, i) = end - (Place(r, ch, p, i) - p.skip)
          BY <2>1, <2>3, PlaceProps
        <5>2. QED
          BY <3>2, <5>1
      <4>3. i \in Walked(r, ch, p, end - off + 1) <=>
                /\ p.skip <= Place(r, ch, p, i)
                /\ Place(r, ch, p, i) <= p.skip + (end - off + 1) - 1
        BY <2>1, <3>2, <4>1 DEF Walked
      <4>4. QED
        BY <2>1, <3>1, <4>1, <4>2, <4>3
    <3>3. CASE i \notin InRange(r, ch, p)
      <4>1. Ord(r, ch, i) < off \/ Ord(r, ch, i) > end
        BY <2>1, <2>3, <3>3, PlaceProps
      <4>2. i \notin Walked(r, ch, p, end - off + 1)
        BY <3>3 DEF Walked
      <4>3. QED
        BY <1>1, <2>1, <3>1, <4>1, <4>2
    <3>4. QED
      BY <3>2, <3>3
  <2>5. Walked(r, ch, p, end - off + 1) \subseteq Of(r, ch)
    BY DEF Walked, InRange
  <2>6. QED
    BY <2>2, <2>4, <2>5
<1>4. QED
  BY <1>2, <1>3

(***************************************************************************)
(* scrollback_get_index_of_rowid: from an anchor at or before the row, or  *)
(* from the first one past it, the count in between gives the ordinal.     *)
(***************************************************************************)
LEMMA IndexOfProps ==
    ASSUME NEW r \in RowTable, NEW ch \in Channels, NEW c, Anchored(c, r, ch),
           NEW i \in Of(r, ch)
    PROVE  IndexOf(r, c, ch, i).ord = Ord(r, ch, i)
<1> DEFINE k == Key(r, i)
           past == {o \in DOMAIN c.anchors : ~AtOrBefore(c.anchors[o], k)}
           upto == {o \in DOMAIN c.anchors : \A p \in past : o < p}
           b == Greatest(upto)
           a == Least(past)
           Span(lo, hi) == Cardinality({j \in Of(r, ch) : /\ Before(lo, Key(r, j))
                                                          /\ AtOrBefore(Key(r, j), hi)})
           x == IndexOf(r, c, ch, i)
<1>1. \A o \in DOMAIN c.anchors : o \in Nat /\ o <= MaxId
  BY AnchorDomain
<1>2. upto # {} => b \in upto
  <2>1. upto \subseteq Nat /\ MaxId \in Nat /\ \A n \in upto : n <= MaxId
    BY <1>1, StoreAssumption
  <2> HIDE DEF upto
  <2>2. QED
    BY <2>1, GreatestProps
<1>3. past # {} => a \in past
  <2>1. past \subseteq Nat
    BY <1>1
  <2> HIDE DEF past
  <2>2. QED
    BY <2>1, LeastProps
<1>4. \/ upto # {} /\ x.ord = IF c.anchors[b] = k THEN b ELSE b + Span(c.anchors[b], k)
      \/ past # {} /\ x.ord = a - Span(k, c.anchors[a])
      \/ x.ord = CountBefore(r, Of(r, ch), k)
  BY DEF IndexOf
<1>5. CASE upto # {} /\ x.ord = IF c.anchors[b] = k THEN b ELSE b + Span(c.anchors[b], k)
  <2>1. b \in DOMAIN c.anchors /\ b \notin past
    <3>1. b \in upto
      BY <1>2, <1>5
    <3> HIDE DEF b
    <3>2. b \in DOMAIN c.anchors /\ b \in Nat
      BY <1>1, <3>1
    <3>3. b \in past => b < b
      BY <3>1
    <3>4. QED
      BY <3>2, <3>3
  <2>2. PICK y \in Of(r, ch) : c.anchors[b] = Key(r, y) /\ Ord(r, ch, y) = b
    BY <2>1 DEF Anchored
  <2>3. AtOrBefore(Key(r, y), Key(r, i))
    BY <2>1, <2>2
  <2>4. CASE c.anchors[b] = k
    <3>1. y = i
      BY <2>2, <2>4 DEF Key
    <3>2. QED
      BY <1>5, <2>2, <2>4, <3>1
  <2>5. CASE c.anchors[b] # k
    <3>1. Span(c.anchors[b], k) = Cardinality(AfterTo(r, ch, y, i))
      BY <2>2 DEF AfterTo
    <3>2. x.ord = Ord(r, ch, y) + Cardinality(AfterTo(r, ch, y, i))
      BY <1>5, <2>2, <2>5, <3>1
    <3>3. QED
      BY <2>3, <3>2, OrdSpan
  <2>6. QED
    BY <2>4, <2>5
<1>6. CASE past # {} /\ x.ord = a - Span(k, c.anchors[a])
  <2>1. a \in DOMAIN c.anchors /\ ~AtOrBefore(c.anchors[a], k)
    BY <1>3, <1>6
  <2>2. PICK y \in Of(r, ch) : c.anchors[a] = Key(r, y) /\ Ord(r, ch, y) = a
    BY <2>1 DEF Anchored
  <2>3. AtOrBefore(Key(r, i), Key(r, y))
    BY <2>1, <2>2, OfFacts DEF AtOrBefore, Key
  <2>4. Span(k, c.anchors[a]) = Cardinality(AfterTo(r, ch, i, y))
    BY <2>2 DEF AfterTo
  <2>5. x.ord = Ord(r, ch, y) - Cardinality(AfterTo(r, ch, i, y))
    BY <1>6, <2>2, <2>4
  <2>6. QED
    BY <2>3, <2>5, OrdSpan, OrdBounds
<1>7. CASE x.ord = CountBefore(r, Of(r, ch), k)
  BY <1>7 DEF Ord
<1>8. QED
  BY <1>4, <1>5, <1>6, <1>7

\* From anchors that are not true it is still a number.
LEMMA IndexOfInt ==
    ASSUME NEW r \in RowTable, NEW ch \in Channels, NEW c, Limited(c), NEW i \in Of(r, ch)
    PROVE  IndexOf(r, c, ch, i).ord \in Int
<1> DEFINE k == Key(r, i)
           past == {o \in DOMAIN c.anchors : ~AtOrBefore(c.anchors[o], k)}
           upto == {o \in DOMAIN c.anchors : \A p \in past : o < p}
           b == Greatest(upto)
           a == Least(past)
           Span(lo, hi) == Cardinality({j \in Of(r, ch) : /\ Before(lo, Key(r, j))
                                                          /\ AtOrBefore(Key(r, j), hi)})
           x == IndexOf(r, c, ch, i)
<1>1. \A lo, hi : Span(lo, hi) \in Int
  <2> SUFFICES ASSUME NEW lo, NEW hi PROVE Span(lo, hi) \in Int
    OBVIOUS
  <2> DEFINE X == {j \in Of(r, ch) : Before(lo, Key(r, j)) /\ AtOrBefore(Key(r, j), hi)}
  <2>1. X \subseteq Of(r, ch)
    OBVIOUS
  <2> HIDE DEF X
  <2>2. Cardinality(X) \in Nat
    BY <2>1, CountType
  <2>3. QED
    BY <2>2 DEF X
<1>2. upto # {} => b \in Int
  <2>1. upto \subseteq Nat /\ IsFiniteSet(upto)
    <3>1. upto \subseteq DOMAIN c.anchors
      OBVIOUS
    <3> HIDE DEF upto
    <3>2. QED
      BY <3>1, FS_Subset DEF Limited
  <2> HIDE DEF upto
  <2>2. upto # {} => \E m \in upto : \A n \in upto : n <= m
    BY <2>1, FiniteGreatest
  <2>3. upto # {} => b \in upto
    BY <2>2 DEF Greatest
  <2> HIDE DEF b
  <2>4. \A y \in upto : y \in Int
    BY <2>1
  <2>5. QED
    BY <2>3, <2>4, Zenon
<1>3. past # {} => a \in Int
  <2>1. past \subseteq Nat
    BY DEF Limited
  <2> HIDE DEF past
  <2>2. past # {} => a \in past
    BY <2>1, LeastProps
  <2> HIDE DEF a
  <2>3. \A y \in past : y \in Int
    BY <2>1
  <2>4. QED
    BY <2>2, <2>3, Zenon
<1>4. \/ upto # {} /\ x.ord = IF c.anchors[b] = k THEN b ELSE b + Span(c.anchors[b], k)
      \/ past # {} /\ x.ord = a - Span(k, c.anchors[a])
      \/ x.ord = CountBefore(r, Of(r, ch), k)
  BY DEF IndexOf
<1>5. CountBefore(r, Of(r, ch), k) \in Int
  BY OrdBounds DEF Ord
<1> HIDE DEF upto, past, a, b, Span, x
<1>6. QED
  BY <1>1, <1>2, <1>3, <1>4, <1>5 DEF x

(***************************************************************************)
(* What a change of the table does to what is said of a channel.           *)
(***************************************************************************)
Untouched(r, q, ch) == Of(r, ch) = Of(q, ch) /\ \A i \in Of(r, ch) : r[i].ts = q[i].ts

LEMMA UntouchedFacts ==
    ASSUME NEW r \in RowTable, NEW q \in RowTable, NEW ch \in Channels, Untouched(r, q, ch)
    PROVE  /\ Cardinality(Of(q, ch)) = Cardinality(Of(r, ch))
           /\ MaxTs(q, ch) = MaxTs(r, ch)
           /\ \A c : Anchored(c, r, ch) => Anchored(c, q, ch)
<1>1. Of(q, ch) = Of(r, ch) /\ \A i \in Of(r, ch) : q[i].ts = r[i].ts
  BY DEF Untouched
<1>2. MaxTs(q, ch) = MaxTs(r, ch)
  <2>1. CASE Of(r, ch) = {}
    BY <1>1, <2>1, MaxTsProps
  <2>2. CASE Of(r, ch) # {}
    <3>1. PICK k \in Of(r, ch) : MaxTs(r, ch) = r[k].ts
      BY <2>2, MaxTsProps
    <3>2. MaxTs(r, ch) \in Nat /\ \A i \in Of(r, ch) : r[i].ts <= MaxTs(r, ch)
      BY MaxTsProps
    <3>3. /\ \A i \in Of(q, ch) : q[i].ts <= MaxTs(r, ch)
          /\ \E i \in Of(q, ch) : q[i].ts = MaxTs(r, ch)
      BY <1>1, <3>1, <3>2
    <3>4. QED
      BY <3>2, <3>3, MaxTsIs
  <2>3. QED
    BY <2>1, <2>2
<1>3. \A i \in Of(r, ch) : Key(q, i) = Key(r, i)
  BY <1>1 DEF Key
<1>4. \A i \in Of(r, ch) : Ord(q, ch, i) = Ord(r, ch, i)
  <2> SUFFICES ASSUME NEW i \in Of(r, ch) PROVE Ord(q, ch, i) = Ord(r, ch, i)
    OBVIOUS
  <2>1. {j \in Of(q, ch) : Before(Key(q, j), Key(q, i))} =
            {j \in Of(r, ch) : Before(Key(r, j), Key(r, i))}
    BY <1>1, <1>3
  <2>2. QED
    BY <2>1 DEF Ord, CountBefore
<1>5. QED
  BY <1>1, <1>2, <1>3, <1>4 DEF Anchored

\* A row of a new greatest id, dated no earlier than the others, goes last.
LEMMA Appended ==
    ASSUME NEW r \in RowTable, NEW q \in RowTable, NEW m \in Messages, NEW n \in Ids,
           q = [r EXCEPT ![n] = m], r[n] = NoRow,
           \A i \in Ids : r[i] # NoRow => i < n
    PROVE  /\ Cardinality(Of(q, m.ch)) = Cardinality(Of(r, m.ch)) + 1
           /\ \A ch \in Channels : ch # m.ch => Untouched(r, q, ch)
           /\ (\A i \in Of(r, m.ch) : r[i].ts <= m.ts) =>
                 /\ MaxTs(q, m.ch) = m.ts
                 /\ \A c : Anchored(c, r, m.ch) => Anchored(c, q, m.ch)
<1>1. m.ch \in Channels /\ m.ch # 0 /\ m.ts \in Nat
  BY StoreAssumption
<1>2. q[n] = m /\ \A i \in Ids : i # n => q[i] = r[i]
  BY DEF RowTable
<1>3. r[n].ch = 0
  BY DEF NoRow
<1>4. \A ch \in Channels : ch # m.ch => Untouched(r, q, ch)
  BY <1>2, <1>3, StoreAssumption DEF Untouched, Of
<1>5. Of(q, m.ch) = Of(r, m.ch) \cup {n} /\ n \notin Of(r, m.ch)
  BY <1>1, <1>2, <1>3 DEF Of
<1>6. Cardinality(Of(q, m.ch)) = Cardinality(Of(r, m.ch)) + 1
  BY <1>1, <1>5, OfFacts, FS_AddElement
<1>7. ASSUME \A i \in Of(r, m.ch) : r[i].ts <= m.ts
      PROVE  /\ MaxTs(q, m.ch) = m.ts
             /\ \A c : Anchored(c, r, m.ch) => Anchored(c, q, m.ch)
  <2>1. \A i \in Of(r, m.ch) : i \in Ids /\ q[i] = r[i] /\ i # n /\ i < n /\ i \in Nat /\ r[i].ts \in Nat
    BY <1>1, <1>2, <1>5, OfFacts
  <2>2. MaxTs(q, m.ch) = m.ts
    <3>1. \A i \in Of(q, m.ch) : q[i].ts <= m.ts
      <4>1. \A i \in Of(r, m.ch) : q[i].ts <= m.ts
        BY <1>7, <2>1
      <4>2. q[n].ts <= m.ts
        BY <1>1, <1>2
      <4>3. QED
        BY <1>5, <4>1, <4>2
    <3>2. \E i \in Of(q, m.ch) : q[i].ts = m.ts
      BY <1>2, <1>5
    <3>3. QED
      BY <1>1, <3>1, <3>2, MaxTsIs
  <2>3. \A i \in Of(r, m.ch) : Key(q, i) = Key(r, i)
    BY <2>1 DEF Key
  <2>4. ASSUME NEW i \in Of(r, m.ch) PROVE Ord(q, m.ch, i) = Ord(r, m.ch, i)
    <3>1. ~Before(Key(q, n), Key(q, i))
      <4>1. /\ r[i].ts <= m.ts /\ r[i].ts \in Nat /\ i < n /\ i \in Nat /\ n \in Nat
            /\ q[n] = m /\ q[i] = r[i]
        BY <1>2, <1>7, <2>1, <2>4 DEF Ids
      <4>2. QED
        BY <1>1, <4>1 DEF Before, Key
    <3>2. {j \in Of(q, m.ch) : Before(Key(q, j), Key(q, i))} =
              {j \in Of(r, m.ch) : Before(Key(r, j), Key(r, i))}
      BY <1>5, <2>3, <2>4, <3>1
    <3>3. QED
      BY <3>2 DEF Ord, CountBefore
  <2>5. QED
    BY <1>5, <2>2, <2>3, <2>4 DEF Anchored
<1>8. QED
  BY <1>4, <1>6, <1>7

\* Fewer rows, with the same contents: a rollback.
LEMMA Shrunk ==
    ASSUME NEW r \in RowTable, NEW q \in RowTable, NEW ch \in Channels,
           \A i \in Ids : q[i] # NoRow => r[i] = q[i]
    PROVE  /\ Of(q, ch) \subseteq Of(r, ch)
           /\ Of(q, ch) = Of(r, ch) => Untouched(r, q, ch)
<1>1. \A i \in Of(q, ch) : i \in Ids /\ r[i] = q[i]
  BY OfFacts
<1>2. Of(q, ch) \subseteq Of(r, ch)
  BY <1>1 DEF Of
<1>3. QED
  BY <1>1, <1>2 DEF Untouched

(***************************************************************************)
(* The invariant of the ordinal cache: every entry is well formed and      *)
(* within its limit, and the entry of a channel that no failed COMMIT or   *)
(* COUNT has spoilt is true.                                               *)
(***************************************************************************)
Told(c, r, ch, gone) ==
    /\ EntryOK(c) /\ Limited(c)
    /\ ch \notin gone => Anchored(c, r, ch)
    /\ c.count >= 0 /\ ch \notin gone => Exact(c, r, ch)

CacheInv ==
    /\ cache = [ch \in Channels |-> cache[ch]]
    /\ \A ch \in Channels : Told(cache[ch], rows, ch, lost)

LEMMA ToldUnknown ==
    ASSUME NEW r, NEW ch, NEW gone
    PROVE  Told(Unknown, r, ch, gone)
BY UnknownOK DEF Told

LEMMA ToldUntouched ==
    ASSUME NEW r \in RowTable, NEW q \in RowTable, NEW ch \in Channels, Untouched(r, q, ch),
           NEW c, NEW gone, NEW gone2, Told(c, r, ch, gone),
           ch \in gone /\ c.count >= 0 => ch \in gone2
    PROVE  Told(c, q, ch, gone2)
<1>1. CASE c.count < 0
  <2>1. c = Unknown
    BY <1>1 DEF Told, EntryOK
  <2>2. QED
    BY <2>1, ToldUnknown
<1>2. CASE ~(c.count < 0)
  <2>1. c.count >= 0
    BY <1>2 DEF Told, EntryOK
  <2>2. QED
    BY <2>1, UntouchedFacts DEF Told, Exact
<1>3. QED
  BY <1>1, <1>2

LEMMA CacheReopened ==
    ASSUME Reopened
    PROVE  CacheInv'
<1>1. cache' = [ch \in Channels |-> Unknown]
  BY DEF Reopened
<1>2. \A ch \in Channels : Told(cache'[ch], rows', ch, lost')
  BY <1>1, ToldUnknown
<1>3. QED
  BY <1>1, <1>2 DEF CacheInv

LEMMA CacheInit == Init => CacheInv
<1> SUFFICES ASSUME Init PROVE CacheInv
  OBVIOUS
<1>1. cache = [ch \in Channels |-> Unknown]
  BY DEF Init
<1>2. \A ch \in Channels : Told(cache[ch], rows, ch, lost)
  BY <1>1, ToldUnknown
<1>3. QED
  BY <1>1, <1>2 DEF CacheInv

LEMMA CacheSame ==
    ASSUME CacheInv, UNCHANGED <<rows, cache, lost>>
    PROVE  CacheInv'
BY DEF CacheInv

\* Only the entry of one channel changes, and only the rows of that channel.
LEMMA CacheOne ==
    ASSUME SearchInv, CacheInv, rows' \in RowTable, NEW ch \in Channels, NEW d,
           cache' = [cache EXCEPT ![ch] = d],
           \A x \in Channels : x # ch => Untouched(rows, rows', x),
           \A x \in Channels : x # ch /\ x \in lost /\ cache[x].count >= 0 => x \in lost',
           Told(d, rows', ch, lost')
    PROVE  CacheInv'
<1>1. rows \in RowTable
  BY DEF SearchInv, TablesOK
<1>2. cache' = [x \in Channels |-> IF x = ch THEN d ELSE cache[x]]
  BY DEF CacheInv
<1>3. ASSUME NEW x \in Channels PROVE Told(cache'[x], rows', x, lost')
  <2>1. CASE x = ch
    BY <1>2, <2>1
  <2>2. CASE x # ch
    <3>1. cache'[x] = cache[x] /\ Told(cache[x], rows, x, lost)
      BY <1>2, <2>2 DEF CacheInv
    <3>2. Untouched(rows, rows', x) /\ (x \in lost /\ cache[x].count >= 0 => x \in lost')
      BY <2>2
    <3>3. Told(cache[x], rows', x, lost')
      BY <1>1, <3>1, <3>2, ToldUntouched
    <3>4. QED
      BY <3>1, <3>3
  <2>3. QED
    BY <2>1, <2>2
<1>4. QED
  BY <1>2, <1>3 DEF CacheInv

LEMMA CacheSave ==
    ASSUME SearchInv, CacheInv, NEW m \in Messages, scrollback_db_save(m), SearchInv'
    PROVE  CacheInv'
<1> DEFINE n == NewId
           ch == m.ch
           d == chan_cache_note_insert(cache[ch], m.ts)
<1>1. /\ n \in Ids /\ rows' = [rows EXCEPT ![n] = m]
      /\ cache' = [cache EXCEPT ![ch] = chan_cache_note_insert(@, m.ts)]
      /\ lost' = {x \in lost : cache'[x].count >= 0}
  BY DEF scrollback_db_save, Storable, Remember
<1>2. rows \in RowTable /\ rows' \in RowTable
  BY DEF SearchInv, TablesOK
<1>3. rows[n] = NoRow /\ \A i \in Ids : rows[i] # NoRow => i < n
  BY <1>1, <1>2, NewIdFree DEF RowTable
<1>4. ch \in Channels /\ m.ts \in Nat
  BY MessageRow
<1>5. cache' = [x \in Channels |-> IF x = ch THEN d ELSE cache[x]]
  BY <1>1, <1>4 DEF CacheInv
<1>6. /\ Cardinality(Of(rows', ch)) = Cardinality(Of(rows, ch)) + 1
      /\ \A x \in Channels : x # ch => Untouched(rows, rows', x)
      /\ (\A i \in Of(rows, ch) : rows[i].ts <= m.ts) =>
             /\ MaxTs(rows', ch) = m.ts
             /\ \A c : Anchored(c, rows, ch) => Anchored(c, rows', ch)
  <2> HIDE DEF n
  <2> QED
    BY <1>1, <1>2, <1>3, Appended
<1>7. Told(cache[ch], rows, ch, lost)
  BY <1>4 DEF CacheInv
<1> HIDE DEF n, ch, d
<1>8. /\ EntryOK(d) /\ Limited(d)
      /\ d.count >= 0 /\ ch \notin lost => Anchored(d, rows', ch) /\ Exact(d, rows', ch)
  <2> DEFINE c == cache[ch]
  <2>1. /\ EntryOK(c) /\ Limited(c)
        /\ ch \notin lost => Anchored(c, rows, ch)
        /\ c.count >= 0 /\ ch \notin lost => Exact(c, rows, ch)
    BY <1>7 DEF Told
  <2>2. c.count \in Int /\ c.max_ts \in Nat
    BY <2>1 DEF EntryOK
  <2>3. CASE c.count < 0
    <3>1. d = c
      BY <2>2, <2>3 DEF d, ch, chan_cache_note_insert
    <3>2. d = Unknown
      BY <2>1, <2>3, <3>1 DEF EntryOK
    <3>3. QED
      BY <3>2, UnknownOK
  <2>4. CASE c.count >= 0 /\ ~(c.count = 0 \/ m.ts >= c.max_ts)
    <3>1. d = Unknown
      BY <2>2, <2>4 DEF d, ch, chan_cache_note_insert
    <3>2. QED
      BY <3>1, UnknownOK
  <2>5. CASE c.count >= 0 /\ (c.count = 0 \/ m.ts >= c.max_ts)
    <3>1. d = [c EXCEPT !.count = @ + 1, !.max_ts = m.ts]
      BY <2>2, <2>5 DEF d, ch, chan_cache_note_insert
    <3>2. c = [count |-> c.count, max_ts |-> c.max_ts, anchors |-> c.anchors]
      BY <2>1 DEF EntryOK
    <3>3. d = [count |-> c.count + 1, max_ts |-> m.ts, anchors |-> c.anchors]
      <4> HIDE DEF c
      <4> QED
        BY <3>1, <3>2
    <3>4. d.count = c.count + 1 /\ d.max_ts = m.ts /\ d.anchors = c.anchors
      BY <3>3
    <3>5. EntryOK(d)
      BY <1>4, <2>2, <2>5, <3>3, <3>4 DEF EntryOK
    <3>6. Limited(d)
      BY <2>1, <3>4 DEF Limited
    <3>7. ASSUME ch \notin lost PROVE Anchored(d, rows', ch) /\ Exact(d, rows', ch)
      <4>1. Exact(c, rows, ch) /\ Anchored(c, rows, ch)
        BY <2>1, <2>5, <3>7
      <4>2. \A i \in Of(rows, ch) : rows[i].ts <= m.ts
        <5>1. CASE c.count = 0
          <6>1. Cardinality(Of(rows, ch)) = 0
            BY <4>1, <5>1 DEF Exact
          <6>2. Of(rows, ch) = {}
            BY <1>2, <1>4, <6>1, OfFacts, FS_EmptySet DEF ch
          <6>3. QED
            BY <6>2
        <5>2. CASE m.ts >= c.max_ts
          <6>1. MaxTs(rows, ch) \in Nat /\ \A i \in Of(rows, ch) : rows[i].ts <= MaxTs(rows, ch)
            BY <1>2, <1>4, MaxTsProps
          <6>2. \A i \in Of(rows, ch) : rows[i].ts \in Nat
            BY <1>2, <1>4, OfFacts
          <6>3. MaxTs(rows, ch) = c.max_ts
            BY <4>1 DEF Exact
          <6>4. QED
            BY <1>4, <2>2, <5>2, <6>1, <6>2, <6>3
        <5>3. QED
          BY <2>5, <5>1, <5>2
      <4>3. MaxTs(rows', ch) = m.ts /\ Anchored(c, rows', ch)
        BY <1>6, <4>1, <4>2
      <4>4. Anchored(d, rows', ch)
        BY <3>4, <4>3 DEF Anchored
      <4>5. Exact(d, rows', ch)
        BY <1>6, <3>4, <4>1, <4>3 DEF Exact
      <4>6. QED
        BY <4>4, <4>5
    <3>8. QED
      BY <3>5, <3>6, <3>7
  <2>6. QED
    BY <2>2, <2>3, <2>4, <2>5
<1>9. ASSUME NEW x \in Channels PROVE Told(cache'[x], rows', x, lost')
  <2>1. CASE x = ch /\ d.count < 0
    <3>1. d = Unknown
      BY <1>8, <2>1 DEF EntryOK
    <3>2. QED
      BY <1>5, <2>1, <3>1, ToldUnknown
  <2>2. CASE x = ch /\ ~(d.count < 0)
    <3>1. cache'[x] = d /\ d.count >= 0
      BY <1>5, <1>8, <2>2 DEF EntryOK
    <3>2. ch \notin lost' => ch \notin lost
      BY <1>1, <2>2, <3>1
    <3>3. QED
      BY <1>8, <2>2, <3>1, <3>2 DEF Told
  <2>3. CASE x # ch
    <3>1. cache'[x] = cache[x] /\ Told(cache[x], rows, x, lost)
      BY <1>5, <2>3 DEF CacheInv
    <3>2. Untouched(rows, rows', x) /\ (x \in lost /\ cache[x].count >= 0 => x \in lost')
      BY <1>1, <1>6, <2>3, <3>1
    <3>3. Told(cache[x], rows', x, lost')
      BY <1>2, <3>1, <3>2, ToldUntouched
    <3>4. QED
      BY <3>1, <3>3
  <2>4. QED
    BY <2>1, <2>2, <2>3
<1>10. QED
  BY <1>5, <1>9 DEF CacheInv

\* A COMMIT that fails takes rows back: the channels it took them from are lost.
LEMMA CacheCommitFails ==
    ASSUME SearchInv, CacheInv, CommitFails
    PROVE  CacheInv'
<1>1. /\ txn.open /\ rows' = txn.rows /\ cache' = cache
      /\ lost' = lost \cup {ch \in Channels : /\ Of(rows, ch) # Of(txn.rows, ch)
                                              /\ cache[ch].count >= 0}
  BY DEF CommitFails
<1>2. rows \in RowTable /\ rows' \in RowTable
  BY <1>1 DEF SearchInv, TablesOK, NoTxn
<1>3. \A i \in Ids : rows'[i] # NoRow => rows[i] = rows'[i]
  BY <1>1 DEF SearchInv, Grown
<1>4. ASSUME NEW ch \in Channels PROVE Told(cache[ch], rows', ch, lost')
  <2>1. Told(cache[ch], rows, ch, lost) /\ EntryOK(cache[ch])
    BY DEF CacheInv, Told
  <2>2. CASE cache[ch].count < 0
    <3>1. cache[ch] = Unknown
      BY <2>1, <2>2 DEF EntryOK
    <3>2. QED
      BY <3>1, ToldUnknown
  <2>3. CASE ~(cache[ch].count < 0) /\ ch \in lost'
    BY <2>1, <2>3 DEF Told
  <2>4. CASE ~(cache[ch].count < 0) /\ ch \notin lost'
    <3>1. cache[ch].count >= 0
      BY <2>1, <2>4 DEF EntryOK
    <3>2. ch \notin lost /\ Of(rows', ch) = Of(rows, ch)
      BY <1>1, <2>4, <3>1
    <3>3. Untouched(rows, rows', ch)
      BY <1>2, <1>3, <3>2, Shrunk
    <3>4. QED
      BY <1>2, <2>1, <3>2, <3>3, ToldUntouched
  <2>5. QED
    BY <2>2, <2>3, <2>4
<1>5. QED
  BY <1>1, <1>4 DEF CacheInv

LEMMA CacheConfirm ==
    ASSUME SearchInv, CacheInv, SearchInv', NEW ch, NEW mid, ConfirmPending(ch, mid)
    PROVE  CacheInv'
<1>1. lost' = {x \in lost : cache'[x].count >= 0}
  BY DEF ConfirmPending, Remember
<1>2. PICK p \in Pending(ch) :
         \/ cache' = [c \in Channels |-> Unknown]
         \/ rows' = [rows EXCEPT ![p].mid = mid] /\ cache' = cache
  BY DEF ConfirmPending
<1>3. rows \in RowTable /\ rows' \in RowTable /\ p \in Ids
  BY DEF SearchInv, TablesOK, Pending, Of
<1>4. CASE cache' = [c \in Channels |-> Unknown]
  <2>1. \A x \in Channels : Told(cache'[x], rows', x, lost')
    BY <1>4, ToldUnknown
  <2>2. QED
    BY <1>1, <1>4, <2>1 DEF CacheInv
<1>5. CASE rows' = [rows EXCEPT ![p].mid = mid] /\ cache' = cache
  <2>1. rows' = [rows EXCEPT ![p] = [rows[p] EXCEPT !.mid = mid]]
    BY <1>3, <1>5 DEF RowTable
  <2>2. ASSUME NEW i \in Ids PROVE rows'[i].ch = rows[i].ch /\ rows'[i].ts = rows[i].ts
    <3>1. CASE i # p
      BY <1>3, <2>1, <3>1 DEF RowTable
    <3>2. CASE i = p
      <4>1. rows'[i] = [rows[p] EXCEPT !.mid = mid]
        BY <1>3, <2>1, <3>2 DEF RowTable
      <4>2. rows[p] \in Rows \cup {NoRow}
        BY <1>3 DEF RowTable
      <4>3. QED
        BY <3>2, <4>1, <4>2 DEF Rows, NoRow
    <3>3. QED
      BY <3>1, <3>2
  <2>3. \A x \in Channels : Untouched(rows, rows', x)
    BY <2>2 DEF Untouched, Of
  <2>4. \A x \in Channels : Told(cache[x], rows', x, lost')
    <3> SUFFICES ASSUME NEW x \in Channels PROVE Told(cache[x], rows', x, lost')
      OBVIOUS
    <3>1. Told(cache[x], rows, x, lost) /\ (x \in lost /\ cache[x].count >= 0 => x \in lost')
      BY <1>1, <1>5 DEF CacheInv
    <3>2. QED
      BY <1>3, <2>3, <3>1, ToldUntouched
  <2>5. QED
    BY <1>1, <1>5, <2>4 DEF CacheInv
<1>6. QED
  BY <1>2, <1>4, <1>5

LEMMA WithoutUntouched ==
    ASSUME SearchInv, NEW S, NEW ch, NEW x, rows' = RowsWithout(S),
           \A i \in S : i \in Ids => rows[i].ch = ch,
           x \in Channels, x # ch
    PROVE  Untouched(rows, rows', x)
<1>1. \A i \in Ids : rows'[i] = IF i \in S THEN NoRow ELSE rows[i]
  BY DEF RowsWithout
<1>2. NoRow.ch = 0 /\ x # 0
  BY StoreAssumption DEF NoRow
<1>3. QED
  BY <1>1, <1>2 DEF Untouched, Of

LEMMA CacheClear ==
    ASSUME SearchInv, CacheInv, SearchInv', NEW ch \in Channels, scrollback_clear(ch)
    PROVE  CacheInv'
<1>1. /\ lost' = {x \in lost : cache'[x].count >= 0}
      /\ cache' = [cache EXCEPT ![ch] = Unknown]
      /\ rows' = RowsWithout(Of(rows, ch))
  BY DEF scrollback_clear, Remember
<1>2. \A x \in Channels : x # ch => Untouched(rows, rows', x)
  <2>1. \A i \in Of(rows, ch) : rows[i].ch = ch
    BY DEF Of
  <2>2. QED
    BY <1>1, <2>1, WithoutUntouched
<1>3. \A x \in Channels : x # ch => cache'[x] = cache[x]
  BY <1>1 DEF CacheInv
<1>4. \A x \in Channels : x # ch /\ x \in lost /\ cache[x].count >= 0 => x \in lost'
  BY <1>1, <1>3
<1>5. rows' \in RowTable
  BY DEF SearchInv, TablesOK
<1>6. QED
  BY <1>1, <1>2, <1>4, <1>5, ToldUnknown, CacheOne

LEMMA ToldEnsured ==
    ASSUME NEW r \in RowTable, NEW ch \in Channels, NEW e, NEW gone, NEW gone2,
           Told(e, r, ch, gone), NEW ok \in BOOLEAN,
           ch \in gone => ch \in gone2,
           ok \/ e.count >= 0 \/ ch \in gone2,
           NEW c, c = chan_cache_ensure_count(e, r, ch, ok)
    PROVE  Told(c, r, ch, gone2) /\ c.count >= 0
<1>1. /\ EntryOK(e) /\ Limited(e)
      /\ ch \notin gone => Anchored(e, r, ch)
      /\ e.count >= 0 /\ ch \notin gone => Exact(e, r, ch)
  BY DEF Told
<1>2. /\ EntryOK(c) /\ Limited(c) /\ c.count >= 0
      /\ Anchored(e, r, ch) => Anchored(c, r, ch)
      /\ /\ ok \/ e.count >= 0
         /\ e.count >= 0 => Exact(e, r, ch)
         => Exact(c, r, ch)
  BY <1>1, EnsureCount
<1>3. QED
  BY <1>1, <1>2 DEF Told

LEMMA CacheLoad ==
    ASSUME SearchInv, CacheInv, SearchInv', NEW ch \in Channels, NEW ok \in BOOLEAN,
           scrollback_load(ch, ok)
    PROVE  CacheInv'
<1> DEFINE e == IF Pending(ch) = {} THEN cache[ch] ELSE Unknown
           d == chan_cache_ensure_count(e, rows', ch, ok)
<1>1. /\ rows' = RowsWithout(Pending(ch))
      /\ cache' = [cache EXCEPT ![ch] = d]
      /\ IF ok THEN lost' = IF Pending(ch) = {} THEN lost ELSE lost \ {ch}
         ELSE lost' = lost \cup {ch}
  BY DEF scrollback_load, Counted
<1>2. \A i \in Pending(ch) : rows[i].ch = ch
  BY DEF Pending, Of
<1>3. \A x \in Channels : x # ch => Untouched(rows, rows', x)
  BY <1>1, <1>2, WithoutUntouched
<1>4. \A x \in Channels : x # ch /\ x \in lost /\ cache[x].count >= 0 => x \in lost'
  BY <1>1
<1>5. rows \in RowTable /\ rows' \in RowTable
  BY DEF SearchInv, TablesOK
<1>6. Told(d, rows', ch, lost')
  <2>1. CASE Pending(ch) = {}
    <3>1. rows' = rows
      BY <1>1, <1>5, <2>1 DEF RowsWithout, RowTable
    <3>2. e = cache[ch] /\ Told(e, rows', ch, lost)
      BY <2>1, <3>1 DEF CacheInv
    <3>3. (ch \in lost => ch \in lost') /\ (ok \/ ch \in lost')
      BY <1>1, <2>1
    <3> HIDE DEF e
    <3>4. QED
      BY <1>5, <3>2, <3>3, ToldEnsured
  <2>2. CASE Pending(ch) # {}
    <3> DEFINE none == {}
    <3>1. Told(e, rows', ch, none)
      BY <2>2, ToldUnknown
    <3>2. (ok \/ ch \in lost') /\ (ch \in none => ch \in lost')
      BY <1>1
    <3> HIDE DEF e, none
    <3>3. QED
      BY <1>5, <3>1, <3>2, ToldEnsured
  <2>3. QED
    BY <2>1, <2>2
<1> HIDE DEF d
<1>7. QED
  BY <1>1, <1>3, <1>4, <1>5, <1>6, CacheOne

(***************************************************************************)
(* Reading adds anchors: both edges of a page, or the row looked up.       *)
(***************************************************************************)
LEMMA UntouchedSame == \A r, ch : Untouched(r, r, ch)
BY DEF Untouched

LEMMA ToldAdded ==
    ASSUME NEW r \in RowTable, NEW ch \in Channels, NEW c, NEW gone, Told(c, r, ch, gone),
           NEW o \in Int, NEW i \in Of(r, ch), ch \notin gone => Ord(r, ch, i) = o,
           NEW d, d = chan_cache_add_anchor(c, o, Key(r, i))
    PROVE  Told(d, r, ch, gone)
<1>1. EntryOK(c) /\ Limited(c)
  BY DEF Told
<1>2. EntryOK(d) /\ Limited(d) /\ d.count = c.count /\ d.max_ts = c.max_ts
  <2> DEFINE k == Key(r, i)
  <2>1. d = chan_cache_add_anchor(c, o, k)
    OBVIOUS
  <2> HIDE DEF k
  <2>2. QED
    BY <1>1, <2>1, AddLimited
<1>3. ch \notin gone => Anchored(d, r, ch)
  BY <1>1, AddAnchor DEF Told
<1>4. QED
  BY <1>2, <1>3 DEF Told, Exact

\* What counting first, for one of the reads, leaves to show.
LEMMA CacheCounted ==
    ASSUME SearchInv, CacheInv, NEW ch \in Channels, NEW ok \in BOOLEAN,
           Counted(cache[ch], ch, ok), UNCHANGED rows,
           NEW c, c = chan_cache_ensure_count(cache[ch], rows, ch, ok)
    PROVE  /\ Told(c, rows, ch, lost') /\ c.count >= 0
           /\ \A d : Told(d, rows, ch, lost') /\ cache' = [cache EXCEPT ![ch] = d] => CacheInv'
<1>1. /\ ok => lost' = lost
      /\ ~ok => lost' = lost \cup {ch}
  BY DEF Counted
<1>2. rows \in RowTable /\ rows' \in RowTable
  BY DEF SearchInv, TablesOK
<1>3. Told(cache[ch], rows, ch, lost)
  BY DEF CacheInv
<1>4. Told(c, rows, ch, lost') /\ c.count >= 0
  BY <1>1, <1>2, <1>3, ToldEnsured
<1>5. ASSUME NEW d, Told(d, rows, ch, lost'), cache' = [cache EXCEPT ![ch] = d]
      PROVE  CacheInv'
  <2>1. \A x \in Channels : x # ch /\ x \in lost /\ cache[x].count >= 0 => x \in lost'
    BY <1>1
  <2>2. Told(d, rows', ch, lost') /\ \A x \in Channels : x # ch => Untouched(rows, rows', x)
    BY <1>5, UntouchedSame
  <2>3. QED
    BY <1>2, <1>5, <2>1, <2>2, CacheOne
<1>6. QED
  BY <1>4, <1>5

LEMMA CacheLoadRange ==
    ASSUME SearchInv, CacheInv, NEW ch \in Channels, NEW offset \in Int, NEW limit \in Int,
           NEW ok \in BOOLEAN, scrollback_load_range(ch, offset, limit, ok)
    PROVE  CacheInv'
<1> DEFINE off == IF offset < 0 THEN 0 ELSE offset
           lim == IF limit <= 0 THEN 500 ELSE limit
           c == chan_cache_ensure_count(cache[ch], rows, ch, ok)
           end == LastIndex(c, off, lim)
           p == Plan(c, off, end)
           W == Loaded(rows, c, ch, off, lim)
           n == Cardinality(W)
           first_ord == IF p.path = "bwd" THEN end - n + 1 ELSE off
           Edges(near, far) ==
                /\ Place(rows, ch, p, near) = p.skip
                /\ Place(rows, ch, p, far) = p.skip + n - 1
                /\ cache' = [cache EXCEPT ![ch] = WithEdges(c, p, first_ord, n, near, far)]
<1>1. /\ Counted(cache[ch], ch, ok) /\ UNCHANGED rows
      /\ \/ cache' = [cache EXCEPT ![ch] = c]
         \/ \E near, far \in W : Edges(near, far)
  BY DEF scrollback_load_range, disk
<1>2. off \in Nat /\ lim \in Nat /\ lim > 0
  OBVIOUS
<1>3. rows \in RowTable
  BY DEF SearchInv, TablesOK
<1>4. /\ Told(c, rows, ch, lost') /\ c.count >= 0
      /\ \A d : Told(d, rows, ch, lost') /\ cache' = [cache EXCEPT ![ch] = d] => CacheInv'
  <2>1. Counted(cache[ch], ch, ok) /\ UNCHANGED rows
    BY <1>1
  <2> HIDE <1>1
  <2>2. QED
    BY <2>1, CacheCounted
<1>5. CASE cache' = [cache EXCEPT ![ch] = c]
  BY <1>4, <1>5
<1>6. CASE \E near, far \in W : Edges(near, far)
  <2>1. PICK near, far \in W : Edges(near, far)
    BY <1>6
  <2>2. c.count \in Int /\ (ch \notin lost' => Anchored(c, rows, ch))
    BY <1>4 DEF Told, EntryOK
  <2> HIDE DEF c
  <2>3. end \in Int
    BY <1>2, <2>2 DEF LastIndex
  <2>4. W \subseteq Of(rows, ch) /\ W \subseteq InRange(rows, ch, p)
    BY DEF Loaded, Walked, InRange
  <2>5. n \in Nat
    <3> HIDE DEF W
    <3> QED
      BY <1>3, <2>4, CountType
  <2>6. near \in Of(rows, ch) /\ far \in Of(rows, ch) /\ near \in InRange(rows, ch, p) /\ far \in InRange(rows, ch, p)
    BY <2>1, <2>4
  <2>7. /\ Place(rows, ch, p, near) = p.skip
        /\ Place(rows, ch, p, far) = p.skip + n - 1
        /\ cache' = [cache EXCEPT ![ch] = WithEdges(c, p, first_ord, n, near, far)]
    BY <2>1
  <2> HIDE DEF off, lim, end, W, n, Edges
  <2>8. ASSUME ch \notin lost'
        PROVE  /\ p.path # "bwd" => Ord(rows, ch, near) = off /\ Ord(rows, ch, far) = off + n - 1
               /\ p.path = "bwd" => Ord(rows, ch, near) = end /\ Ord(rows, ch, far) = end - n + 1
    <3>1. PlanFrom(rows, ch, p, off, end)
      BY <1>2, <1>3, <2>2, <2>3, <2>8, PlanProps
    <3> HIDE DEF p
    <3>2. /\ p.skip \in Nat
          /\ p.path # "bwd" => /\ Ord(rows, ch, near) = off + (Place(rows, ch, p, near) - p.skip)
                               /\ Ord(rows, ch, far) = off + (Place(rows, ch, p, far) - p.skip)
          /\ p.path = "bwd" => /\ Ord(rows, ch, near) = end - (Place(rows, ch, p, near) - p.skip)
                               /\ Ord(rows, ch, far) = end - (Place(rows, ch, p, far) - p.skip)
      BY <1>2, <1>3, <2>3, <2>6, <3>1, PlaceProps
    <3>3. QED
      BY <1>2, <2>3, <2>5, <2>7, <3>2
  <2> HIDE DEF p
  <2> DEFINE lo == IF p.path = "bwd" THEN far ELSE near
             hi == IF p.path = "bwd" THEN near ELSE far
             o2 == first_ord + n - 1
             d1 == chan_cache_add_anchor(c, first_ord, Key(rows, lo))
             d2 == chan_cache_add_anchor(d1, o2, Key(rows, hi))
  <2>9. /\ lo \in Of(rows, ch) /\ hi \in Of(rows, ch) /\ first_ord \in Int /\ o2 \in Int
        /\ ch \notin lost' => Ord(rows, ch, lo) = first_ord /\ Ord(rows, ch, hi) = o2
    BY <1>2, <2>3, <2>5, <2>6, <2>8
  <2>10. cache' = [cache EXCEPT ![ch] = d2]
    BY <2>7 DEF WithEdges
  <2> HIDE DEF lo, hi, first_ord, o2
  <2>11. Told(d1, rows, ch, lost')
    BY <1>3, <1>4, <2>9, ToldAdded
  <2> HIDE DEF d1
  <2>12. Told(d2, rows, ch, lost')
    BY <1>3, <2>9, <2>11, ToldAdded
  <2> HIDE DEF d2
  <2>13. QED
    BY <1>4, <2>10, <2>12
<1>7. QED
  BY <1>1, <1>5, <1>6

LEMMA CacheIndexOf ==
    ASSUME SearchInv, CacheInv, NEW ch \in Channels, NEW i \in Of(rows, ch),
           NEW ok \in BOOLEAN, scrollback_get_index_of_rowid(ch, i, ok)
    PROVE  CacheInv'
<1> DEFINE c == chan_cache_ensure_count(cache[ch], rows, ch, ok)
           x == IndexOf(rows, c, ch, i)
           o == x.ord
           e == chan_cache_add_anchor(c, o, Key(rows, i))
           d == IF x.add THEN e ELSE c
<1>1. /\ Counted(cache[ch], ch, ok) /\ UNCHANGED rows
      /\ cache' = [cache EXCEPT ![ch] = d]
  BY DEF scrollback_get_index_of_rowid, disk
<1>2. rows \in RowTable
  BY DEF SearchInv, TablesOK
<1>3. /\ Told(c, rows, ch, lost')
      /\ \A y : Told(y, rows, ch, lost') /\ cache' = [cache EXCEPT ![ch] = y] => CacheInv'
  <2>1. Counted(cache[ch], ch, ok) /\ UNCHANGED rows
    BY <1>1
  <2>2. QED
    BY <2>1, CacheCounted
<1>4. Limited(c) /\ (ch \notin lost' => Anchored(c, rows, ch))
  BY <1>3 DEF Told
<1> HIDE DEF c
<1>5. o \in Int /\ (ch \notin lost' => Ord(rows, ch, i) = o)
  BY <1>2, <1>4, IndexOfProps, IndexOfInt
<1> HIDE DEF o
<1>6. Told(e, rows, ch, lost')
  BY <1>2, <1>3, <1>5, ToldAdded
<1>7. Told(d, rows, ch, lost')
  BY <1>3, <1>6
<1> HIDE DEF d
<1>8. QED
  BY <1>1, <1>3, <1>7

LEMMA CacheNext == SearchInv /\ CacheInv /\ [Next]_vars => CacheInv'
<1> SUFFICES ASSUME SearchInv, CacheInv, [Next]_vars PROVE CacheInv'
  OBVIOUS
<1>1. SearchInv'
  BY SearchNext
<1>2. CASE UNCHANGED vars
  BY <1>2, CacheSame DEF vars
<1>3. CASE Store
  <2>1. ASSUME NEW m \in Messages, scrollback_db_save(m) \/ SaveKilled(m) PROVE CacheInv'
    BY <1>1, <2>1, CacheSave, CacheReopened DEF SaveKilled
  <2>2. ASSUME NEW ch \in Channels, NEW mid \in RealMids,
               ConfirmPending(ch, mid) \/ DeleteKilled(ch, mid)
        PROVE  CacheInv'
    BY <1>1, <2>2, CacheConfirm, CacheReopened DEF DeleteKilled
  <2>3. QED
    BY <1>3, <2>1, <2>2 DEF Store
<1>4. ASSUME NEW ch \in Tabs, Show(ch) PROVE CacheInv'
  <2>1. ch \in Channels /\ MaxId \in Int
    BY StoreAssumption
  <2>2. CASE \E offset \in -1..MaxId - 1, limit \in 0..MaxId - 1, ok \in BOOLEAN :
                  scrollback_load_range(ch, offset, limit, ok)
    BY <2>1, <2>2, CacheLoadRange
  <2>3. CASE \E i \in Of(rows, ch), ok \in BOOLEAN : scrollback_get_index_of_rowid(ch, i, ok)
    BY <2>1, <2>3, CacheIndexOf
  <2>4. CASE scrollback_clear(ch) \/ \E ok \in BOOLEAN : scrollback_load(ch, ok)
    BY <1>1, <2>1, <2>4, CacheClear, CacheLoad
  <2>5. CASE ClearKilled(ch) \/ LoadKilled(ch)
    BY <2>5, CacheReopened DEF ClearKilled, LoadKilled
  <2>6. QED
    BY <1>4, <2>2, <2>3, <2>4, <2>5 DEF Show
<1>5. CASE scrollback_begin_transaction \/ scrollback_commit_transaction \/ CommitFails
  BY <1>5, CacheSame, CacheCommitFails
     DEF scrollback_begin_transaction, scrollback_commit_transaction, disk
<1>6. CASE Tick
  <2>1. UNCHANGED <<rows, cache, lost>>
    BY <1>6 DEF Tick, fts_backfill_idle, disk
  <2>2. QED
    BY <2>1, CacheSame
<1>7. CASE Restart
  BY <1>7, CacheReopened DEF Restart
<1>8. QED
  BY <1>2, <1>3, <1>4, <1>5, <1>6, <1>7 DEF Next

LEMMA StoreInvariant == Spec => [](SearchInv /\ CacheInv)
<1>1. Init => SearchInv /\ CacheInv
  BY SearchInit, CacheInit
<1>2. SearchInv /\ CacheInv /\ [Next]_vars => (SearchInv /\ CacheInv)'
  BY SearchNext, CacheNext
<1>3. QED
  BY <1>1, <1>2, PTL DEF Spec

(***************************************************************************)
(* The ordinal cache tells the truth at every moment and keeps within its  *)
(* limit: the count and newest timestamp are the channel's and every       *)
(* anchor is the key of the row at its ordinal, except in a channel whose  *)
(* entry a failed COMMIT or a failed COUNT has spoilt and nothing has      *)
(* invalidated since (chan_cache_ensure_count, chan_cache_note_insert,     *)
(* chan_cache_invalidate, chan_cache_add_anchor and their callers).        *)
(***************************************************************************)
THEOREM Caching == Spec => []CacheTrue
<1>1. SearchInv /\ CacheInv => CacheTrue
  <2> SUFFICES ASSUME SearchInv, CacheInv PROVE CacheTrue
    OBVIOUS
  <2>1. CountTrue
    BY DEF CacheInv, Told, Exact, CountTrue, Sure
  <2>2. AnchorsTrue
    BY OrdinalIsOrd DEF CacheInv, Told, Anchored, AnchorsTrue, Sure
  <2>3. QED
    BY <2>1, <2>2 DEF CacheTrue, CacheInv, Told, Limited
<1>2. QED
  BY <1>1, StoreInvariant, PTL

(***************************************************************************)
(* Paging and looking up through the cache agree with the sorted rows,     *)
(* whichever anchors there are and whichever way is taken, in every        *)
(* channel whose entry no failed COMMIT or COUNT has spoilt                *)
(* (scrollback_load_range, scrollback_get_index_of_rowid).                 *)
(***************************************************************************)
THEOREM Reading == Spec => []ReadsTrue
<1>1. SearchInv /\ CacheInv => ReadsTrue
  <2> SUFFICES ASSUME SearchInv, CacheInv PROVE ReadsTrue
    OBVIOUS
  <2>1. rows \in RowTable /\ \A ch \in Tabs : ch \in Channels
    BY StoreAssumption DEF SearchInv, TablesOK
  <2>2. ASSUME NEW ch \in Tabs \cap Sure
        PROVE  /\ Anchored(CountedEntry(ch), rows, ch)
               /\ CountedEntry(ch).count \in Int
               /\ CountedEntry(ch).count >= Cardinality(Of(rows, ch))
    <3> DEFINE c == CountedEntry(ch)
    <3>1. c = chan_cache_ensure_count(cache[ch], rows, ch, TRUE)
      BY DEF CountedEntry
    <3>2. ch \in Channels /\ ch \notin lost /\ Told(cache[ch], rows, ch, lost)
      BY <2>1 DEF Sure, CacheInv
    <3> HIDE DEF c
    <3>3. Told(c, rows, ch, lost) /\ c.count >= 0
      BY <2>1, <3>1, <3>2, ToldEnsured
    <3>4. Cardinality(Of(rows, ch)) \in Nat
      BY <2>1, <3>2, OfFacts, StoreAssumption
    <3>5. Anchored(c, rows, ch) /\ c.count = Cardinality(Of(rows, ch))
      BY <3>2, <3>3 DEF Told, Exact
    <3>6. QED
      BY <3>4, <3>5 DEF c
  <2>3. RangesTrue
    <3> SUFFICES ASSUME NEW ch \in Tabs \cap Sure, NEW off \in 0..MaxId - 1, NEW lim \in Ids
                 PROVE  Loaded(rows, CountedEntry(ch), ch, off, lim)
                          = {i \in Of(rows, ch) : Ordinal(rows, i) \in off .. off + lim - 1}
      BY DEF RangesTrue
    <3>1. off \in Nat /\ lim \in Nat /\ lim > 0
      BY StoreAssumption DEF Ids
    <3>2. Loaded(rows, CountedEntry(ch), ch, off, lim)
              = {i \in Of(rows, ch) : Ord(rows, ch, i) \in off .. off + lim - 1}
      BY <2>1, <2>2, <3>1, LoadedProps
    <3>3. {i \in Of(rows, ch) : Ord(rows, ch, i) \in off .. off + lim - 1}
              = {i \in Of(rows, ch) : Ordinal(rows, i) \in off .. off + lim - 1}
      BY OrdinalIsOrd
    <3>4. QED
      BY <3>2, <3>3
  <2>4. IndexTrue
    <3> SUFFICES ASSUME NEW ch \in Tabs \cap Sure, NEW i \in Of(rows, ch)
                 PROVE  IndexOf(rows, CountedEntry(ch), ch, i).ord = Ordinal(rows, i)
      BY DEF IndexTrue
    <3>1. IndexOf(rows, CountedEntry(ch), ch, i).ord = Ord(rows, ch, i)
      BY <2>1, <2>2, IndexOfProps
    <3>2. QED
      BY <3>1, OrdinalIsOrd
  <2>5. QED
    BY <2>3, <2>4 DEF ReadsTrue
<1>2. QED
  BY <1>1, StoreInvariant, PTL
=============================================================================
