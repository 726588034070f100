-------------------------- MODULE ScrollbackStore --------------------------
(***************************************************************************)
(* The message store of src/src/common/scrollback.c for one network: the   *)
(* rows of the messages table, the in-memory ordinal cache that turns a    *)
(* position in a channel into a key to seek from, and the full-text index, *)
(* which is filled by the live path and by an idle backfill.               *)
(*                                                                         *)
(* A handler of the client's one thread is one action.  Outside a          *)
(* transaction every SQL statement commits by itself, so the process may   *)
(* be killed between two statements of one handler (the *Killed actions);  *)
(* a chathistory batch runs in one transaction, whose COMMIT may fail.     *)
(***************************************************************************)
EXTENDS Integers, FiniteSets, Sequences

CONSTANTS
    Channels,       \* channels.id
    Tabs,           \* the channels the front end shows; the rest are only stored
    Messages,       \* what arrives, where and when: [ch, ts, mid, text]
    MaxId,          \* bound: row ids, and with them rows
    MaxFaults,      \* bound: kills inside a handler, failed COMMITs and COUNTs
    SB_ANCHOR_MAX,
    FTS_BACKFILL_CHUNK

NONE == "none"          \* a NULL msgid
PENDING == "pending"    \* the placeholder "pending:<label>" of an unconfirmed echo

ASSUME StoreAssumption ==
    /\ Channels \subseteq Nat \ {0} /\ IsFiniteSet(Channels)
    /\ Tabs \subseteq Channels
    /\ \A m \in Messages :
        /\ m = [ch |-> m.ch, ts |-> m.ts, mid |-> m.mid, text |-> m.text]
        /\ m.ch \in Channels /\ m.ts \in Nat \ {0} /\ m.text # NONE
    /\ MaxId \in Nat \ {0} /\ MaxFaults \in Nat
    /\ SB_ANCHOR_MAX \in Nat \ {0}
    /\ FTS_BACKFILL_CHUNK \in Nat \ {0}

Ids == 1..MaxId
Rows == [ch : Channels, ts : {m.ts : m \in Messages},
         mid : {m.mid : m \in Messages}, text : {m.text : m \in Messages}]
NoRow == [ch |-> 0, ts |-> 0, mid |-> NONE, text |-> NONE]
Entries == [ch : Channels, text : {m.text : m \in Messages}]
NoEntry == [ch |-> 0, text |-> NONE]

\* sb_chan_cache; count -1 is "unknown", and so is a channel with no entry.
Key(r, i) == [ts |-> r[i].ts, id |-> i]
Unknown == [count |-> -1, max_ts |-> 0, anchors |-> [o \in {} |-> 0]]
NoCursor == [ch |-> 0, next |-> 0, max |-> 0]
NoTxn == [open |-> FALSE]

VARIABLES
    rows,       \* table messages: id -> row
    fts,        \* table messages_fts: rowid -> entry
    built,      \* channels.fts_built
    txn,        \* what a rollback restores, while a transaction is open
    cache,      \* scrollback_db.chan_cache
    state,      \* scrollback_db.fts_state
    queue,      \* scrollback_db.fts_queue
    cur,        \* fts_cur_channel, fts_cur_next, fts_cur_max
    idle,       \* fts_idle: the backfill source is armed
    torn,       \* history: ids whose row and entry a fault has parted
    lost,       \* history: channels whose cache a failed COMMIT or COUNT left wrong
    faults      \* history: how many faults there were

vars == <<rows, fts, built, txn, cache, state, queue, cur, idle, torn, lost, faults>>
disk == <<rows, fts, built, torn>>
index == <<state, queue, cur, idle>>

(***************************************************************************)
(* Rows of a channel in the order every query uses: (timestamp, id).       *)
(***************************************************************************)
Live(r) == {i \in Ids : r[i].ch # 0}
Of(r, ch) == {i \in Ids : r[i].ch = ch}
Before(a, b) == a.ts < b.ts \/ (a.ts = b.ts /\ a.id < b.id)
AtOrBefore(a, b) == a.ts < b.ts \/ (a.ts = b.ts /\ a.id <= b.id)

\* How many rows of S come before / after key k.
CountBefore(r, S, k) == Cardinality({j \in S : Before(Key(r, j), k)})
CountAfter(r, S, k) == Cardinality({j \in S : Before(k, Key(r, j))})
Ordinal(r, i) == CountBefore(r, Of(r, r[i].ch), Key(r, i))
MaxTs(r, ch) ==
    IF Of(r, ch) = {} THEN 0
    ELSE r[CHOOSE i \in Of(r, ch) : \A j \in Of(r, ch) : r[j].ts <= r[i].ts].ts
MaxRowId(S) == IF S = {} THEN 0 ELSE CHOOSE i \in S : \A j \in S : j <= i

(***************************************************************************)
(* The ordinal cache.                                                      *)
(***************************************************************************)
\* c is the entry of ch; a COUNT that fails (~ok) is cached as an empty channel.
chan_cache_ensure_count(c, r, ch, ok) ==
    CASE c.count >= 0 -> c
      [] c.count < 0 /\ ok -> [c EXCEPT !.count = Cardinality(Of(r, ch)),
                                       !.max_ts = MaxTs(r, ch)]
      [] OTHER -> [c EXCEPT !.count = 0]

chan_cache_note_insert_AnyDate(c, ts) ==
    IF c.count < 0 THEN c ELSE [c EXCEPT !.count = @ + 1]

chan_cache_note_insert(c, ts) ==
    CASE c.count < 0 -> c
      [] c.count >= 0 /\ (c.count = 0 \/ ts >= c.max_ts) ->
            [c EXCEPT !.count = @ + 1, !.max_ts = ts]
      [] OTHER -> Unknown

Dist(a, b) == IF a < b THEN b - a ELSE a - b
\* The first anchor, by ordinal, that is farthest from o.
Farthest(A, o) ==
    CHOOSE f \in DOMAIN A : \A g \in DOMAIN A :
        \/ Dist(g, o) < Dist(f, o)
        \/ Dist(g, o) = Dist(f, o) /\ f <= g

chan_cache_add_anchor(c, o, k) ==
    IF c.count < 0 \/ o < 0 THEN c
    ELSE LET A == c.anchors
             full == o \notin DOMAIN A /\ Cardinality(DOMAIN A) >= SB_ANCHOR_MAX
             kept == IF full THEN DOMAIN A \ {Farthest(A, o)} ELSE DOMAIN A
         IN [c EXCEPT !.anchors = [p \in kept \cup {o} |-> IF p = o THEN k ELSE A[p]]]

(***************************************************************************)
(* scrollback_load_range: seek from the nearest anchor at or before the    *)
(* first row wanted, from the nearest at or after the last, or walk from   *)
(* the start.  A plan says from which anchor and how many rows to skip.    *)
(***************************************************************************)
Greatest(S) == CHOOSE x \in S : \A y \in S : y <= x
Least(S) == CHOOSE x \in S : \A y \in S : x <= y

Plan(c, off, end) ==
    LET below == {o \in DOMAIN c.anchors : o <= off}
        above == {o \in DOMAIN c.anchors : o >= end}
        b == Greatest(below)
        a == Least(above)
    IN CASE below # {} /\ (above = {} \/ off - b <= a - end) ->
              [path |-> "fwd", skip |-> off - b, from |-> c.anchors[b]]
         [] above # {} /\ a - end < off /\ (below = {} \/ a - end < off - b) ->
              [path |-> "bwd", skip |-> a - end, from |-> c.anchors[a]]
         [] OTHER -> [path |-> "plain", skip |-> off, from |-> NoCursor]

\* The rows the chosen statement ranges over, and a row's place in its order.
InRange_Exclusive(r, ch, p) ==
    {i \in Of(r, ch) : CASE p.path = "fwd" -> Before(p.from, Key(r, i))
                         [] p.path = "bwd" -> AtOrBefore(Key(r, i), p.from)
                         [] OTHER -> TRUE}
InRange(r, ch, p) ==
    {i \in Of(r, ch) :
        CASE p.path = "fwd" -> AtOrBefore(p.from, Key(r, i))
          [] p.path = "bwd" -> AtOrBefore(Key(r, i), p.from)
          [] OTHER -> TRUE}
Place(r, ch, p, i) ==
    IF p.path = "bwd" THEN CountAfter(r, InRange(r, ch, p), Key(r, i))
    ELSE CountBefore(r, InRange(r, ch, p), Key(r, i))
\* ... LIMIT lim OFFSET p.skip
Walked(r, ch, p, lim) ==
    {i \in InRange(r, ch, p) : Place(r, ch, p, i) \in p.skip .. p.skip + lim - 1}

LastIndex(c, off, lim) == IF off + lim > c.count THEN c.count - 1 ELSE off + lim - 1
Loaded(r, c, ch, off, lim) ==
    IF off >= c.count THEN {}
    ELSE LET end == LastIndex(c, off, lim)
         IN Walked(r, ch, Plan(c, off, end), end - off + 1)

(***************************************************************************)
(* scrollback_get_index_of_rowid: the ordinal, and whether it is worth an  *)
(* anchor.  The loop over the anchors stops at the first one past the row. *)
(***************************************************************************)
IndexOf(r, c, ch, i) ==
    LET k == Key(r, i)
        past == {o \in DOMAIN c.anchors : ~AtOrBefore(c.anchors[o], k)}
        upto == {o \in DOMAIN c.anchors : \A p \in past : o < p}
        b == Greatest(upto)
        a == Least(past)
        Span(lo, hi) == Cardinality({j \in Of(r, ch) : /\ Before(lo, Key(r, j))
                                                       /\ AtOrBefore(Key(r, j), hi)})
    IN CASE upto # {} /\ c.count > 0 ->
              [ord |-> IF c.anchors[b] = k THEN b ELSE b + Span(c.anchors[b], k),
               add |-> c.anchors[b] # k]
         [] upto = {} /\ past # {} /\ c.count > 0 ->
              [ord |-> a - Span(k, c.anchors[a]), add |-> TRUE]
         [] OTHER -> [ord |-> CountBefore(r, Of(r, ch), k), add |-> FALSE]

(***************************************************************************)
(* What the handlers have in common.                                       *)
(***************************************************************************)
UNINDEXED == "unindexed"
BUILDING == "building"
BUILT == "built"

\* INSERT into messages_fts; a rowid that is already there is refused.
fts_index_row(f, i, ch, text) ==
    IF f[i] # NoEntry THEN f ELSE [f EXCEPT ![i] = [ch |-> ch, text |-> text]]

RowsWithout(S) == [i \in Ids |-> IF i \in S THEN NoRow ELSE rows[i]]
FtsWithout(S) == [i \in Ids |-> IF i \in S THEN NoEntry ELSE fts[i]]
Pending(ch) == {i \in Of(rows, ch) : rows[i].mid = PENDING}
InCallback == ~txn.open     \* no batch is being stored

\* What is still worth remembering of past faults.
Remember(T) == /\ torn' = {i \in T : rows'[i] # NoRow \/ fts'[i] # NoEntry}
               /\ lost' = {ch \in lost : cache'[ch].count >= 0}

Fault == faults < MaxFaults /\ faults' = faults + 1

\* The COUNT for ch, which is only made when c does not know, works or fails.
Counted(c, ch, ok) ==
    IF ok THEN UNCHANGED <<lost, faults>>
    ELSE c.count < 0 /\ Fault /\ lost' = lost \cup {ch}

\* scrollback_db_close or a kill, and scrollback_open: memory starts afresh.
Reopened == /\ txn' = NoTxn
            /\ cache' = [ch \in Channels |-> Unknown]
            /\ state' = [ch \in Channels |-> IF built'[ch] THEN BUILT ELSE UNINDEXED]
            /\ queue' = << >> /\ cur' = NoCursor /\ idle' = FALSE

Init ==
    /\ rows = [i \in Ids |-> NoRow] /\ fts = [i \in Ids |-> NoEntry]
    /\ built = [ch \in Channels |-> FALSE]
    /\ txn = NoTxn
    /\ cache = [ch \in Channels |-> Unknown]
    /\ state = [ch \in Channels |-> UNINDEXED]
    /\ queue = << >> /\ cur = NoCursor /\ idle = FALSE
    /\ torn = {} /\ lost = {} /\ faults = 0

(***************************************************************************)
(* Storing a message.  INSERT OR IGNORE drops a msgid the channel has      *)
(* already; SQLite gives a new row the id after the greatest in use, so    *)
(* the id of a deleted newest row is used again.                           *)
(***************************************************************************)
NewId == MaxRowId(Live(rows)) + 1
Storable(m) == /\ NewId \in Ids
               /\ \A i \in Of(rows, m.ch) : m.mid = NONE \/ rows[i].mid # m.mid

scrollback_db_save_BuiltOnly(m) ==
    /\ Storable(m)
    /\ rows' = [rows EXCEPT ![NewId] = m]
    /\ cache' = [cache EXCEPT ![m.ch] = chan_cache_note_insert(@, m.ts)]
    /\ fts' = IF state[m.ch] # BUILT THEN fts
              ELSE fts_index_row(fts, NewId, m.ch, m.text)
    /\ Remember(torn)
    /\ UNCHANGED <<built, txn, index, faults>>

scrollback_db_save(m) ==
    /\ Storable(m)
    /\ rows' = [rows EXCEPT ![NewId] = m]
    /\ cache' = [cache EXCEPT ![m.ch] = chan_cache_note_insert(@, m.ts)]
    /\ fts' = IF state[m.ch] = UNINDEXED THEN fts
              ELSE fts_index_row(fts, NewId, m.ch, m.text)
    /\ Remember(torn)
    /\ UNCHANGED <<built, txn, index, faults>>

SaveKilled(m) ==
    /\ InCallback /\ Fault /\ Storable(m)
    /\ rows' = [rows EXCEPT ![NewId] = m]
    /\ UNCHANGED <<fts, built>>
    /\ Reopened
    /\ Remember(IF state[m.ch] = UNINDEXED THEN torn ELSE torn \cup {NewId})

(***************************************************************************)
(* A chathistory batch (chathistory.c): BEGIN, a save for each message,    *)
(* COMMIT, in one callback.  A COMMIT that fails only logs a warning.      *)
(***************************************************************************)
scrollback_begin_transaction ==
    /\ InCallback
    /\ txn' = [open |-> TRUE, rows |-> rows, fts |-> fts]
    /\ UNCHANGED <<disk, cache, index, lost, faults>>

scrollback_commit_transaction ==
    /\ txn.open
    /\ txn' = NoTxn
    /\ UNCHANGED <<disk, cache, index, lost, faults>>

CommitFails ==
    /\ txn.open
    /\ Fault
    /\ rows' = txn.rows /\ fts' = txn.fts
    /\ txn' = NoTxn
    /\ lost' = lost \cup {ch \in Channels : /\ Of(rows, ch) # Of(txn.rows, ch)
                                            /\ cache[ch].count >= 0}
    /\ UNCHANGED <<built, torn, cache, index>>

(***************************************************************************)
(* scrollback_confirm_pending (text.c): the server's echo gives a pending  *)
(* row its msgid, or, when a replay has stored that message already,       *)
(* deletes the pending row.                                                *)
(***************************************************************************)
ConfirmPending(ch, mid) ==
    /\ InCallback
    /\ \E p \in Pending(ch) :
        IF \E i \in Of(rows, ch) : rows[i].mid = mid
        THEN /\ rows' = RowsWithout({p})
             /\ cache' = [c \in Channels |-> Unknown]
             /\ fts' = FtsWithout({p})
        ELSE /\ rows' = [rows EXCEPT ![p].mid = mid]
             /\ UNCHANGED <<cache, fts>>
    /\ Remember(torn)
    /\ UNCHANGED <<built, txn, index, faults>>

DeleteKilled(ch, mid) ==
    /\ InCallback /\ Fault
    /\ \E i \in Of(rows, ch) : rows[i].mid = mid
    /\ \E p \in Pending(ch) : /\ rows' = RowsWithout({p})
                              /\ UNCHANGED <<fts, built>>
                              /\ Reopened
                              /\ Remember(torn \cup {p})

\* scrollback_clear: the index first, then the rows.
scrollback_clear(ch) ==
    /\ InCallback
    /\ cache' = [cache EXCEPT ![ch] = Unknown]
    /\ fts' = FtsWithout({i \in Ids : fts[i].ch = ch})
    /\ rows' = RowsWithout(Of(rows, ch))
    /\ Remember(torn)
    /\ UNCHANGED <<built, txn, index, faults>>

ClearKilled(ch) ==
    /\ InCallback /\ Fault
    /\ fts' = FtsWithout({i \in Ids : fts[i].ch = ch})
    /\ UNCHANGED <<rows, built>>
    /\ Reopened
    /\ Remember(torn \cup Of(rows, ch))

(***************************************************************************)
(* scrollback_load (text.c) opens a channel's tab: drop the pending rows   *)
(* of an earlier session, count, and queue the channel for the backfill.   *)
(***************************************************************************)
scrollback_load(ch, ok) ==
    LET c == IF Pending(ch) = {} THEN cache[ch] ELSE Unknown IN
    /\ InCallback
    /\ rows' = RowsWithout(Pending(ch))
    /\ fts' = FtsWithout(Pending(ch))
    /\ cache' = [cache EXCEPT ![ch] = chan_cache_ensure_count(c, rows', ch, ok)]
    /\ IF state[ch] = UNINDEXED
       THEN /\ state' = [state EXCEPT ![ch] = BUILDING]
            /\ queue' = Append(queue, ch)
            /\ idle' = TRUE
       ELSE UNCHANGED <<state, queue, idle>>
    /\ torn' = {i \in torn : rows'[i] # NoRow \/ fts'[i] # NoEntry}
    /\ IF ok THEN lost' = (IF Pending(ch) = {} THEN lost ELSE lost \ {ch}) /\ UNCHANGED faults
       ELSE Counted(c, ch, ok)
    /\ UNCHANGED <<built, txn, cur>>

LoadKilled(ch) ==
    /\ InCallback /\ Fault /\ Pending(ch) # {}
    /\ fts' = FtsWithout(Pending(ch))
    /\ UNCHANGED <<rows, built>>
    /\ Reopened
    /\ Remember(torn \cup Pending(ch))

(***************************************************************************)
(* The front end pages through a channel and looks rows up, also while a   *)
(* batch is being stored.                                                  *)
(***************************************************************************)
\* Both edges of what was walked become anchors: the lower one first.
WithEdges(c, p, first_ord, n, near, far) ==
    LET lo == IF p.path = "bwd" THEN far ELSE near
        hi == IF p.path = "bwd" THEN near ELSE far
    IN chan_cache_add_anchor(chan_cache_add_anchor(c, first_ord, Key(rows, lo)),
                             first_ord + n - 1, Key(rows, hi))

scrollback_load_range(ch, offset, limit, ok) ==
    LET off == IF offset < 0 THEN 0 ELSE offset
        lim == IF limit <= 0 THEN 500 ELSE limit
        c == chan_cache_ensure_count(cache[ch], rows, ch, ok)
        end == LastIndex(c, off, lim)
        p == Plan(c, off, end)
        W == Loaded(rows, c, ch, off, lim)
        n == Cardinality(W)
        first_ord == IF p.path = "bwd" THEN end - n + 1 ELSE off
    IN /\ Counted(cache[ch], ch, ok)
       /\ \/ W = {} /\ cache' = [cache EXCEPT ![ch] = c]
          \/ \E near, far \in W :
                /\ Place(rows, ch, p, near) = p.skip
                /\ Place(rows, ch, p, far) = p.skip + n - 1
                /\ cache' = [cache EXCEPT ![ch] =
                                WithEdges(c, p, first_ord, n, near, far)]
       /\ UNCHANGED <<disk, txn, index>>

scrollback_get_index_of_rowid(ch, i, ok) ==
    LET c == chan_cache_ensure_count(cache[ch], rows, ch, ok)
        x == IndexOf(rows, c, ch, i)
    IN /\ Counted(cache[ch], ch, ok)
       /\ cache' = [cache EXCEPT ![ch] =
                       IF x.add THEN chan_cache_add_anchor(c, x.ord, Key(rows, i)) ELSE c]
       /\ UNCHANGED <<disk, txn, index>>

(***************************************************************************)
(* fts_backfill_idle: one chunk of the current channel, or of the next in  *)
(* the queue, oldest id first, in a transaction (ok: its COMMIT worked).   *)
(***************************************************************************)
Advanced_Stays(c, last) == c
Advanced(c, last) == [c EXCEPT !.next = last]

fts_backfill_idle(ok) ==
    /\ InCallback /\ idle
    /\ IF cur.ch = 0 /\ queue = << >>
       THEN idle' = FALSE /\ UNCHANGED <<disk, state, queue, cur>>
       ELSE LET c == IF cur.ch # 0 THEN cur
                     ELSE [ch |-> Head(queue), next |-> 0,
                           max |-> MaxRowId(Of(rows, Head(queue)))]
                todo == {i \in Of(rows, c.ch) : c.next < i /\ i <= c.max}
                Chunk(S) ==
                    /\ fts' = IF ok THEN [i \in Ids |->
                                            IF i \in S /\ fts[i] = NoEntry
                                            THEN [ch |-> c.ch, text |-> rows[i].text]
                                            ELSE fts[i]]
                              ELSE fts
                    /\ torn' = IF ok THEN torn ELSE torn \cup {i \in S : fts[i] = NoEntry}
            IN /\ queue' = IF cur.ch # 0 THEN queue ELSE Tail(queue)
               /\ \/ /\ Cardinality(todo) < FTS_BACKFILL_CHUNK
                     /\ Chunk(todo)
                     /\ built' = IF ok THEN [built EXCEPT ![c.ch] = TRUE] ELSE built
                     /\ state' = [state EXCEPT ![c.ch] = BUILT]
                     /\ cur' = NoCursor
                  \/ \E last \in todo :
                     LET S == {i \in todo : i <= last}
                     IN /\ Cardinality(S) = FTS_BACKFILL_CHUNK
                        /\ Chunk(S)
                        /\ cur' = Advanced(c, last)
                        /\ UNCHANGED <<built, state>>
               /\ UNCHANGED <<rows, idle>>
    /\ IF ok THEN UNCHANGED faults ELSE Fault
    /\ UNCHANGED <<txn, cache, lost>>

\* The process ends between two handlers, or inside a transaction.
Restart ==
    /\ IF txn.open THEN rows' = txn.rows /\ fts' = txn.fts ELSE UNCHANGED <<rows, fts>>
    /\ UNCHANGED <<built, torn>>
    /\ Reopened
    /\ lost' = {}
    /\ UNCHANGED faults

RealMids == {m.mid : m \in Messages} \ {NONE, PENDING}
Store ==
    \/ \E m \in Messages : scrollback_db_save(m) \/ SaveKilled(m)
    \/ \E ch \in Channels, mid \in RealMids :
            ConfirmPending(ch, mid) \/ DeleteKilled(ch, mid)
Show(ch) ==
    \/ scrollback_clear(ch) \/ ClearKilled(ch)
    \/ (\E ok \in BOOLEAN : scrollback_load(ch, ok)) \/ LoadKilled(ch)
    \/ \E offset \in -1..MaxId - 1, limit \in 0..MaxId - 1, ok \in BOOLEAN :
            scrollback_load_range(ch, offset, limit, ok)
    \/ \E i \in Of(rows, ch), ok \in BOOLEAN : scrollback_get_index_of_rowid(ch, i, ok)

Tick == \E ok \in BOOLEAN : fts_backfill_idle(ok)

Next ==
    \/ Store
    \/ \E ch \in Tabs : Show(ch)
    \/ scrollback_begin_transaction \/ scrollback_commit_transaction \/ CommitFails
    \/ Tick
    \/ Restart

\* A callback returns, and the main loop, whenever it has nothing else to do,
\* runs the idle source; a batch being stored only holds it up (hence SF).
Spec == Init /\ [][Next]_vars /\ SF_vars(Tick) /\ WF_vars(scrollback_commit_transaction)

(***************************************************************************)
(* Properties.                                                             *)
(***************************************************************************)
TypeOK ==
    /\ rows \in [Ids -> Rows \cup {NoRow}]
    /\ fts \in [Ids -> Entries \cup {NoEntry}]
    /\ built \in [Channels -> BOOLEAN]
    /\ txn.open => /\ txn.rows \in [Ids -> Rows \cup {NoRow}]
                   /\ txn.fts \in [Ids -> Entries \cup {NoEntry}]
    /\ DOMAIN cache = Channels
    /\ \A ch \in Channels :
        /\ cache[ch].count \in Int /\ cache[ch].count >= -1
        /\ cache[ch].max_ts \in {m.ts : m \in Messages} \cup {0}
        /\ DOMAIN cache[ch].anchors \subseteq Nat
        /\ Cardinality(DOMAIN cache[ch].anchors) <= SB_ANCHOR_MAX
    /\ state \in [Channels -> {UNINDEXED, BUILDING, BUILT}]
    /\ queue \in Seq(Channels)
    /\ cur.ch \in Channels \cup {0} /\ cur.next \in 0..MaxId /\ cur.max \in 0..MaxId
    /\ idle \in BOOLEAN
    /\ torn \subseteq Ids /\ lost \subseteq Channels /\ faults \in 0..MaxFaults

(***************************************************************************)
(* The cached count and newest timestamp are the channel's, and every      *)
(* anchor is the key of the row at its ordinal: no append, back-dated      *)
(* insert, deletion, clear or restart shifts a row under an anchor that    *)
(* survives it (chan_cache_note_insert, chan_cache_invalidate,             *)
(* chan_cache_add_anchor).  Two faults end it, until the channel's entry   *)
(* is next invalidated: a COMMIT that fails takes back rows that have been *)
(* counted, and a COUNT that fails is cached as an empty channel.          *)
(***************************************************************************)
Sure == Channels \ lost
CountTrue ==
    \A ch \in Sure : cache[ch].count >= 0 =>
        /\ cache[ch].count = Cardinality(Of(rows, ch))
        /\ cache[ch].max_ts = MaxTs(rows, ch)
AnchorsTrue ==
    \A ch \in Sure : \A o \in DOMAIN cache[ch].anchors :
        \E i \in Of(rows, ch) : cache[ch].anchors[o] = Key(rows, i) /\ Ordinal(rows, i) = o
CacheTrue ==
    /\ CountTrue /\ AnchorsTrue
    /\ \A ch \in Channels : Cardinality(DOMAIN cache[ch].anchors) <= SB_ANCHOR_MAX

(***************************************************************************)
(* Whichever way scrollback_load_range takes, it returns the rows at the   *)
(* positions asked for: seeking from an anchor never skips or repeats one. *)
(* Not after a failed COMMIT or COUNT, see above: with 0 cached for a      *)
(* channel that has rows it returns nothing.                               *)
(***************************************************************************)
CountedEntry(ch) == chan_cache_ensure_count(cache[ch], rows, ch, TRUE)
RangesTrue ==
    \A ch \in Tabs \cap Sure, off \in 0..MaxId - 1, lim \in Ids :
        Loaded(rows, CountedEntry(ch), ch, off, lim)
            = {i \in Of(rows, ch) : Ordinal(rows, i) \in off .. off + lim - 1}

\* scrollback_get_index_of_rowid finds the row's position, whatever anchors exist.
IndexTrue ==
    \A ch \in Tabs \cap Sure : \A i \in Of(rows, ch) :
        IndexOf(rows, CountedEntry(ch), ch, i).ord = Ordinal(rows, i)

\* Paging and looking up through the cache agree with the sorted rows.
ReadsTrue == RangesTrue /\ IndexTrue

(***************************************************************************)
(* A channel that scrollback_fts_ready declares searchable has every row   *)
(* indexed under its own text, and no entry answers for a row that is not  *)
(* there or not the one it was made from; the exceptions are the ids whose *)
(* statements a kill or a failed COMMIT parted.                            *)
(***************************************************************************)
EntryOf(i) == [ch |-> rows[i].ch, text |-> rows[i].text]
SearchTrue ==
    \A i \in Ids \ torn :
        /\ fts[i] # NoEntry => rows[i] # NoRow /\ fts[i] = EntryOf(i)
        /\ rows[i] # NoRow /\ state[rows[i].ch] = BUILT => fts[i] # NoEntry

\* A channel queued for the backfill is searchable in the end, or the client restarts.
BackfillEnds == \A ch \in Channels : state[ch] = BUILDING ~> state[ch] # BUILDING
=============================================================================
