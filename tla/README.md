# A verification of PoxChat's history and connection code

PoxChat is a GTK 4 IRC client (a HexChat fork, C, one thread, GLib main loop).
What sets it apart from its ancestor, and what is hard to get right, is that it
keeps the history of every channel itself: messages are stored in an SQLite
database whose pages are compressed by a VFS of its own, holes in the stored
history are kept in a ledger, and a scheduler asks the server to fill them
(`draft/chathistory`). Below and beside it stand the parts that must survive
whatever a network does: the connection and its retries, the throttled send
queue, the registration with SASL, STS and `draft/persistence`, and DCC file
transfers. This directory models these parts in TLA+, checks them with TLC and
proves part of them with TLAPS. Paths below are relative to the repository; line
numbers without a path are those of the file being discussed, under
`src/src/common/`.

1. [Inventory](#1-inventory)
2. [Plan](#2-plan)
3. [Modules and how they correspond to the code](#3-modules-and-how-they-correspond-to-the-code)
4. [Runs](#4-runs)
5. [Fairness](#5-fairness)
6. [Proofs](#6-proofs)
7. [Findings and observations](#7-findings-and-observations)
8. [What is not modelled, and limits of what is](#8-what-is-not-modelled-and-limits-of-what-is)

## 1. Inventory

| component | state it keeps | operations | talks to |
|---|---|---|---|
| compressing VFS (`sqlite-zstd-vfs.c`) | per open file: outer connection, `in_transaction`, `page_size`, `page_count`, `meta_page_count_saved`, lock level, dictionary; on disk: tables `pages` and `meta` of the outer database | open, read, write, truncate, sync, lock, unlock, close, dictionary training, moving a database aside | called by SQLite's pager for the scrollback database; calls a second SQLite database |
| scrollback store (`scrollback.c`) | inner database: messages, full-text rows, channels, replies, reactions; per channel an ordinal cache of at most 128 anchors | open with integrity check and backup, save, load by range or ordinal, search, redact, delete, retention | VFS below; text events, chathistory and the front end above |
| gap ledger (`scrollback.c` 2880-3360) | table `gaps` (two bounds, two msgid anchors, state, attempts), `channels.gap_bootstrap_done` | record with merge, shrink, dead mark, delete, touch, drop anchors, bootstrap scan, reset, purge of candidates | written by the scheduler, by loading a session's scrollback (`text.c`) and by `/GAPS` (`outbound.c`) |
| chathistory scheduler (`chathistory.c`) | per session: `ch_active`, `ch_pending`, catch-up flags and counters, cursor, chunk being processed; per server: `chathistory_latest_pending`, `chathistory_before_sess`, two timers, FAIL streak and suppression | request, submit, dispatch, complete, catch-up phases, batch processing (at once or in slices), FAIL, gap fill, replay wrapper, TARGETS | server over the wire; called from the protocol handlers, from timers and from the front end |
| registration (`inbound.c`, `proto-irc.c`, `persistence.c`) | `waiting_on_cap`, `waiting_on_sasl`, `sent_capend`, STS policy, who drives the replay | CAP LS/ACK/NAK/NEW/DEL, AUTHENTICATE and its numerics, token refresh, ATTACH, its reply and FAIL, CAP END, 001 | server over the wire, scheduler through the replay gate |
| server connection (`server.c`, `servlist.c`) | socket, connect child and its pipe, handshake poll, `recondelay_tag`, token refresh under way | connect, reports of the child, handshake, read, disconnect, auto-reconnect, cycling through a network | everything |
| send queue and labels (`server.c`, `outbound.c`, `inbound.c`) | `outbound_queue`, `next_send`, `prev_now`, pending labels, open batches, sweep timer | send with priority, drain, flush, multiline burst, labelled reply, batch start and end, sweep | server over the wire |
| DCC (`dcc.c`) | per transfer: status, position, acknowledged position, resume offset, open file, throttle | offer, accept, RESUME/ACCEPT, connect, send, acknowledge, abort, stall and speed checks | peers, by way of the server (CTCP) and directly |
| session life cycle (`poxchat.c`) | `sess_list`, `current_sess` | open, close, find | scheduler through `session_free`, connection through the last tab |
| the rest | notify list, modes and user lists, plugins, configuration, front ends | | listed in `PROJECT.json` |

**How they interact.** A JOIN (`inbound_ujoin`) arms a deferred start; when the
burst of JOINs is over a timer sends one `CHATHISTORY LATEST` for each channel
and counts them in `chathistory_latest_pending`. Each answer is a BATCH that is
processed at once, or, when it is large, in slices by a 16 ms timer. When all
LATESTs are answered, `BEFORE` requests close the holes one session at a time,
each hop scheduled by another timer. Holes that remain are rows of the ledger,
filled when the user scrolls near them. Everything that is stored goes through
the SQLite pager and the VFS; the pager keeps its journal in memory
(`journal_mode=MEMORY`, scrollback.c:689), so the atomicity of the store
rests on where the VFS begins and commits the transaction of the outer database.

**What is hard.** There are no threads, but nearly every function ends with an
outstanding answer or timer: a session may be closed, parted or disconnected, a
FAIL or a batch nobody asked for may arrive, the user may request something of
his own, between any two steps. A slot taken in one handler is given back in
five others. A reconnect timer, a token refresh and a connect child may each be
overtaken by the user's next command. Below it, any statement of the outer
database may fail and SQLite may roll the transaction back by itself; the process
may be killed between any two statements or page writes. `PROJECT.json` lists
these hazards at the lines where they bite.

**What makes each component correct.**

* *VFS*: it is an atomic store. No commit of the outer database exposes part of
  an inner transaction; every committed state can be opened; between
  transactions each page reads back what the last acknowledged commit put there.
* *Store*: what is read through the ordinal cache is what is in the table, and a
  channel declared searchable has every row indexed, through kills and failed
  commits; a backfill once begun ends.
* *Ledger*: live gaps are disjoint, the anchors of a gap lie on or outside of its
  bounds, so that a request from one to the other covers the hole, and only the
  server's answers remove a hole known to exist.
* *Scheduler*: `chathistory_latest_pending` counts exactly who it says; whoever
  waits is owed an answer; one BEFORE at a time, after all LATESTs; a replayed
  batch is not taken for an answer; every catch-up ends.
* *Connection*: each descriptor has one owner, each child is reaped once, no
  timer is without a handle, a client told to stay away stays away, attempts end
  and promised retries begin.
* *Send queue*: nothing crosses to another connection, order within a priority is
  kept, the flood limit holds but for a window each time the clock is set, every queue
  and label is emptied in the end.
* *Registration*: CAP END does not overtake the login, ATTACH is sent in the window
  the server accepts it in, the replay gate is about this connection, and every
  connection that lasts is registered.
* *DCC*: a transfer that ended well left the file; what an abort left can be
  resumed; no transfer comes to a stand.

## 2. Plan

In the order of importance of the behaviour:

| | module | what | status |
|---|---|---|---|
| 1 | `ZstdVfs`, `AtomicStore` | the VFS under the inner pager, with failures, kills and power losses; refinement of an atomic store | done; all its safety properties and the refinement proved |
| 2 | `GapLedger` | the gaps table and all its operations | done; all its properties proved |
| 3 | `ChatHistory` | the scheduler | done; queue accounting, replay, slots and turns proved |
| 4 | `ScrollbackStore` | rows, ordinal cache, full-text index and its backfill, kills between statements | done; all its safety properties proved |
| 5 | `ServerLink` | connect child, handshake, reconnect timers, token refresh | done; all its safety properties proved |
| 6 | `SendQueue` | throttling, bursts, labels and batches | done; all its safety properties proved |
| 7 | `Registration` | CAP, SASL, STS and ATTACH against a server that answers as it likes | done; all its safety properties proved |
| 8 | `DccTransfer` | file transfers between two clients | done; all its safety properties proved |
| 9 | `ScrollbackOpen` | `scrollback_open` (scrollback.c 1335-1498): integrity check after an unclean exit, `backup_corrupt`, `zstd_vfs_backup_db`: moving four files one by one, with kills in between | left |
| 10 | `Backlog` | composition of stored rows, ledger and scheduler: the anchors a catch-up really uses (the JOIN row is stored first, inbound.c:842), reuse of row ids while a fill is in flight, the retry on timestamps | left |

The abstract specification stated is the atomic store. For `Backlog` it would be a
log with holes: each message known to the server is stored or covered by a gap.
Every safety property of the passing runs has its theorem; those of 9 and 10 come with their
modules.

## 3. Modules and how they correspond to the code

`PROJECT.json` maps every definition to the lines it models.

### `ZstdVfs` (VFS and the pager driving it)

*State.* `db` is the outer connection: the committed state, the state the
connection sees, and `sqlite3_get_autocommit`. `older` are committed states in
the part of the WAL that has not been synced. `inTxn pageSize pageCount saved
lock cdict` are the fields of the VFS's file object. `pc todo wset cur orig` is
the inner pager (SQLite, external): it takes the RESERVED lock, writes the pages
of one transaction, syncs, possibly truncates, unlocks; when something fails it
restores the old images from its in-memory journal, and may fail in that too: the
failing statement takes the outer transaction with it or not, and the pager tries
again or gives the undo up (`UndoFailed`). Given up with the outer transaction still open
and pages missing, the store is `half` undone, and `zvfs_unlock` (857-858) commits it all
the same; `torn` remembers that it did.
`size img acked torn` are history variables for the properties.

*Data abstracted.* A page's content is the number of the transaction that wrote
it; page 1 carries the inner database's size. A page is stored raw, compressed,
or compressed with the dictionary. Page and buffer sizes are abstracted to
"known" and "unknown".

*Actions.* `Open` is `zvfs_open` with `outer_db_init`; `PagerWrite` is one
`zvfs_write` with `begin_outer`, the page_size row and the INSERT, in this
order; `PagerCommit` one `zvfs_sync`; `PagerShrink` and `PagerUndoTruncate` one
`zvfs_truncate`; `PagerUnlock` one `zvfs_unlock`, which commits and drops the
result; `Close` is `zvfs_close`. The failure of each outer statement is a branch
of the action, enabled by the constant `FailPoints`. `Crash` keeps what was
committed; `PowerLoss` brings back an older committed state
(`synchronous=NORMAL`); `Checkpoint` makes the committed state durable.

`AtomicStore` is the promise: begin, commit, abort, settle, lose. The refinement mapping
is `Image`: the pages that the header of a committed state counts.

### `GapLedger`

*State.* `gaps` is the table of one channel, a function from row ids to rows
(`NoRow` where there is none, so that reuse of ids after deletion is modelled);
`bootDone` and `scan` are the bootstrap scan; `revived` and `widened` are history variables.
A time is a small number; an anchor is the time of the message it names. A bound and its
anchor need not be of one message: the code takes the time from the newest row and the
msgid from the newest row that has a real one (scrollback.c 998-1030), and of a batch it
takes the first and the last msgid there is (chathistory.c 2324-2331). A start anchor is
therefore any message up to the bound (`AnchorsTo`), an end anchor any from the bound on
(`AnchorsFrom`), or absent.

*Operations.* `GapRecord` is `scrollback_gap_record`: one pass over the live rows
that the NEW span touches, the union with the anchors of the rows that
contribute its bounds, MIN of the states, attempts 0. `GapShrink`, `GapSetState`,
`GapTouch`, `GapDelete`, `GapDropMsgids`, `GapDeleteCandidates` and `GapReset` are
the functions of those names. The actions are the callers: the witness of a
LATEST batch, the bootstrap scan (one action per stored row), fills from either
end, which may come late and then move a bound outwards, the dead mark, bridges, touches,
`/GAPS RESET`, `/GAPS RESCAN`, `/GAPS CLEAR`.

### `ChatHistory`

*State.* `ses[s]` holds the fields of a session, `srv` those of the server
record, `wire[s]` the number of requests for the target that the server has not
answered, `cur` the current tab. Since the client is single-threaded each
callback is one action, and the functions it calls are operators from client
state to client state under the code's names (`DispatchNow`, `Submit`,
`RequestComplete`, `CheckBefore`, `FinishBatch`, `EmptyBatch`, `HandleFail`...).

*Data abstracted.* A batch is what the scheduler asks of it: empty, leaving more
to fetch, all duplicates, reaching the lower bound, or without a msgid; with or
without the end tag; small or processed in slices. The reference of a request is
a msgid, a timestamp or `*`. The budget counts pages.

*Features.* The constant `Features` says which things users and servers do in an
instance: FAILs, slices, tab switches, disconnects, parts, closes, scrolling to
the top, gap fills, late JOINs, end tags, batches without msgids, hand-typed
requests, a server-driven replay, TARGETS (which is sent even while requests for
channels are suppressed, 411-427, and takes no place in a queue). All handlers are the same in every
instance; a feature only makes an input possible.

### `ScrollbackStore`

*State.* `rows` and `fts` are the tables `messages` and `messages_fts` by row id, `built`
the column `channels.fts_built`, `txn` what a rollback restores; `cache`, `state`,
`queue`, `cur` and `idle` are the fields of `scrollback_db`: the ordinal cache of each
channel (count, newest timestamp, anchors) and the backfill. `torn`, `lost` and
`faults` are history: ids whose row and entry a kill or a failed COMMIT parted, and
channels whose cache entry a failed COMMIT or a failed COUNT (which
`chan_cache_ensure_count` caches as 0, line 331) left wrong, until the entry is invalidated.

*Data abstracted.* A message is a channel, a time, a msgid (absent, the placeholder
of an unconfirmed echo, or real) and a text that search tells apart. The key of a
row is (time, id), the order all queries use.

*Actions.* `scrollback_db_save` stores a message (with `chan_cache_note_insert` and the
full-text statement) and `ConfirmPending` settles an echo; `scrollback_clear`,
`scrollback_load` (which purges what is still pending and queues the backfill),
`scrollback_load_range` and `scrollback_get_index_of_rowid` are what the front end calls, also
while a batch is open; begin, commit and `CommitFails` bracket a batch; `fts_backfill_idle`
is one chunk of the
idle backfill; `Restart` loses the memory. The `...Killed` actions stop between two
statements of one handler.

### `ServerLink`

*State.* `serv` holds the fields of `struct server` that say who owns what
(`connected connecting iotag ssl_do_connect_tag childpid recondelay_tag
oauth_connect_host`) and what exists: the timers by id and kind, the refreshes under
way, and whether the record itself is still alive; `stray` remembers a `kill()` of a
process that is not ours. `cfg` is the network and the
preferences. `owed`, `down`, `overlaps` and `faults` are history.

*Data abstracted.* Addresses, the number of the server within its network, what the
child resolves: a report is one of the digits that end or continue an attempt.

*Actions.* One group per source of the main loop: `ReadChild` (the reports of the
child), `ssl_do_connect`, `Socket` (end of the stream, end of the login, STS, the ping
timeout of `lag_check`), `Timer` (`timeout_auto_reconnect` and `servlist_cycle_cb`),
`servlist_oauth_refresh_cb`, and `User` (`/SERVER`, `/RECONNECT`, `/DISCONNECT`,
closing the last tab). The functions they call (`server_stopconnecting`,
`server_cleanup`, `server_disconnect`, `auto_reconnect`, `servlist_cycle`,
`server_connect`...) are operators from `serv` to `serv`. `owed` follows a retry that was
promised: due, begun or taken back, or dropped, when the refresh or the fork failed or
there is no host name (2054). A command given while
something is under way that the code does not withdraw (an attempt at a `/RECONNECT`, a
token refresh at any command, anything at all when a new refresh begins) counts as an
overlap (see section 7).

### `SendQueue`

*State.* `queue` is `outbound_queue`, `timers` the live 500 ms sources, `debt` and `behind`
the throttle (`next_send` and `prev_now` relative to now), `flood` what the server has seen
less what it has forgiven, `labels` and `batches` what
waits for an answer with its age, `sweep` the sweep timer, `server` the labels the
server has. Lines are numbered as they are handed over; `last` remembers the last one
sent of each priority.

*Actions.* `Send` is `tcp_send_len` (or the direct send before the login ends) with the
label it may attach and the priority `tcp_send_len` reads off the text;
`tcp_send_queue_cb` one call of the drain; `Multiline` the burst that charges the throttle
and goes past the queue; `cmd_flushq`, `LabeledReply`, `inbound_batch_start`,
`inbound_batch_end`, `stale_sweep_cb`; `server_connected`, `LoginDone`,
`server_disconnect`; `Second` is time, and `ClockSet` the clock set back or forward, which moves
`next_send`, `prev_now` and the ages of labels and batches alike; `Credit` is the check for
skew (182-191) that follows.

### `Registration`

*State.* `serv` is the client's side, `irc` the server's (external: any answer the
protocol allows), `toServer` and `toClient` the two FIFO directions of the connection,
`refreshes` the connections whose token refresh is unanswered.

*Actions.* `Client` handles the first line in `toClient` (one action per handler:
`inbound_cap_ls`, `inbound_toggle_caps`, `inbound_cap_nak`, `inbound_sasl_authenticate`,
the SASL numerics, `persistence_handle_reply`, `persistence_handle_fail`, 001...); `Server`
answers the first
line in `toServer`; `Refreshed` is `oauth_sasl_retry_cb`; `Connect`, `Lost`,
`cmd_persistence`, and `Notify` (CAP NEW and DEL). `hist` is history: whether a connection
began with what an earlier one left, whether an old refresh was answered on it, whether a
`/PERSISTENCE` was typed before 001, and how often `sasl` was requested on it (`asked`).
An AUTHENTICATE line may be a list of mechanisms, which is left unanswered
(inbound.c 3644-3647), and a SCRAM exchange takes up to `MaxRounds` further rounds. An
ATTACH is taken, or refused with any code; the codes the client does not know
leave its gate closed.

*Data abstracted.* Capabilities other than the three that steer the registration;
what is inside an AUTHENTICATE line.

### `DccTransfer`

*State.* `snd` and `rcv` are the two `struct DCC` of each transfer, `net` the data,
acknowledgements and CTCP messages on their way and the ends of the connection, `disk`
the receiver's files. A byte is its offset, so a file is the sequence of offsets
written to it, and corruption is visible. Acknowledgements are positions modulo `Mod`
(2^32 in the code).

*Actions.* `Step` is everything the two main loops and the network do for a transfer,
`User` the sender's offer and the receiver's clicks (accept, resume), `Upsets` aborts,
timeouts, stalls and speed limits. Both ends run the code of `dcc.c`. An offer is taken up by
`dcc_get` (the button, `/DCC GET nick file`, auto-accept), by `dcc_get_nick` (`/DCC GET nick`,
which connects with `resumable` still set where it resumes nothing) or by `dcc_resume`;
`dcc_connect` may fail at once. An acknowledgement may be read in pieces (`dcc_read_ack`,
line 1521): its second piece lands on the start of the buffer, and the value read is
taken to be any, which `garbled` remembers. `hist.clash` remembers that two transfers
waited for the answer to a RESUME of one file, that one transfer was taken up twice, or
that a passive ACCEPT reached another transfer; `hist.unasked` that a `/DCC GET nick` passed
over a part. `Orderly` is neither; one resumed transfer that runs while another is asked to
resume the same file, the case the check at 2124-2149 is for, is orderly.

## 4. Runs

| run | instance | states | checks |
|---|---|---|---|
| `vfs` | 3 pages, 3 transactions, every outer statement but the metadata row may fail | 611 543 | `TypeOK NoTornCommit Reopenable ReadsLastCommit ImplementsAtomicStore WritesStayInTransaction` |
| `ledger` | times 1..4, 2 rows | 800 373 | `TypeOK LiveGapsApart AnchorsSpanHole WitnessedHolesKept` |
| `scheduler` | 2 channels, 2 connections; slices, FAILs, tab switches, disconnects | 311 844 | `SlotsMatchWaiters QueueAccounted OneBeforeAtATime BeforeAfterLatest CatchupEnds` |
| `users` | a channel and a dialog, 2 connections; TARGETS, batches without msgids, scrolling to the top, parts, late joins, closes | 862 274 | `QueueAccounted` |
| `replay` | a channel; a server-driven replay, hand-typed requests, slices, fills, FAILs | 208 498 | `ReplayLeavesQueue` |
| `store` | 2 channels, 3 row ids, 4 messages, 1 fault, 2 anchors, chunks of 2 | 117 030 | `CacheTrue ReadsTrue SearchTrue BackfillEnds` |
| `link` | all settings, 4 timer ids, 2 overlapping commands, 1 failed fork | 48 484 | `OneOwner ChildReaped TimerTagged DownStaysDown AttemptEnds RetryBegins` |
| `sendq` | 3 lines, 2 connections, 1 burst, flush or clock step, a window of 3 | 310 769 | `QueueKept FloodBound QueueDrains LabelsEnd` |
| `register` | 3 login methods, 5 servers, 2 connections (3 with an STS upgrade), 1 further SCRAM round, 1 command or CAP change | 619 485 | `ReplayDecided AttachInWindow LoginBeforeEnd Registers` |
| `dcc` | 2 transfers of one file of 3 or 5 bytes, modulus 4, 2 clicks, 1 limit, 1 acknowledgement in pieces | 875 624 | `FileIntact AlwaysResumable OneWriter TransferEnds` |
| `v_sts` | as `register` | | `UpgradesBeforeLogin` (violated: finding 1) |
| `v_part` | 2 channels, 1 connection, parts | | `SlotsMatchWaiters` (violated: finding 2) |

What a passing run shows is its sentence "about" in `PROJECT.json`. Several of the
listed properties are conjunctions of named parts (`QueueAccounted`, `CacheTrue`,
`ReadsTrue`, `QueueKept`, `ReplayDecided`), each with its own comment in its module.
The other modules state a `TypeOK` too; it holds in these
instances and is left to whoever changes the module.

**Bounds and why they are enough.** Three pages are the header, a page that an
undo restores and a page that a transaction adds or drops; three transactions
are a committed one, a failed one and one that finds what the failure left. Two
ledger rows plus the one being recorded make the three-way merge that the
single pass could get wrong, and four times allow two gaps apart, or one with two moments
in it; the theorems lift both bounds. Three runs have a constraint, which ends a behaviour where
the properties have nothing more to say: at a torn commit (`UntilTorn`; the one property
that does not except it, `WritesStayInTransaction`, is proved beyond it), at the second of the
two steps after which gaps may overlap (`OneException`), and where anchors are added to
a cache entry that a fault left wrong (`LostUnread`; the backfill, whose liveness the same run
checks, does not use the cache). Two sessions are
enough for one to wait for another; two connections for state to leak from one
into the next (in the scheduler, the send queue and the registration alike);
`MaxWire` 2 for a request beside the one being retried (an action that would exceed
it is not taken); a budget of two pages for a hop between BEFOREs. Attempts are
capped at one in the ledger, where nothing depends on their number (the third
strike is the scheduler's choice of `DeadMark`).

Three row ids with two channels make a row before, at and after an anchor, and a
row of another channel that takes the id a purged one had; two anchors reach the
anchor limit; a chunk of two leaves a remainder. Four timer ids are one more than
two overlapping commands can leave behind, and the theorems lift these bounds as
well. Three lines are one that waits, one of another priority that overtakes it and one
that comes when the window is full. A DCC file of three bytes is sent in two blocks;
one of five exceeds the modulus, as a file above 4 GB does; two transfers can meet in
one file, and two clicks are two requests that meet.

`CHECK_DEADLOCK FALSE` is set where the system may stop: when the last
connection is used up, all but one tab is closed, all lines are sent or all transfers
are over, nothing more happens.

Each property has a mutant, a plausible bug in the definition it depends on, that
TLC finds (`PROJECT.json`, `mutants`; the mutated forms stand beside the originals,
named `X_WhatIsWrong`).

## 5. Fairness

Everywhere the same principle: the main loop dispatches a source that stays ready,
and a timer that was armed fires. Users, and servers as far as the code does not
depend on them, owe nothing.

* `ScrollbackStore`: `WF` of the commit (the handler that opened the transaction
  closes it) and `SF` of `Tick`: an idle source runs when nothing of higher priority is
  ready, and batches hold it up again and again but none for ever. `BackfillEnds`.
* `ServerLink`: `WF` of `ssl_do_connect` (it gives up after SSLTMOUT), of `Timer`, and of
  `servlist_oauth_refresh_cb` (the HTTP request ends or times out). Nothing is assumed of
  the socket or the user, and nothing of the connect child: it has no timeout of its own
  (the reads from a proxy at server.c 1578, 1610, 1683 and 1783 block), and as the parent keeps the
  write end of the pipe open (2146), a child that dies is not noticed either. `AttemptEnds`
  therefore has two premises: a child in the end reports (`ChildReports`, an assumption
  about the resolver, the proxy and the server), and the user does not for
  ever put a new attempt in the place of the old one. `RetryBegins` needs neither.
* `SendQueue`: `WF` of the queue's timer, the sweep and time. `QueueDrains`, `LabelsEnd`;
  the number of lines is bounded, without which a lower priority may starve.
* `Registration`: `WF` of `Client`, of `Refreshed`, and of `Server`, which is an assumption
  about the server: the code has no timeout for a registration. `Registers`.
* `DccTransfer`: `WF` of the steps of each transfer, at both ends and in the network, and of
  the averages that fall while nothing is sent, so that a throttled transfer resumes.
  `TransferEnds`.
* `ChatHistory`: `FairSpec` (in `MCChatHistory`, used by the run `scheduler`) is weak fairness
  of the system's steps: an armed timer fires, and the server answers every request
  while the connection lasts. The latter is an assumption about the server, for the
  code has no timeout for a request: a server that never answers blocks the session's
  queue until it is closed or the connection is lost. The formula says that if work
  is outstanding for ever, then again and again a step is taken that leaves the
  current tab alone; in that instance every such step is a step of the system, a
  bounded connect or join, or a disconnect. `CatchupEnds`.

## 6. Proofs

Proved for every value of the constants: every safety property that the runs check of the
ledger, the VFS (with its refinement of the atomic store), the store, the connection, the
send queue, the registration and the file transfers, and of the scheduler its queue,
its replays, its slots and its turns. Each inductive invariant was checked
by TLC on its run's instance before it was proved, or on a larger one (`SendQueue`: three
kinds and two sizes of lines).

**`GapLedger_proofs`.** Assumption: `LedgerAssumption` (the bounds are naturals, at
least one row). The inductive invariant is `Inv == TypeOK /\ AnchorsSpanHole /\
LiveGapsApart`. None of the three can be had alone: the union takes anchors and
bounds from the rows it folds, so they must be well formed; and that the union is
apart from the rows that were not folded follows from their having been apart.
`LiveGapsApart` ends with the first reset of a dead row (`revived`) or outward shrink
(`widened`); the other two do not.

* `Least`, `Greatest`: non-empty sets of times have a least and, when bounded, a
  greatest element (from the well-foundedness of the naturals); `LowerBound` and
  `UpperBound` use them to say what `UnionStart` and `UnionEnd` return: a bound below
  (above) all folded rows, which with its anchor comes from the new span or from
  one folded row. `NextIdIsFree` is the same for the next row id.
* `RecordKeeps` is the heart: `scrollback_gap_record` yields well-formed rows, keeps
  live rows apart and loses no witnessed hole. A live row `r` that is not folded
  lies wholly on one side of the new span; each folded row reaches the span and is
  apart from `r`, so it lies on the same side, and with it the union.
* The other operations change rows one by one. `Narrows` (what is live was live and
  was no shorter) keeps rows apart, `Keeps` (what was witnessed still is) keeps
  holes; a lemma per operation says which of the two it has. `GapReset` has `Narrows`
  only if it touches no dead row, and `GapShrink` only if it moves no bound outwards, which
  is where the history variables come in.
* `StepInv` has one step per action and yields both the invariant and the action
  property. Theorems: `Typing`, `Anchored`, `Disjointness`, `NothingForgotten`.

**`ZstdVfs_proofs`.** Assumptions: `BoundsAssumption`, `FailAssumption`. `Typing`: whatever fails,
the file object, the connection and the pager keep their types; the point is that
`page_count` follows the pages table within the range of page numbers at open (for
`MAX(pgno)`), write, truncate and undo.

The other theorems have the hypothesis `MetaSaved`: the statements that save the `page_size`
and `page_count` rows do not fail. All other statements may, and roll the transaction back
or not as they like. The hypothesis is needed, not convenient: without it
`MCZstdVfs_MetaLost` violates `WritesStayInTransaction` (section 7). It is satisfied by the
run `vfs`. Up to a torn commit the invariant is `IInv`, nine named parts, because what a
commit exposes was put
together by the writes and undo steps before it:

* `OpenTxnInv`: `in_transaction` may be stale in one direction only; `ConnInv`: whatever can be
  found on disk now or after a crash is `Complete`, the image of one inner transaction.
* `WriteInv`: while the pager writes, the outer transaction is open and holds what was
  written so far on top of the committed state; `UndoInv`: while it restores its journal,
  every page that is no longer to do is back; `DoneInv`: after that, the connection holds a
  complete image, which is why `zvfs_unlock` may commit without looking at the result.
  Nothing of the kind holds in the state `half`, and the unlock that commits from it sets
  `torn`.
* `FileInv`: the page count in memory covers the last commit, the page size is known once
  there is a page, and a dictionary in use is in the database; `PlanInv` and `HistInv` tie the
  pager's plan to the images.

`Atomicity`, `Recovery` and `Fidelity` follow from `IInv` in one step each. `Envelope` does not
end with a torn commit; it follows from a smaller invariant, `EnvelopeInv`. `Refinement`
shows step by step that the start of an inner transaction maps to
`Begin` of `AtomicStore`, the outer commit that carries it to `Commit`, an outer commit that
leaves the image as it was (metadata, dictionary) to `Rewrite`, a failure, an undo or a kill to
`Abort`, a checkpoint to `Settle`, a power loss to `Lose`, and everything else to a stutter.

**`ScrollbackStore_proofs`.** Assumption: `StoreAssumption`. Two invariants, for the index and for
the cache.

* `SearchInv`: a row without an entry *waits*: its channel is not declared searchable and, when
  the backfill is in that channel, its cursor has the row still ahead. That alone is not
  inductive: a COMMIT that fails brings the old tables back under a cursor that has moved,
  so the same must hold of the tables a rollback would restore (`IndexInv`), and that an open
  transaction has only grown (`Grown`) relates the two.
* `CacheInv`: every entry is well formed and within its limit, and that of a channel which no
  failed COMMIT or COUNT has spoilt is exact and its anchors are true. What it rests on is
  that the cached newest time decides what is an append: a row whose time is not below
  it goes behind every row there is, so that no anchor moves. A rollback leaves the rows
  of the channels that were not written to as they were, and marks the others.
* Ordinals are cardinalities. `OrdUp`, `OrdSpan`, `OrdLess` say how they move along the order of
  keys, `Appended` and `Shrunk` what an insert at the end and a delete do to them; they rest
  on the library's theorems about finite sets, and least and greatest elements on
  well-foundedness, so that no induction is needed. `LoadedProps` and `IndexOfProps` are what
  the seeks from either end or from an anchor return.
* Theorems: `Searching`, `Caching`, `Reading`.

**`Registration_proofs`.** Assumption: `RegistrationAssumption`. None of the properties is
inductive, for what connects the client's flags with the server's state is what is on the
wire between them. `IInv` therefore speaks of the lines in both queues and of their order:

* `EndInv`: CAP END was sent exactly if it is on the wire or was read, and 001 is not before it.
* `AttachInv`: ATTACH is on the wire at most once, before CAP END, and only after a 903, which
  is on the wire only if the server is done with SASL. `Window` follows.
* `GateInv`: the refusal of our own ATTACH comes before 001, at most once, and finds
  `attach_pending` still set, so that each code has done by 001 what it does; with `EndInv` it
  gives `Deciding`. That a code unknown to the client leaves the gate closed is part of the
  statement.
* `OneRequest` and `WaitInv`: one request for sasl has one line on the wire at a time, REQ, then
  its answer, then the mechanism; and until the exchange is over the client waits and has not
  sent CAP END. Here the proof failed at first: `LoginBeforeEnd` did not except the second
  request (section 7), and no invariant could have held. `IInv` was then checked with two
  events on one connection too (208 277 states).
* `Quiet` and `Counted`: between connections nothing is left on the wire; connections and
  refreshes are numbered consistently.
* A lemma per handler says what it does to the flags and the queues (`Toggles`, `Answers`,
  `Refreshing`, `Serves`...), and a lemma per part of the invariant goes through these effects
  rather than through the actions. Theorems: `Typing`, `Deciding`, `Window`, `Login`.

**`ServerLink_proofs`.** Assumption: `LinkAssumption`. The inductive invariant is `Inv`: the
types, `Sound(serv, faults)`, `Tagged` as long as no command overlapped anything, and that
a client told to stay away has nothing under way. `Sound` has three parts: `Own` (the
conjuncts of `OneOwner`), `Reaped` (those of `ChildReaped`) and `Aside`, which nobody asks for
but the others need: timer ids are unique (else removing the tagged source would not
remove the only one), and a server record that is gone has nothing open (else
`servlist_cycle_cb`, which does not check, would bring it back). `TimerTagged` is not
inductive alone: that a timer which fires finds neither an attempt nor a connection rests
on refreshes excluding both, and that in turn on who may start one.

* A lemma for each function of `server.c` and `servlist.c` says what it does to `Sound`:
  `Stopped`, `Cleaned`, `ConnectSound`, `ConnectedSound`, `ReconnectSound`, `CycleSound`,
  `FallbackSound`, `ServlistSound` and so on; the actions only compose them.
* A lemma per action (`...Keeps`) yields `Kept`, the invariant after the step.
* `Tagging` and `StaysDown` are about behaviours without an overlapping command, and cannot be
  about more (section 7).
* Theorems: `Typing`, `Ownership`, `Reaping`, `Tagging`, `StaysDown`.

**`DccTransfer_proofs`.** Assumption: `DccAssumption`; the number of peers, the size of the file,
the modulus, block and window, the clicks and the limits are arbitrary. Like the properties
the invariant `IInv` is about behaviours in which the requests are `Orderly`; its body `Sound` says
nothing of the others. Each
property is far from inductive: that a byte lands in its place depends on what the sender
believed when it sent it. `Sound` follows the offset from one end to the other.

* `Shaken`: each direction carries at most one CTCP message at a time; a RESUME under way
  names the receiver's offset, and when the ACCEPT is under way, or the receiver has gone
  on, the sender stands at that offset.
* `Streams`: the data under way are the bytes that follow what the receiver has, and a sender
  that still runs is at the end of them. `Acked`: below the modulus, and until an
  acknowledgement was read in pieces (`garbled`), every acknowledgement under way is a
  position the receiver has reached, not below the resume point, and the
  size itself only once the receiver is done: so `ackoffset` is never set, and the sender's
  `DONE` implies the receiver's.
* `Written`, `Alone`: an open file is as long as the receiver's position; a receiver that waits
  for its ACCEPT, or resumes, is alone with the file, which stays as long as it was when
  the RESUME was sent. `update_is_resumable` does not see a resume that is queued, so
  without `Orderly` this is false (section 7, `NeverTwoWriters`).
* `Owned`: every name but the plain one belongs to a transfer, hence (a pigeonhole argument
  on cardinalities, `FreshProps`) `Fresh` always finds a free name.
* One lemma for the effect of each operation, three for what a step of a sender
  (`SenderStep`), of a receiver (`ReceiverStep`) and of a write to a file (`FileStep`) preserve,
  and one per action. Theorems: `Writers`, `Resumable`, `Integrity`.

**`SendQueue_proofs`.** Assumption: `SendAssumption`: the kinds and sizes of lines (finitely many
sizes, as the lines of the code have a longest), the window, the burst and the bounds are
arbitrary. The inductive invariant is `Inv == Typed /\ Owns /\ Orders /\ Pays /\ TimerArmed`.

* What the code's two nested loops do to the queue is `Without`, `Ordered`, `CostOf` and `Quota`,
  recursive functions over a sequence. The library's induction theorems cannot be used
  with these provers, so the induction is made on sets: a set of numbers that holds 0 and
  the successor of each of its members below `n` holds all up to `n`, for it would miss a
  least one (`LeastNat`, `Upwards`); `Recursion` yields the function a recursive definition
  names. From these: `WithoutProps` (the lines left are the ones not sent, in their order),
  `OrderedProps` (`Ordered` is a permutation of the queue in which each priority keeps its
  order), `CostProps`, `QuotaProps` (the last line sent was within the window).
* `Owns`: a queue that is not empty belongs to a connection that is up and logged in.
  `Orders`: numbers go up along the queue, are of this connection, and are above the last
  number sent of the same priority. That bound, not the order in the queue alone, is what
  makes `Fifo` inductive: a line left behind must stay behind the ones that went.
* `Pays`: what the server has seen is within what `next_send` still stands for and what the clock
  steps gave back, and whatever `next_send` is, within one window more. A step forward
  forgives the debt at once, one back only when the check for skew finds it, and that at
  most once: `Used` counts a step back that has not been found as still to come. A drain
  that sends something leaves the debt at most one line past the window (`QuotaProps`).
* `SendQueueEffect` gathers what one drain does, `SendsKeeps` what the steps that drain preserve,
  `QueueRests` what the others do. Theorems: `Queueing`, `Flooding`, `Armed`.

**`ChatHistory_proofs`.** Assumption: `SchedulerAssumption`; channels, dialogs, budget, connections
and requests are arbitrary. The functions of `chathistory.c` are operators from client state to
client state that call each other several levels deep (a batch that ends frees a slot, which
sends the next session's request, which may complete a catch-up, ...), so the proof follows them:

* Three relations between client states are transitive, and one lemma per function says which
  it has. `Keeps`: nothing is sent while suppressed, no session is opened, closed or joined,
  chunks are left alone, and a sound queue stays sound. `Spares`: the queue of a session with a
  request in flight is as it was. `Aside`: no queue is touched. The lemma of a function
  composes those of
  the functions it calls.
* The inductive invariant is `Typed /\ Queues`. `Queues` strengthens `QueueAccounted`: who waits is
  joined, and is owed an answer or has a *solicited* batch in chunks. A batch in chunks alone
  would not do, for an unsolicited one ends without retiring the request. The step that
  processes the last chunk removes it before the request is retired, hence the form of
  the relation that excepts one session (`Firm`).
* `Accounting` has two hypotheses, `"barefail" \notin Features` and, where connections drop,
  `Dialogs = {}`. Both are the exceptions section 7 reports and not conveniences: a FAIL
  that names no target retires
  a request that is not its own, and a dialog keeps its queue across a disconnect. `Replays`
  needs neither. The invariant was checked by TLC on the instances of the runs
  `scheduler`, `users` and `replay` (311,844, 862,274 and 208,498 states).
* Slots and turns (`SlotsMatchWaiters`, `OneBeforeAtATime`, `BeforeAfterLatest`) follow from one
  inductive invariant, `Regular`. `Shaped`: a session that catches up has one request of the
  catch-up, one that does not has gap fills only, and each request in flight has exactly one
  answer coming, on the wire or in chunks. `Counted`: the slots taken are as many as the
  sessions in the LATEST phase with a request in flight, and at least as many once
  suppressed. `InTurn`: a request of the BEFORE phase belongs to `chathistory_before_sess`,
  and then no
  slot is taken. `Phased`: the deferred start runs once per connection, before any catch-up.
* While an answer is processed the invariant does not hold: the answer is off the wire and its
  request still active (`Ready`), then the request is retired and its slot not yet given
  back. `Tidy(x, s, k)` says just that: session `s` is exempt from `Lines`, and `k` slots are
  to be given back. One lemma per function takes one of these to another (`CompleteTidy`
  makes `Tidy(y, s, 1)` of a waiter, `GiveTidy` and `RetryTidy` bring `k` back to 0,
  `CheckTidy` picks the next session), and `Regular(x)` is `Tidy(x, Nobody, 0)`.
* The hypothesis `Plain` admits slices, FAILs, end tags, batches without msgids, tab switches, gap
  fills, TARGETS among channels, drops and reconnections: all that the run `scheduler` has, and
  more. What it excludes is what section 7 shows to break the count or the order. TLC checked
  `Regular` on five instances beforehand (up to 784,358 states).
* Theorems: `Typing`, `Accounting`, `Replays`, `Slots`, `Turns`, `Order`.

**Only model-checked**: every liveness property (`BackfillEnds`, `AttemptEnds`,
`RetryBegins`, `Registers`, `CatchupEnds`,
`QueueDrains`, `LabelsEnd`, `TransferEnds`), which is beyond the prover, as is anything with
ENABLED.

## 7. Findings and observations

Findings, each a run that TLC violates, with the statement of the repository it
contradicts quoted in `PROJECT.json`:

1. `v_sts` (proto-irc.c:1132): with SASL to be awaited, an STS upgrade announced on a
   plaintext connection is not carried out; the client logs in and registers in the clear.
2. `v_part` (chathistory.c:895): leaving a channel while its LATEST is in flight
   strands the slot, and with it the BEFORE phase of all sessions.

Observations of the same kind. Those with a configuration are reproduced by TLC with it:

| configuration | property | what |
|---|---|---|
| `MCZstdVfs_MetaLost` | `WritesStayInTransaction` | `zvfs_write` drops the result of saving the page_size row (sqlite-zstd-vfs.c:739); if that statement makes SQLite roll back, the INSERT that follows commits by itself ("no page write ever lands outside an outer transaction") |
| `MCZstdVfs_HalfUndone` | `CommitsWhole` | an undo write fails and leaves the outer transaction open; the pager gives the undo up and unlocks, and `zvfs_unlock` (sqlite-zstd-vfs.c:857-858) commits the half-undone transaction |
| `MCGapLedger_Widened` | `ShrinksKeepDisjoint` | the retry of a LATEST on a timestamp keeps `catchup_is_before` (chathistory.c:2276-2282), so its answer may "shrink" (1720-1729) the end of a gap forward; `scrollback_gap_shrink` (scrollback.c:3127) does not compare with the old bound, and the gap grows into the next one |
| `MCGapLedger_Revived` | `ResetsKeepDisjoint` | `/GAPS RESET` brings a dead row back beside the candidate a rescan recorded over the same span (scrollback.c:3320; "gaps within a channel are disjoint") |
| `MCChatHistory_V_End` | `NoStalledCatchup` | a LATEST answered with the end tag leaves the session in `catchup_in_progress` for good (chathistory.c:2931) |
| `MCChatHistory_V_Close` | `BeforeSessExists` | closing the tab whose BEFORE is in flight leaves `chathistory_before_sess` pointing at a freed session (poxchat.c:709) |
| `MCChatHistory_V_Supp` | `NoStalledCatchup` | `chathistory_process_batch` retries an empty answer to a LATEST on a timestamp without asking whether chathistory was suppressed meanwhile (chathistory.c:2276); `chathistory_dispatch_now` drops the retry (174), and the session keeps its slot and stays in catch-up. It takes three channels, two of them failing twice, so the two channels of `scheduler` do not reach it: the proof of `Slots` brought it out, and `SlotsMatchWaiters` and `CatchupEnds` now except a suppressed server |
| `MCChatHistory_V_Fill` | `NoStalledCatchup` | a gap fill is in flight when a replayed batch puts its session into catch-up (chathistory.c:872); the answer to the fill arms no next hop, and the catch-up is left without a request |
| `MCServerLink_Leftover` | `StaysAway` | a delay that `/RECONNECT` started during an attempt, or a token refresh under way, outlives `/DISCONNECT` (outbound.c:1463) and connects again |
| `MCServerLink_Escaped` | `TimersHeld` | `servlist_cycle` stores its timer over `recondelay_tag` (servlist.c:655); a refresh answers beside a connection or an attempt (361) |
| `MCServerLink_Dropped` | `NoneDropped` | a promised retry is dropped when the token refresh fails (servlist.c:366-373) |
| `MCServerLink_Stray` | `NoStrayKill` | after a failed `pipe()` or `fork()` (server.c:2165) the next stop signals a stale pid |
| `MCSendQueue_V_Label` | `QueuedIsPending` | a label is stamped when its line is queued (server.c:540; poxchat.h:558: "When we sent it"), so it can be given up while the line still waits |
| `MCRegistration_V_Gate` | `OnlyOurFail` | the FAIL of a `/PERSISTENCE` typed before 001 opens the replay gate (persistence.c:414) |
| `MCDccTransfer_V_Writers` | `NeverTwoWriters` | two queued RESUMEs of one file both start and append (dcc.c:2124) |
| `MCDccTransfer_GetNick` | `GetKeepsPart` | with auto-resume off, `/DCC GET nick` over a part appends the beginning of the file to it, since `dcc_get_nick` (dcc.c:2208-2217) leaves `resumable` set |
| `MCDccTransfer_Split` | `SenderKnows` | an acknowledgement read in pieces (dcc.c:1521) passes for the last: the sender reports success before the receiver has the file |
| `MCDccTransfer_Stall` | `SenderGoesOn` | the same makes a stop-and-wait sender wait for ever |

The passing runs state their properties outside these cases: `revived`, `widened`, `overlaps`,
`faults`, `lost`, `torn`, `clash`, `unasked`, `garbled`, `early` and `asked` remember that
one has happened, or
the feature that leads to it
is left out, which is why the scheduler has several runs.

*Scheduler*, with the features named:

* *older*: the answer to a user's BEFORE in the LATEST phase gives back a slot it
  did not take (1873), and in the BEFORE phase it lets a second session start
  (1828): `SlotsMatchWaiters`, `OneBeforeAtATime`.
* *latejoin*, *quote*, *replay*: `chathistory_deferred_start_cb` sets the count to 0 while
  earlier LATESTs are unanswered, or batches it adopted are still in slices (2827):
  `SlotsMatchWaiters`, and with replays `OneBeforeAtATime` and `BeforeAfterLatest`.
* *part*, *close*: the slot of a LATEST in flight is not given back (finding 2):
  `SlotsMatchWaiters`.
* *targets*, *drop*: the LATEST of a dialog named by TARGETS takes no slot and its
  answer gives one back (857): `SlotsMatchWaiters`; a dialog keeps `ch_active` across a
  disconnect (server.c:1523): `ActiveIsInFlight`.
* *fail*, *fill*: the deferred start enters the LATEST phase although chathistory is
  suppressed (2779): `NoStalledCatchup`.
* *drop*: the counters of a cancelled catch-up are inherited by the next (895):
  `CatchupStartsAfresh`.
* *nomsgid*: a session without a msgid to go on from ends the BEFORE phase for all
  (2972): `NoStalledCatchup`.
* *fail*, *barefail*: a FAIL that names no target is charged to the first session that
  waits (1479): `ActiveIsInFlight`.

*VFS*: after a failed COMMIT the page_count row can stay stale at the next one (590):
`MetaFreshAtCommit`. It does no harm: the open path derives the count from the pages,
which `ReadsLastCommit` shows.

*Store* (scrollback.c): a failed COMMIT leaves the cached count too high, and a failed COUNT is
cached as 0 (331), which makes a populated channel read as empty, until the next
restart, clear or other invalidation (`lost`); a failed COMMIT in the middle of a backfill
skips its chunk; a kill between the
message's statement and the full-text one leaves a row search cannot find, or an entry
that answers for the row which takes its id (`torn`); with `POXCHAT_NO_ANCHORS` set,
`before` and `after` are used uninitialised (2616-2629); the key of a search hit is
looked up by row id without its channel (2762).

*Connection* (server.c, servlist.c): `/RECONNECT` during an attempt leaves a timer beside
it, which reconnects even after a later `/DISCONNECT`; `servlist_cycle` (servlist.c:655)
overwrites `recondelay_tag` without removing its source, and `servlist_cycle_cb` neither
clears it nor checks that the server exists; a token refresh is not withdrawn by
`/DISCONNECT` or another `/SERVER`, and a second answer finds no host; a failed refresh ends
the automatic reconnecting; a failed `pipe()` or `fork()` leaves `connecting` set, and the
next stop signals a stale pid; proxy and certificate failures are not retried.

*Send queue*: a label in front hides a PRIVMSG from the priority test, so it goes out at
the highest priority; a multiline burst overtakes lines that wait; a label given up
leaves its "pending:" row until the next load.

*Registration*: `waiting_on_sasl`, `waiting_on_cap` and `sts_upgrade_port` are not reset for a
new connection, which can stall it (`carried`); the answer to a token refresh acts on
whatever connection is up (`stale`, inbound.c:3725); the retry sends its payload without
selecting the mechanism again after 904; a refusal of ATTACH with a FAIL code other than
the three handled keeps the replay gate closed (persistence.c:421-444), so that nobody replays
before the grace delay is over. The comment at persistence.c:180-185 reads as if every refusal
opened it, but the design (docs/superpowers/plans/2026-08-28-draft-persistence-client.md:665,
"Any other FAIL PERSISTENCE only prints") wants it so, hence `GateIsTrue` states it and it
is not a finding; CAP NEW without sasl sends another CAP END; `waiting_on_sasl` is one flag
for all requests, so
when a CAP DEL and a CAP NEW during the negotiation make the client request sasl a second
time, the NAK of one request ends the wait for the other and CAP END overtakes a login
that was granted (inbound.c, `inbound_cap_nak`; `asked`). It takes two events on one
connection, so the bound of the run hides it; the proof of `LoginBeforeEnd` brought it out.

*DCC*: a late RESUME, matched by nick and file name, moves an ACTIVE sender; an ACCEPT
with port 0 starts the newest queued passive transfer; a resume followed by an accept
mixes offsets (`clash`); above 4 GB an early acknowledgement may pass for the last; lifting
the throttle of a fast
send that has sent everything fails it; the stall check counts the time a transfer was
throttled.

## 8. What is not modelled, and limits of what is

* Opening the store with integrity check and backup (`ScrollbackOpen` of the plan): by
  reading, after an ERROR of the check or a failed backup the next session does not check
  again, although line 1406 says it "will retry next session", since the check is keyed on
  the -wal file (1426). The composition `Backlog` of store, ledger and scheduler.
* The notify list, modes and user lists, plugins, configuration files, the text widget and
  the other front ends: sequential bookkeeping, I/O and drawing, with no order of events
  to get wrong beyond one handler. The greater part of the repository's lines is this,
  vendored code (zstd and the like) and GTK; a model of it would restate it.
* DCC chat, DCC file names, what the connect child does, proxies and certificates.
* `ChatHistory`: one sliced batch per session at a time. The code lets a second large
  batch overwrite `chunk_state` (2405) while the first one's timer runs on; that
  needs a set of chunks. Turning messages into rows,
  msgid deduplication, replayed MODEs and the background fetch (which nothing starts)
  are left out. What a freed session's memory holds is arbitrary (`junk`). The JOIN
  row is stored before the deferred start reads the newest row, so its anchor is
  never `*` there.
* `GapLedger`: one channel; the retention cutoff only hides rows. The witness's
  precondition (what was given up lies before the row that was newest when the
  catch-up began) is what its caller guarantees.
* `ZstdVfs`: one inner connection, as in the program; checksums, sector sizes, shared
  memory methods and the page-size detection are abstracted; training happens at
  close only. A failed undo may be tried again or given up, whichever SQLite does. What
  follows a commit of a half-undone transaction is described by no property but
  `WritesStayInTransaction`.
* `ScrollbackStore`: one network; replies, reactions and redaction only touch rows of their
  own or rewrite a text. Row ids are reused after a delete (no AUTOINCREMENT), which is modelled;
  a gap fill in flight across such a reuse (chathistory.c:1918) belongs to `Backlog`.
* `ServerLink`: one server record; the ping timeout is one of the ways a socket ends. An
  attempt is not limited in number, only the commands that overlap something are.
* `SendQueue`: time is counted in seconds, so the 500 ms timer may fire at any moment between
  two. Line lengths enter through their cost only.
* `Registration`: the server is taken to answer in order, and to read ATTACH strictly.
* `DccTransfer`: the receiver's disk never fills up, and `write()` takes all it is given (line 740
  looks at -1 only); peers have distinct nicks. The value of an acknowledgement read in
  pieces depends on where it was cut; the model takes it to be any.
