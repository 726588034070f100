---------------------------- MODULE ChatHistory ----------------------------
(***************************************************************************)
(* The history scheduler of src/src/common/chathistory.c: one IRC server,  *)
(* the sessions (tabs) open on it, the request each has in flight and the  *)
(* one it has queued, and the two-phase catch-up after a connection: a     *)
(* LATEST for every channel, and when all are answered BEFORE requests,    *)
(* one session at a time, until the hole is closed.                        *)
(*                                                                         *)
(* A batch is reduced to what the scheduler asks of it (Batch below); the  *)
(* messages and the gap ledger are in other modules.  The client runs on   *)
(* one thread, so every callback is one action; the operators that take    *)
(* and return a client state x are the functions the callbacks call.       *)
(***************************************************************************)
EXTENDS Integers, FiniteSets

CONSTANTS
    Channels, Dialogs,  \* sessions, numbered in the order of sess_list
    Budget,             \* prefs.hex_irc_gapfill_catchup_budget, in pages
    MaxConn,            \* bound: connections to the server
    MaxWire,            \* bound: unanswered requests for one target
    Features            \* what users and the server do in this instance

ASSUME SchedulerAssumption ==
    /\ Channels \subseteq Nat \ {0} /\ Dialogs \subseteq Nat \ {0}
    /\ Channels \cap Dialogs = {} /\ IsFiniteSet(Channels \cup Dialogs)
    /\ Budget \in Nat \ {0} /\ MaxConn \in Nat \ {0} /\ MaxWire \in Nat \ {0}
    /\ Features \subseteq
         {"chunk", "fail", "barefail", "end", "nomsgid", "switch", "older", "fill",
          "latejoin", "part", "close", "drop", "quote", "replay", "targets",
          "reconnect"}

Sess == Channels \cup Dialogs
Nobody == 0

\* chreq: type, the anchor its reference uses, priority.  NoReq is NULL.
CATCHUP == 1
USER == 2
Request == [type : {"latest", "before", "fill"}, ref : {"msgid", "ts", "*"},
            pri : {CATCHUP, USER}]
Req(t, r, p) == [type |-> t, ref |-> r, pri |-> p]
NoReq == Req("none", "*", CATCHUP)

(***************************************************************************)
(* A chathistory batch: empty, or with messages that, in the BEFORE phase, *)
(* leave more to fetch, are all duplicates, reach the lower bound, or hold *)
(* no msgid to go on from; with or without draft/chathistory-end; small or *)
(* processed in chunks by a timer.                                         *)
(***************************************************************************)
Batch == {b \in [holds : {"empty", "more", "dup", "stop", "nomsgid"},
                 end : BOOLEAN, big : BOOLEAN] :
            /\ b.end => "end" \in Features
            /\ b.big => "chunk" \in Features /\ b.holds # "empty"
            /\ b.holds = "nomsgid" => "nomsgid" \in Features}

\* chathistory_chunk_state: the batch and how it was classified on arrival.
Chunk == [b : Batch, cat : BOOLEAN, unsol : BOOLEAN, owned : BOOLEAN,
          owed : BOOLEAN, fill : BOOLEAN]
NoBatch == [holds |-> "none", end |-> FALSE, big |-> FALSE]
ChunkOf(b, cat, unsol, owned, owed, fill) ==
    [b |-> b, cat |-> cat, unsol |-> unsol, owned |-> owned, owed |-> owed, fill |-> fill]
NoChunk == ChunkOf(NoBatch, FALSE, FALSE, FALSE, FALSE, FALSE)

SessionState ==
    [open : BOOLEAN,        \* is_session
     joined : BOOLEAN,      \* sess->channel is set
     act : Request \cup {NoReq}, pend : Request \cup {NoReq},
     used : BOOLEAN,        \* history_request_used_msgid
     exh : BOOLEAN,         \* history_exhausted
     cat : BOOLEAN,         \* catchup_in_progress
     bef : BOOLEAN,         \* catchup_is_before
     stale : 0..2,          \* history_catchup_stale_count
     retr : 0..Budget,      \* history_catchup_retrieved, in pages
     oldest : BOOLEAN,      \* oldest_msgid # NULL
     newest : {"*", "ts", "msgid"},  \* what scrollback_newest_* can anchor
     chunk : Chunk \cup {NoChunk}]

ServerState ==
    [con : BOOLEAN, pending : Nat, before : Sess \cup {Nobody},
     startT : BOOLEAN, beforeT : BOOLEAN, streak : 0..4, supp : BOOLEAN,
     drives : BOOLEAN,                      \* persistence_server_drives_replay
     wrap : {"no", "open", "done"},         \* a bouncer-replay wrapper
     targets : {"no", "deferred", "asked", "done"},
     settled : BOOLEAN]                     \* the deferred start ran on this connection

VARIABLES
    ses,    \* the sessions
    srv,    \* the fields of the server record
    wire,   \* requests sent for a target and not answered
    cur,    \* current_sess
    conns   \* connections made so far

vars == <<ses, srv, wire, cur, conns>>

Here == [ses |-> ses, srv |-> srv, wire |-> wire, cur |-> cur]
Become(x) == ses' = x.ses /\ srv' = x.srv /\ wire' = x.wire /\ cur' = x.cur

Loading(x, s) == x.ses[s].act # NoReq
Target(x, s)  == x.ses[s].open /\ x.ses[s].joined

-----------------------------------------------------------------------------
(***************************************************************************)
(* The request queue of a session.                                         *)
(***************************************************************************)

\* Same type and references.  The cursor of a BEFORE only moves when a batch
\* is finished, so two BEFOREs of one session have the same reference (unless
\* a replayed batch was adopted in between; no instance combines the two).
IsDup(a, r) == a # NoReq /\ a.type = r.type /\ a.ref = r.ref

DispatchNow(x, s, r) ==
    IF ~Target(x, s) \/ ~x.srv.con \/ x.srv.supp THEN x
    ELSE [x EXCEPT !.ses[s].act = r, !.ses[s].used = (r.ref = "msgid"),
                   !.wire[s] = @ + 1]

Submit(x, s, r) ==
    LET a == x.ses[s].act
        p == x.ses[s].pend
    IN IF IsDup(a, r) \/ IsDup(p, r) THEN x
       ELSE IF a = NoReq THEN DispatchNow(x, s, r)
       ELSE IF p = NoReq \/ r.pri > p.pri THEN [x EXCEPT !.ses[s].pend = r]
       ELSE x

RequestComplete_KeepsPending(x, s) == [x EXCEPT !.ses[s].act = NoReq]

RequestComplete(x, s) ==
    LET p == x.ses[s].pend
        y == [x EXCEPT !.ses[s].act = NoReq, !.ses[s].pend = NoReq]
    IN IF p = NoReq THEN y ELSE DispatchNow(y, s, p)

QueueFree(x, s) == [x EXCEPT !.ses[s].act = NoReq, !.ses[s].pend = NoReq]

InferPriority(x, s) == IF x.ses[s].cat THEN CATCHUP ELSE USER

RequestLatest(x, s, ref) ==
    IF x.srv.con THEN Submit(x, s, Req("latest", ref, InferPriority(x, s))) ELSE x
RequestBefore(x, s) ==
    IF x.srv.con THEN Submit(x, s, Req("before", "msgid", InferPriority(x, s))) ELSE x

-----------------------------------------------------------------------------
(***************************************************************************)
(* The catch-up loop.                                                      *)
(***************************************************************************)
FinishCatchup(x, s) ==
    [x EXCEPT !.ses[s].cat = FALSE, !.ses[s].bef = FALSE,
              !.ses[s].stale = 0, !.ses[s].retr = 0,
              !.srv.before = IF @ = s THEN Nobody ELSE @]

CancelCatchup_KeepsQueue(x, s) == [x EXCEPT !.ses[s].cat = FALSE]

CancelCatchup(x, s) == QueueFree([x EXCEPT !.ses[s].cat = FALSE], s)


GiveBackSlot_All(x) == [x EXCEPT !.srv.pending = 0]

GiveBackSlot(x) == [x EXCEPT !.srv.pending = IF @ > 0 THEN @ - 1 ELSE 0]

\* chathistory_check_before_catchup: the current tab first, then the first
\* session of the list that still has a hole.
NeedsBefore(x) == {s \in Sess : x.ses[s].open /\ x.ses[s].cat /\ ~x.ses[s].exh /\ ~Loading(x, s)}
FirstOf(S) == CHOOSE s \in S : \A t \in S : s <= t

BeforeBlocked_NoWait(x) == ~x.srv.con \/ x.srv.pending > 0

\* Not until all LATESTs are done, nor while the session in turn is waiting.
BeforeBlocked(x) ==
    \/ ~x.srv.con \/ x.srv.pending > 0
    \/ x.srv.before # Nobody /\ Loading(x, x.srv.before)

CheckBefore(x) ==
    LET need == NeedsBefore(x)
        t    == IF x.cur \in need THEN x.cur ELSE FirstOf(need)
        y    == [x EXCEPT !.srv.before = t, !.ses[t].bef = TRUE]
    IN IF BeforeBlocked(x) THEN x
       ELSE IF need = {} THEN [x EXCEPT !.srv.before = Nobody]
       ELSE IF y.ses[t].oldest THEN RequestBefore(y, t)
       ELSE [FinishCatchup(y, t) EXCEPT !.srv.before = Nobody]

CheckIfNonePending(x) == IF x.srv.pending = 0 THEN CheckBefore(x) ELSE x
Finished(x, s) == CheckBefore(FinishCatchup(x, s))

\* catchup_enter_latest_phase; ref is what the newest stored row can anchor.
EnterLatestPhase(x, s, ref) ==
    [x EXCEPT !.ses[s].newest = ref, !.ses[s].cat = TRUE, !.ses[s].bef = FALSE]

SendDeferredLatest(x, s, ref) ==
    IF Loading(x, s) \/ x.ses[s].cat \/ x.ses[s].exh \/ s \notin Channels \/ ~Target(x, s)
    THEN x
    ELSE [RequestLatest(EnterLatestPhase(x, s, ref), s, ref)
            EXCEPT !.srv.pending = @ + 1]

StartCatchup(x, s) ==
    IF Loading(x, s) \/ x.ses[s].cat THEN x
    ELSE RequestLatest([x EXCEPT !.ses[s].cat = TRUE], s, x.ses[s].newest)

\* chathistory_begin_unsolicited_catchup: its result and its effect.
Adopts(x, s) == ~x.srv.supp /\ ~x.ses[s].cat /\ ~x.ses[s].exh
Adopt(x, s, ref) == [EnterLatestPhase(x, s, ref) EXCEPT !.srv.pending = @ + 1]

-----------------------------------------------------------------------------
(***************************************************************************)
(* Gap fills.  The ledger itself is abstracted: whether there is a gap to  *)
(* fill is the caller's choice, and a fill anchored on a msgid is re-asked *)
(* once on timestamps.                                                     *)
(***************************************************************************)
RequestGapFill(x, s, ref) ==
    IF x.srv.supp \/ x.ses[s].cat THEN x ELSE Submit(x, s, Req("fill", ref, USER))

\* x is the state after the queue moved on, ref the anchor of the failed fill.
GapFillRetry(x, s, ref) ==
    IF x.ses[s].used /\ ~x.srv.supp /\ ref = "msgid" THEN RequestGapFill(x, s, "ts") ELSE x

-----------------------------------------------------------------------------
(***************************************************************************)
(* finish_batch_processing.                                                *)
(***************************************************************************)
NextHop_NoTimer(x) == [x EXCEPT !.srv.before = Nobody]

\* schedule_before_catchup: every hop re-picks its session.
NextHop(x) == [x EXCEPT !.srv.before = Nobody, !.srv.beforeT = TRUE]

BeforePhase(x, s, b) ==
    LET d == [x EXCEPT !.ses[s].stale = IF b.holds = "dup" THEN @ + 1 ELSE 0,
                       !.ses[s].retr = IF b.holds = "more" THEN @ + 1 ELSE @]
    IN IF x.ses[s].exh \/ b.holds = "stop" THEN Finished(x, s)
       ELSE IF d.ses[s].stale >= 3
       THEN Finished([x EXCEPT !.ses[s].exh = TRUE], s)
       ELSE IF d.ses[s].retr >= Budget \/ b.holds = "nomsgid" THEN Finished(d, s)
       ELSE NextHop(d)

LatestPhase(x, s, ch) == CheckIfNonePending(IF ch.owned THEN GiveBackSlot(x) ELSE x)

Retire_AnyBatch(x, s, ch) == RequestComplete(x, s)

\* An unsolicited batch answers no request of ours.
Retire(x, s, ch) == IF ch.unsol THEN x ELSE RequestComplete(x, s)

FinishBatch(x, s, ch) ==
    LET q == Retire([x EXCEPT !.srv.streak = 0], s, ch)
        z == [q EXCEPT !.ses[s].oldest = @ \/ (ch.b.holds # "nomsgid" /\ (ch.unsol => ch.owned)),
                       !.ses[s].exh = @ \/ (ch.b.end /\ ~ch.fill /\ ~ch.unsol)]
    IN IF ~ch.cat THEN z
       ELSE IF z.ses[s].bef THEN BeforePhase(z, s, ch.b)
       ELSE LatestPhase(z, s, ch)

(***************************************************************************)
(* chathistory_process_batch for the session of the batch's target; ref is *)
(* what the newest stored row could anchor if the batch is adopted.        *)
(***************************************************************************)
EmptyBatch(x, s, ch, fillRef) ==
    LET u == x.ses[s].used
        y == [x EXCEPT !.ses[s].exh = @ \/ (ch.b.end /\ ~ch.fill /\ ~ch.unsol)]
        z == Retire(y, s, ch)
    IN IF ch.fill THEN GapFillRetry(z, s, fillRef)
       ELSE IF ch.cat
       THEN IF ~ch.unsol /\ ~z.ses[s].exh /\ u /\ z.ses[s].newest # "*"
            THEN RequestLatest(z, s, "ts")
            ELSE LET f == FinishCatchup(z, s)
                 IN CheckIfNonePending(IF ch.owned THEN GiveBackSlot(f) ELSE f)
       ELSE [z EXCEPT !.ses[s].exh = @ \/ ~ch.unsol]

ProcessBatch(x, s, b, nested, ref) ==
    LET a     == x.ses[s].act
        fill  == a.type = "fill" /\ ~nested
        unsol == nested \/ a = NoReq
        owned == ~unsol \/ Adopts(x, s)
        y     == IF unsol /\ owned THEN Adopt(x, s, ref) ELSE x
        cat   == IF unsol THEN owned ELSE x.ses[s].cat /\ ~fill
        ch    == ChunkOf(b, cat, unsol, owned, cat /\ owned /\ ~y.ses[s].bef, fill)
    IN IF b.holds = "empty" THEN EmptyBatch(y, s, ch, a.ref)
       ELSE IF b.big THEN [y EXCEPT !.ses[s].chunk = ch]
       ELSE FinishBatch(y, s, ch)

(***************************************************************************)
(* chathistory_handle_fail.  Four FAILs in a row suppress all requests.  A *)
(* FAIL that says BETWEEN is unknown keeps the msgid anchors of the fill.  *)
(***************************************************************************)
FailedRequest(x, s) ==
    LET n == IF x.srv.streak < 4 THEN x.srv.streak + 1 ELSE 4
    IN RequestComplete([x EXCEPT !.srv.streak = n, !.srv.supp = @ \/ n >= 4], s)
InLatestPhase(x, s) == x.ses[s].cat /\ ~x.ses[s].bef

SlotAfterFail_Strands(x, y, s) == y

\* The LATEST phase of a session ends with a FAIL only if nothing is retried.
SlotAfterFail(x, y, s) == IF InLatestPhase(x, s) THEN GiveBackSlot(y) ELSE y

HandleFail(x, s, unknown) ==
    LET a == x.ses[s].act
        y == FailedRequest(x, s)
    IN IF a.type = "fill" THEN IF unknown THEN y ELSE GapFillRetry(y, s, a.ref)
       ELSE IF ~x.ses[s].cat THEN y
       ELSE IF ~y.srv.supp /\ x.ses[s].used /\ x.ses[s].newest # "*"
       THEN RequestLatest(y, s, "ts")
       ELSE CheckIfNonePending(FinishCatchup(SlotAfterFail(x, y, s), s))

-----------------------------------------------------------------------------
(***************************************************************************)
(* The connection: connecting, JOINs, the timers, disconnecting.           *)
(***************************************************************************)
Fresh(s, old) ==
    [open |-> TRUE, joined |-> s \in Dialogs, act |-> NoReq, pend |-> NoReq, used |-> FALSE,
     exh |-> FALSE, cat |-> FALSE, bef |-> FALSE, stale |-> 0, retr |-> 0, oldest |-> old,
     newest |-> IF old THEN "msgid" ELSE "*", chunk |-> NoChunk]
Offline ==
    [con |-> FALSE, pending |-> 0, before |-> Nobody, startT |-> FALSE, beforeT |-> FALSE,
     streak |-> 0, supp |-> FALSE, drives |-> FALSE, wrap |-> "no", targets |-> "no",
     settled |-> FALSE]

Init ==
    /\ \E old \in [Sess -> BOOLEAN] : ses = [s \in Sess |-> Fresh(s, old[s])]
    /\ srv = Offline
    /\ wire = [s \in Sess |-> 0]
    /\ cur \in Sess
    /\ conns = IF "reconnect" \in Features THEN 1 ELSE 0    \* after an earlier connection

Room(x) == \A s \in Sess : x.wire[s] <= MaxWire     \* bound

\* Connecting takes far longer than the 16 ms a chunk waits for its timer.
Connect(drives) ==
    /\ ~srv.con /\ conns < MaxConn /\ \A s \in Sess : ses[s].chunk = NoChunk
    /\ drives => "replay" \in Features
    /\ srv' = [Offline EXCEPT !.con = TRUE, !.drives = drives]
    /\ conns' = conns + 1
    /\ UNCHANGED <<ses, wire, cur>>

\* The end of the MOTD: chathistory_request_targets_on_reconnect.
SendTargets == IF conns > 1 THEN "asked" ELSE "done"
EndOfMotd ==
    /\ "targets" \in Features /\ srv.con /\ srv.targets = "no"
    /\ srv' = [srv EXCEPT !.targets = IF srv.drives THEN "deferred" ELSE SendTargets]
    /\ UNCHANGED <<ses, wire, cur, conns>>

\* inbound_ujoin.  JOINs come in a burst, unless the user joins by hand later.
Join(s) ==
    /\ srv.con /\ s \in Channels /\ ses[s].open /\ ~ses[s].joined
    /\ srv.settled => "latejoin" \in Features
    /\ ses' = [ses EXCEPT ![s].joined = TRUE]
    /\ srv' = [srv EXCEPT !.startT = TRUE]
    /\ UNCHANGED <<wire, cur, conns>>

\* chathistory_deferred_start_cb: the sessions do not affect one another.
DeferredStart(ref) ==
    LET sent(s) == SendDeferredLatest(Here, s, ref[s])
    IN /\ srv.startT
       /\ ses' = [s \in Sess |-> sent(s).ses[s]]
       /\ wire' = [s \in Sess |-> sent(s).wire[s]]
       /\ srv' = [srv EXCEPT !.startT = FALSE, !.settled = TRUE,
                     !.targets = IF @ = "deferred" THEN SendTargets ELSE @,
                     !.pending = Cardinality({s \in Sess : sent(s) # Here})]
       /\ Room([wire |-> wire'])
       /\ UNCHANGED <<cur, conns>>

BeforeTimer ==
    /\ srv.beforeT
    /\ Become(CheckBefore([Here EXCEPT !.srv.beforeT = FALSE]))
    /\ UNCHANGED conns

\* server_cleanup and server_disconnect; dialogs keep their state.
Disconnect ==
    /\ "drop" \in Features /\ srv.con
    /\ ses' = [s \in Sess |-> IF s \in Channels
                              THEN [CancelCatchup(Here, s).ses[s] EXCEPT !.joined = FALSE]
                              ELSE ses[s]]
    /\ srv' = [Offline EXCEPT !.streak = srv.streak, !.supp = srv.supp]
    /\ wire' = [s \in Sess |-> 0]
    /\ UNCHANGED <<cur, conns>>

-----------------------------------------------------------------------------
(***************************************************************************)
(* What the server sends: an answer to a request (a batch or a FAIL), the  *)
(* answer to TARGETS, batches nobody asked for, a replay of its own.       *)
(***************************************************************************)
Answered(s) == [Here EXCEPT !.wire[s] = @ - 1]

Reply(s, b, ref) ==
    /\ srv.con /\ wire[s] > 0 /\ (b.big => ses[s].chunk = NoChunk)
    /\ Become(IF Target(Here, s) THEN ProcessBatch(Answered(s), s, b, FALSE, ref)
              ELSE Answered(s))
    /\ UNCHANGED conns

\* A FAIL is for the session its context names, else for the first one loading.
Fail(s, named, unknown) ==
    LET waiting == {t \in Sess : ses[t].open /\ Loading(Here, t)}
    IN /\ "fail" \in Features /\ srv.con /\ wire[s] > 0
       /\ named \/ "barefail" \in Features
       /\ unknown => ses[s].act.type = "fill"
       /\ Become(IF named /\ Target(Here, s) THEN HandleFail(Answered(s), s, unknown)
                 ELSE IF waiting = {} THEN Answered(s)
                 ELSE HandleFail(Answered(s), FirstOf(waiting), FALSE))
       /\ UNCHANGED conns

Answer(s) ==
    \/ \E b \in Batch, ref \in {"ts", "msgid"} : Reply(s, b, ref)
    \/ \E named, unknown \in BOOLEAN : Fail(s, named, unknown)

\* chathistory_process_targets_batch, naming the correspondents in D.
TargetsReply(D) ==
    LET started(s) == StartCatchup(Here, s)
    IN /\ srv.con /\ srv.targets = "asked" /\ D \subseteq Dialogs
       /\ ses' = [s \in Sess |-> IF s \in D THEN started(s).ses[s] ELSE ses[s]]
       /\ wire' = [s \in Sess |-> IF s \in D THEN started(s).wire[s] ELSE wire[s]]
       /\ srv' = [srv EXCEPT !.targets = "done"]
       /\ Room([wire |-> wire'])
       /\ UNCHANGED <<cur, conns>>

\* The answer to a hand-typed /quote CHATHISTORY.
QuotedBatch(s, b, ref) ==
    /\ "quote" \in Features /\ srv.con /\ Target(Here, s) /\ (b.big => ses[s].chunk = NoChunk)
    /\ Become(ProcessBatch(Here, s, b, FALSE, ref))
    /\ Room([wire |-> wire']) /\ UNCHANGED conns

\* chathistory_replay_wrapper_begin, a child batch, chathistory_replay_wrapper_end.
WrapperBegin ==
    /\ "replay" \in Features /\ srv.con /\ srv.wrap = "no"
    /\ srv' = [srv EXCEPT !.wrap = "open", !.drives = FALSE,
                  !.startT = @ /\ ~srv.drives,
                  !.targets = IF srv.drives /\ @ = "deferred" THEN "done" ELSE @]
    /\ UNCHANGED <<ses, wire, cur, conns>>
ReplayChild(s, b, ref) ==
    /\ srv.con /\ srv.wrap = "open" /\ Target(Here, s) /\ (b.big => ses[s].chunk = NoChunk)
    /\ Become(ProcessBatch(Here, s, b, TRUE, ref))
    /\ UNCHANGED conns
WrapperEnd ==
    /\ srv.con /\ srv.wrap = "open"
    /\ Become(CheckIfNonePending([Here EXCEPT !.srv.wrap = "done"]))
    /\ UNCHANGED conns

\* chunk_idle_cb, its last round.
ChunkDone(s) ==
    /\ ses[s].open /\ ses[s].chunk # NoChunk
    /\ Become([FinishBatch(Here, s, ses[s].chunk) EXCEPT !.ses[s].chunk = NoChunk])
    /\ UNCHANGED conns

-----------------------------------------------------------------------------
(***************************************************************************)
(* What the user does.                                                     *)
(***************************************************************************)

\* Scrolling to the top (chathistory_request_older), or near a gap.
ScrollToTop ==
    /\ "older" \in Features /\ cur \in Sess /\ ses[cur].open
    /\ ~ses[cur].exh /\ ses[cur].oldest
    /\ Become(Submit(Here, cur, Req("before", "msgid", USER)))
    /\ Room([wire |-> wire']) /\ UNCHANGED conns
ScrollToGap(s, ref) ==
    /\ "fill" \in Features /\ ses[s].open
    /\ Become(RequestGapFill(Here, s, ref))
    /\ Room([wire |-> wire']) /\ UNCHANGED conns

TabSwitch(s) ==
    LET x == [Here EXCEPT !.cur = s]
    IN /\ "switch" \in Features /\ ses[s].open /\ s # cur
       /\ Become(IF srv.before # s THEN CheckIfNonePending(x) ELSE x)
       /\ UNCHANGED conns

\* PART or KICK: clear_channel.
Part(s) ==
    /\ "part" \in Features /\ srv.con /\ s \in Channels /\ Target(Here, s)
    /\ ses' = [CancelCatchup(Here, s).ses EXCEPT ![s].joined = FALSE]
    /\ UNCHANGED <<srv, wire, cur, conns>>

\* session_free.  What is later read in the freed record is arbitrary (junk).
ReleaseLatestSlot(x, s) == IF x.ses[s].chunk.owed THEN GiveBackSlot(x) ELSE x
Close(s, junk) ==
    LET x    == ReleaseLatestSlot(QueueFree(Here, s), s)
        left == {t \in Sess \ {s} : ses[t].open}
    IN /\ "close" \in Features /\ ses[s].open /\ left # {}
       /\ Become([x EXCEPT !.ses[s].open = FALSE, !.ses[s].joined = FALSE,
                           !.ses[s].cat = FALSE, !.ses[s].chunk = NoChunk,
                           !.ses[s].act = IF junk THEN Req("before", "msgid", USER) ELSE NoReq,
                           !.cur = IF @ = s THEN FirstOf(left) ELSE @])
       /\ UNCHANGED conns

-----------------------------------------------------------------------------
\* Steps the main loop or the server owes, steps of the connection and of the
\* server's own accord, and steps of the user.
SystemStep ==
    \/ \E ref \in [Sess -> {"ts", "msgid"}] : DeferredStart(ref)
    \/ BeforeTimer
    \/ WrapperEnd
    \/ \E s \in Sess : ChunkDone(s)
    \/ \E s \in Sess : Answer(s)
ServerStep ==
    \/ \E d \in BOOLEAN : Connect(d)
    \/ EndOfMotd
    \/ \E s \in Sess : Join(s)
    \/ Disconnect
    \/ \E D \in SUBSET Dialogs : TargetsReply(D)
    \/ WrapperBegin
    \/ \E s \in Sess, b \in Batch, ref \in {"ts", "msgid"} : ReplayChild(s, b, ref)
UserStep ==
    \/ ScrollToTop
    \/ \E s \in Sess, ref \in {"ts", "msgid"} : ScrollToGap(s, ref)
    \/ \E s \in Sess : TabSwitch(s)
    \/ \E s \in Sess : Part(s)
    \/ \E s \in Sess, junk \in BOOLEAN : Close(s, junk)
    \/ \E s \in Sess, b \in Batch, ref \in {"ts", "msgid"} : QuotedBatch(s, b, ref)
Next == SystemStep \/ ServerStep \/ UserStep

Spec == Init /\ [][Next]_vars

-----------------------------------------------------------------------------
(***************************************************************************)
(* Properties.                                                             *)
(***************************************************************************)
TypeOK ==
    /\ ses \in [Sess -> SessionState] /\ srv \in ServerState
    /\ wire \in [Sess -> 0..MaxWire] /\ cur \in Sess /\ conns \in 0..MaxConn

(***************************************************************************)
(* chathistory_latest_pending is the "count of sessions awaiting LATEST    *)
(* response" (poxchat.h): a slot too many blocks the BEFORE phase of every *)
(* session, one too few starts it early.  Awaiting: in the LATEST phase    *)
(* with its request unanswered, or its batch still in chunks.  Not once    *)
(* requests are suppressed: an empty answer is retried all the same, the   *)
(* retry is dropped, and its slot is stranded.                             *)
(***************************************************************************)
Awaiting(s) ==
    /\ ses[s].open /\ ses[s].cat /\ ~ses[s].bef
    /\ \/ ses[s].act.type = "latest" /\ ses[s].act.pri = CATCHUP
       \/ ses[s].pend.type = "latest" /\ ses[s].pend.pri = CATCHUP
       \/ ses[s].chunk.cat /\ ses[s].chunk.unsol
SlotsMatchWaiters ==
    srv.con /\ ~srv.supp => srv.pending = Cardinality({s \in Sess : Awaiting(s)})

(***************************************************************************)
(* ch_active is an "in-flight chathistory request (NULL = idle)": whoever  *)
(* waits is owed an answer, or is working on one.  Otherwise the session's *)
(* queue is blocked until it is closed.                                    *)
(***************************************************************************)
ActiveIsInFlight ==
    \A s \in Sess : ses[s].open /\ ses[s].act # NoReq =>
                        wire[s] > 0 \/ ses[s].chunk # NoChunk

\* A request is queued only behind another one.
PendingHasActive == \A s \in Sess : ses[s].pend # NoReq => ses[s].act # NoReq

\* The two slots of every session's queue are accounted for.
QueueAccounted == ActiveIsInFlight /\ PendingHasActive

(***************************************************************************)
(* Background channels are closed "one session at a time": no two sessions *)
(* have a catch-up BEFORE in flight, and none while a LATEST is.           *)
(***************************************************************************)
CatchupBefore(s) == ses[s].act.type = "before" /\ ses[s].act.pri = CATCHUP
OneBeforeAtATime == \A s, t \in Sess : CatchupBefore(s) /\ CatchupBefore(t) => s = t
BeforeAfterLatest ==
    [][\A s \in Sess : CatchupBefore(s)' /\ ~CatchupBefore(s) =>
            \A t \in Sess : ~Awaiting(t)']_vars

\* chathistory_before_sess is NULL or a session that exists.
BeforeSessExists == srv.before # Nobody => ses[srv.before].open

(***************************************************************************)
(* Nothing in flight, no timer armed, no batch in chunks: then no session  *)
(* is still catching up, since nothing would ever move it on (and while    *)
(* catchup_in_progress is set its gaps cannot be filled by scrolling).     *)
(***************************************************************************)
Quiet ==
    /\ srv.con /\ ~srv.startT /\ ~srv.beforeT /\ srv.wrap # "open"
    /\ \A s \in Sess : wire[s] = 0 /\ ses[s].chunk = NoChunk
NoStalledCatchup == Quiet => \A s \in Sess : ~ses[s].cat

\* A catch-up that starts has the whole budget and no stale pages yet.
CatchupStartsAfresh ==
    [][\A s \in Sess : ~ses[s].cat /\ ses[s].cat' =>
            ses'[s].retr = 0 /\ ses'[s].stale = 0]_vars

(***************************************************************************)
(* A replayed batch "must not pop the session's request queue": it ends no *)
(* request that waits for an answer, and sends no queued one, neither when *)
(* it arrives nor when its last chunk is done.                             *)
(***************************************************************************)
ReplayStep(s) ==
    \/ \E b \in Batch, ref \in {"ts", "msgid"} : ReplayChild(s, b, ref)
    \/ ses[s].chunk.unsol /\ ChunkDone(s)
ReplayLeavesQueue ==
    [][\A s \in Sess :
            /\ ses[s].act # NoReq
            /\ ses'[s].act # ses[s].act \/ ses'[s].pend # ses[s].pend
            => ~ReplayStep(s)]_vars

\* Every catch-up ends: closed, given up, or cut off with the connection, unless
\* the server's history is suppressed (which strands it, see SlotsMatchWaiters).
CatchupEnds == \A s \in Sess : ses[s].cat ~> ~ses[s].cat \/ srv.supp

=============================================================================
