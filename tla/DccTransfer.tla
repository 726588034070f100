---------------------------- MODULE DccTransfer ----------------------------
(***************************************************************************)
(* DCC file transfers (src/src/common/dcc.c): the offer, RESUME and ACCEPT *)
(* that travel as CTCP messages by way of the server, the direct           *)
(* connection (active or passive), the data, and the 32-bit positions the  *)
(* receiver sends back as acknowledgements.                                *)
(*                                                                         *)
(* Both ends run this code.  One receiver is offered the same file by      *)
(* several peers, one transfer each.  A byte is its offset in the file, so *)
(* that a file on the receiver's disk is the sequence of the offsets       *)
(* written to it.                                                          *)
(***************************************************************************)
EXTENDS Integers, Sequences, FiniteSets, FiniteSetsExt

CONSTANTS
    Transfers,      \* one per peer; the newest is first in dcc_list
    Configs,        \* [size, old, passive, fast, auto, limit]: see ConfigType
    Mod,            \* 2^32: acknowledgements are positions modulo Mod
    Block,          \* prefs.hex_dcc_blocksize
    Window,         \* bytes the connection holds before send() would block
    MaxUser,        \* bound: clicks of the receiver
    MaxThrottles,   \* bound: times the speed limit is hit
    MaxSplits       \* bound: acknowledgements that arrive in pieces

\* size of the file, what an earlier session left of it, whether the offers are passive,
\* hex_dcc_fast_send, hex_dcc_auto_resume, and whether a speed limit is set.
ConfigType == [size : Nat \ {0}, old : Nat, passive : BOOLEAN, fast : BOOLEAN,
               auto : BOOLEAN, limit : BOOLEAN]

ASSUME DccAssumption ==
    /\ Transfers \subseteq Nat /\ IsFiniteSet(Transfers)
    /\ \A c \in Configs : c \in ConfigType
    /\ Mod \in Nat \ {0} /\ Block \in Nat \ {0} /\ Window \in Nat \ {0}
    /\ MaxUser \in Nat /\ MaxThrottles \in Nat /\ MaxSplits \in Nat

VARIABLES
    cfg,        \* the configuration of this behaviour
    snd,        \* the peers' struct DCC, TYPE_SEND
    rcv,        \* the receiver's struct DCC, TYPE_RECV
    net,        \* the connections and the CTCP messages under way
    disk,       \* the receiver's files, by the number in their name; 0 is the plain name
    hist        \* history: what the properties remember

vars == <<cfg, snd, rcv, net, disk, hist>>

Stats == {"NONE", "QUEUED", "CONNECTING", "ACTIVE", "DONE", "FAILED", "ABORTED"}
Over == {"DONE", "FAILED", "ABORTED"}
Absent == <<-1>>
Names == 0..Cardinality(Transfers)

\* garbled is history: an acknowledgement was read in pieces.
NewSnd == [stat |-> "NONE", pos |-> 0, ack |-> 0, resumable |-> 0, ackoffset |-> FALSE,
           wiotag |-> FALSE, throttled |-> FALSE, garbled |-> FALSE]
NewRcv == [stat |-> "NONE", pos |-> 0, resumable |-> 0, resume_sent |-> FALSE,
           fp |-> FALSE, file |-> 0, throttled |-> FALSE]
\* data and acks in flight, the two sockets, the CTCP queues either way.
NewNet == [data |-> <<>>, acks |-> <<>>, sok |-> "none", eofS |-> FALSE, eofR |-> FALSE,
           toS |-> <<>>, toR |-> <<>>]

Whole(n) == [i \in 1..n |-> i - 1]

Init ==
    /\ cfg \in Configs
    /\ snd = [t \in Transfers |-> NewSnd]
    /\ rcv = [t \in Transfers |-> NewRcv]
    /\ net = [t \in Transfers |-> NewNet]
    /\ disk = [n \in Names |-> IF n = 0 /\ cfg.old > 0 THEN Whole(cfg.old) ELSE Absent]
    \* clash: requests overlapped (see Clashes, HandleAccept); unasked: a transfer connected to
    \* append without a RESUME (see dcc_get_nick); upset: an abort, a stall or a limit struck;
    \* clicks, limits and splits so far.
    /\ hist = [clash |-> FALSE, unasked |-> FALSE, upset |-> [t \in Transfers |-> FALSE],
               clicks |-> 0, limits |-> 0, splits |-> 0]

Upset(t) == hist' = [hist EXCEPT !.upset[t] = TRUE]

(***************************************************************************)
(* Ends of a transfer.                                                     *)
(***************************************************************************)
\* dcc_close: no source, socket or file is left.
ClosedSnd(s, stat) == [s EXCEPT !.stat = stat, !.wiotag = FALSE]
ClosedRcv(r, stat) == [r EXCEPT !.stat = stat, !.fp = FALSE]

\* A close with unread acknowledgements resets the connection: data may be lost.
HungUp(n) ==
    {[n EXCEPT !.eofS = TRUE]}
    \cup (IF n.acks = <<>> THEN {} ELSE {[n EXCEPT !.eofS = TRUE, !.data = <<>>]})

(***************************************************************************)
(* The sender.  A step of dcc_send_data maps the sender and its connection *)
(* to the next ones.                                                       *)
(***************************************************************************)
Least(a, b) == IF a < b THEN a ELSE b

dcc_send_data_Unwrapped(s, n) ==
    LET len == Least(Block, cfg.size - s.pos)
        sent == Least(len, Window - Len(n.data))
        pos == s.pos + sent
    IN IF s.throttled THEN {<<[s EXCEPT !.wiotag = FALSE], n>>}
       ELSE IF ~cfg.fast /\ s.ack < s.pos THEN {<<s, n>>}
       ELSE IF len < 1 THEN {<<ClosedSnd(s, "FAILED"), m>> : m \in HungUp(n)}
       ELSE {<<[s EXCEPT !.pos = pos, !.wiotag = cfg.fast /\ pos < cfg.size],
               [n EXCEPT !.data = @ \o [i \in 1..sent |-> s.pos + i - 1]]>>}
dcc_send_data(s, n) ==
    LET len == Least(Block, cfg.size - s.pos)
        sent == Least(len, Window - Len(n.data))
        pos == s.pos + sent
    IN IF s.throttled THEN {<<[s EXCEPT !.wiotag = FALSE], n>>}
       ELSE IF ~cfg.fast /\ s.ack < s.pos % Mod THEN {<<s, n>>}
       ELSE IF len < 1 THEN {<<ClosedSnd(s, "FAILED"), m>> : m \in HungUp(n)}
       ELSE {<<[s EXCEPT !.pos = pos, !.wiotag = cfg.fast /\ pos < cfg.size],
               [n EXCEPT !.data = @ \o [i \in 1..sent |-> s.pos + i - 1]]>>}

Sends(t, s, n) ==
    \E p \in dcc_send_data(s, n) :
        snd' = [snd EXCEPT ![t] = p[1]] /\ net' = [net EXCEPT ![t] = p[2]]

\* The write handler of a fast send.
SendReady(t) ==
    /\ snd[t].stat = "ACTIVE" /\ snd[t].wiotag /\ Len(net[t].data) < Window
    /\ Sends(t, snd[t], net[t])
    /\ UNCHANGED <<cfg, rcv, disk, hist>>

\* The position an acknowledgement stands for: 32 bits, and an offset from the resume
\* point once it was seen to lie below it.
AckRead(s, a) ==
    LET offset == cfg.size < Mod /\ (s.ackoffset \/ a < s.resumable)
    IN [s EXCEPT !.ackoffset = @ \/ offset, !.ack = IF offset THEN a + s.resumable ELSE a]

Complete(s) == s.pos >= cfg.size /\ s.ack >= cfg.size % Mod

\* The low bits of the acknowledgement below the high bits of the position.
Extended(s) == [s EXCEPT !.ack = (s.pos \div Mod) * Mod + (@ % Mod)]

dcc_handle_new_ack(t, s) ==
    LET n == [net[t] EXCEPT !.acks = Tail(@)]
    IN \E p \in IF Complete(s)
                THEN {<<[ClosedSnd(s, "DONE") EXCEPT !.ack = cfg.size], m>> : m \in HungUp(n)}
                ELSE IF ~cfg.fast /\ s.ack >= s.pos % Mod THEN dcc_send_data(s, n)
                ELSE {<<s, n>>} :
         /\ snd' = [snd EXCEPT ![t] = Extended(p[1])]
         /\ net' = [net EXCEPT ![t] = p[2]]

\* The rest of an acknowledgement that arrives in pieces is received over its beginning, and
\* the value is made of its last bytes and of what ack_buf held before.
dcc_read_ack(t) ==
    /\ snd[t].stat = "ACTIVE" /\ net[t].acks # <<>>
    /\ \/ dcc_handle_new_ack(t, AckRead(snd[t], Head(net[t].acks))) /\ UNCHANGED hist
       \/ /\ hist.splits < MaxSplits
          /\ \E a \in 0..Mod - 1 :
                dcc_handle_new_ack(t, [AckRead(snd[t], a) EXCEPT !.garbled = TRUE])
          /\ hist' = [hist EXCEPT !.splits = @ + 1]
    /\ UNCHANGED <<cfg, rcv, disk>>

\* dcc_read_ack at the end of the stream.
AcksEnd(t) ==
    /\ snd[t].stat = "ACTIVE" /\ net[t].acks = <<>> /\ net[t].eofR
    /\ snd' = [snd EXCEPT ![t] = ClosedSnd(@, "FAILED")]
    /\ net' = [net EXCEPT ![t].eofS = TRUE]
    /\ UNCHANGED <<cfg, rcv, disk, hist>>

(***************************************************************************)
(* Offers, RESUME and ACCEPT.                                              *)
(***************************************************************************)
dcc_send(t) ==
    /\ snd[t].stat = "NONE"
    /\ snd' = [snd EXCEPT ![t].stat = "QUEUED"]
    /\ net' = [net EXCEPT ![t].toR = Append(@, [ctcp |-> "SEND"])]
    /\ UNCHANGED <<cfg, rcv, disk, hist>>

\* Another transfer is writing the file of r.
InProgress(t, r) ==
    \E u \in Transfers \ {t} : rcv[u].stat \in {"CONNECTING", "ACTIVE"} /\ rcv[u].file = r.file

update_is_resumable_Unchecked(t, r) ==
    LET have == IF disk[r.file] = Absent THEN 0 ELSE Len(disk[r.file])
    IN IF have < cfg.size THEN [r EXCEPT !.resumable = have, !.pos = have]
       ELSE [r EXCEPT !.resumable = 0]
update_is_resumable(t, r) ==
    LET have == IF disk[r.file] = Absent THEN 0 ELSE Len(disk[r.file])
    IN IF have > 0 /\ InProgress(t, r) /\ have < cfg.size
       THEN [r EXCEPT !.resumable = 0, !.pos = 0]
       ELSE IF have < cfg.size THEN [r EXCEPT !.resumable = have, !.pos = have]
       ELSE [r EXCEPT !.resumable = 0]

dcc_add_file(t) ==
    /\ net[t].toR # <<>> /\ Head(net[t].toR).ctcp = "SEND"
    /\ rcv' = [rcv EXCEPT ![t] = update_is_resumable(t, [NewRcv EXCEPT !.stat = "QUEUED"])]
    /\ net' = [net EXCEPT ![t].toR = Tail(@)]
    /\ UNCHANGED <<cfg, snd, disk, hist>>

\* dcc_connect: connect to the sender, or listen and tell it where, unless there is no socket
\* to do it with.  n is the network without the message that led here.
dcc_connect(t, r, n) ==
    \/ /\ rcv' = [rcv EXCEPT ![t] = [r EXCEPT !.stat = "CONNECTING"]]
       /\ net' = IF cfg.passive THEN [n EXCEPT ![t].toS = Append(@, [ctcp |-> "SEND"])] ELSE n
    \/ rcv' = [rcv EXCEPT ![t] = [r EXCEPT !.stat = "FAILED"]] /\ net' = n

\* The receiver decides about t again before the answer to its RESUME, or asks to resume
\* while another transfer of the file waits for the answer to its own.
Clashes(t, asks) ==
    \/ rcv[t].resume_sent
    \/ asks /\ \E u \in Transfers \ {t} :
        rcv[u].resume_sent /\ rcv[u].stat = "QUEUED" /\ rcv[u].file = rcv[t].file
Click(clash, unasked) ==
    /\ hist.clicks < MaxUser
    /\ hist' = [hist EXCEPT !.clicks = @ + 1, !.clash = @ \/ clash, !.unasked = @ \/ unasked]

\* Look at what is there, and ask for the rest of it.
Resumes(t) ==
    LET r == update_is_resumable(t, rcv[t])
    IN IF r.resumable > 0
       THEN /\ rcv' = [rcv EXCEPT ![t] = [r EXCEPT !.resume_sent = TRUE]]
            /\ net' = [net EXCEPT ![t].toS = Append(@, [ctcp |-> "RESUME", at |-> r.resumable])]
            /\ Click(Clashes(t, TRUE), FALSE)
       ELSE rcv' = [rcv EXCEPT ![t] = r] /\ UNCHANGED net /\ Click(Clashes(t, FALSE), FALSE)

\* The Resume button.
dcc_resume(t) ==
    /\ rcv[t].stat = "QUEUED" /\ Resumes(t)
    /\ UNCHANGED <<cfg, snd, disk>>

\* The Accept button, /DCC GET nick file, or auto-accept.
dcc_get(t) ==
    /\ rcv[t].stat = "QUEUED"
    /\ IF cfg.auto /\ rcv[t].resumable > 0 THEN Resumes(t)
       ELSE /\ dcc_connect(t, [rcv[t] EXCEPT !.resumable = 0, !.pos = 0], net)
            /\ Click(Clashes(t, FALSE), FALSE)
    /\ UNCHANGED <<cfg, snd, disk>>

\* /DCC GET nick: resumable is kept where nothing is resumed, and
\* dcc_read will append.
dcc_get_nick(t) ==
    /\ rcv[t].stat = "QUEUED"
    /\ LET r == update_is_resumable(t, rcv[t])
       IN IF cfg.auto /\ r.resumable > 0 THEN Resumes(t)
          ELSE /\ dcc_connect(t, [r EXCEPT !.pos = 0], net)
               /\ Click(Clashes(t, FALSE), r.resumable > 0)
    /\ UNCHANGED <<cfg, snd, disk>>

HandleResume_FromStart(t) ==
    /\ net[t].toS # <<>> /\ Head(net[t].toS).ctcp = "RESUME"
    /\ snd' = [snd EXCEPT ![t].resumable = Head(net[t].toS).at]
    /\ net' = [net EXCEPT ![t].toS = Tail(@), ![t].toR = Append(@, [ctcp |-> "ACCEPT"])]
    /\ UNCHANGED <<cfg, rcv, disk, hist>>
\* handle_dcc, RESUME: the transfer is looked up by port or id, then by nick and file
\* alone, whatever its state.
HandleResume(t) ==
    /\ net[t].toS # <<>> /\ Head(net[t].toS).ctcp = "RESUME"
    /\ LET at == Head(net[t].toS).at
           s == [snd[t] EXCEPT !.resumable = at]
       IN IF at < cfg.size
          THEN /\ snd' = [snd EXCEPT ![t] = [s EXCEPT !.pos = at, !.ack = at]]
               /\ net' = [net EXCEPT ![t].toS = Tail(@),
                                     ![t].toR = Append(@, [ctcp |-> "ACCEPT"])]
          ELSE snd' = [snd EXCEPT ![t] = s] /\ net' = [net EXCEPT ![t].toS = Tail(@)]
    /\ UNCHANGED <<cfg, rcv, disk, hist>>

\* handle_dcc, ACCEPT: by port, which in a passive transfer is 0 for all of them.
Accepted(t) ==
    IF cfg.passive
    THEN {u \in Transfers : rcv[u].stat = "QUEUED"
              /\ \A v \in Transfers : rcv[v].stat = "QUEUED" => v <= u}
    ELSE {u \in {t} : rcv[u].stat = "QUEUED"}
HandleAccept(t) ==
    /\ net[t].toR # <<>> /\ Head(net[t].toR).ctcp = "ACCEPT"
    /\ LET n == [net EXCEPT ![t].toR = Tail(@)]
       IN IF Accepted(t) = {} THEN net' = n /\ UNCHANGED <<rcv, hist>>
          ELSE \E u \in Accepted(t) :
                /\ dcc_connect(u, rcv[u], n)
                /\ hist' = [hist EXCEPT !.clash = @ \/ u # t]
    /\ UNCHANGED <<cfg, snd, disk>>

(***************************************************************************)
(* The connection.                                                         *)
(***************************************************************************)
\* dcc_accept of an active send; the first block goes out at once.
SenderAccepts(t) ==
    /\ ~cfg.passive /\ snd[t].stat = "QUEUED" /\ rcv[t].stat = "CONNECTING"
    /\ Sends(t, [snd[t] EXCEPT !.stat = "ACTIVE"], [net[t] EXCEPT !.sok = "open"])
    /\ UNCHANGED <<cfg, rcv, disk, hist>>

\* dcc_connect_finished of the receiver, or dcc_accept of a passive one.
ReceiverConnected(t) ==
    /\ rcv[t].stat = "CONNECTING"
    /\ IF cfg.passive
       THEN snd[t].stat = "CONNECTING" /\ net' = [net EXCEPT ![t].sok = "open"]
       ELSE net[t].sok = "open" /\ UNCHANGED net
    /\ rcv' = [rcv EXCEPT ![t].stat = "ACTIVE"]
    /\ UNCHANGED <<cfg, snd, disk, hist>>

\* The peer no longer listens: dcc_did_connect.
Refused(t) ==
    /\ net[t].sok = "none"
    /\ \/ /\ ~cfg.passive /\ rcv[t].stat = "CONNECTING" /\ snd[t].stat \in Over
          /\ rcv' = [rcv EXCEPT ![t].stat = "FAILED"] /\ UNCHANGED snd
       \/ /\ cfg.passive /\ snd[t].stat = "CONNECTING" /\ rcv[t].stat \in Over
          /\ snd' = [snd EXCEPT ![t].stat = "FAILED"] /\ UNCHANGED rcv
    /\ Upset(t)
    /\ UNCHANGED <<cfg, net, disk>>

\* Third step of a passive send: the receiver's address, for dcc_connect; a sender no longer
\* queued drops it.
HandleSend(t) ==
    /\ net[t].toS # <<>> /\ Head(net[t].toS).ctcp = "SEND"
    /\ net' = [net EXCEPT ![t].toS = Tail(@)]
    /\ IF snd[t].stat = "QUEUED"
       THEN \E stat \in {"CONNECTING", "FAILED"} : snd' = [snd EXCEPT ![t].stat = stat]
       ELSE UNCHANGED snd
    /\ UNCHANGED <<cfg, rcv, disk, hist>>
SenderConnected(t) ==
    /\ cfg.passive /\ snd[t].stat = "CONNECTING" /\ net[t].sok = "open"
    /\ Sends(t, [snd[t] EXCEPT !.stat = "ACTIVE"], net[t])
    /\ UNCHANGED <<cfg, rcv, disk, hist>>

(***************************************************************************)
(* The receiver: dcc_read.                                                 *)
(***************************************************************************)
Fresh(name) == Min({n \in Names : n >= name /\ disk[n] = Absent})

\* The file is opened at the first data: to append when resuming, else under a new name.
Opened_Reuses(r) ==
    IF r.fp THEN <<r, disk>>
    ELSE IF r.resumable > 0 THEN <<[r EXCEPT !.fp = TRUE, !.pos = r.resumable], disk>>
    ELSE <<[r EXCEPT !.fp = TRUE], [disk EXCEPT ![r.file] = <<>>]>>
Opened(r) ==
    IF r.fp THEN <<r, disk>>
    ELSE IF r.resumable > 0 THEN <<[r EXCEPT !.fp = TRUE, !.pos = r.resumable], disk>>
    ELSE LET n == Fresh(r.file)
         IN <<[r EXCEPT !.fp = TRUE, !.file = n], [disk EXCEPT ![n] = <<>>]>>

\* Everything that has arrived is written and acknowledged once.
dcc_read(t) ==
    /\ rcv[t].stat = "ACTIVE" /\ ~rcv[t].throttled
    /\ LET o == Opened(rcv[t])
           r == [o[1] EXCEPT !.pos = @ + Len(net[t].data)]
       IN \/ /\ net[t].data # <<>>
             /\ disk' = [o[2] EXCEPT ![r.file] = @ \o net[t].data]
             /\ LET done == r.pos >= cfg.size
                IN /\ rcv' = [rcv EXCEPT ![t] = IF done THEN ClosedRcv(r, "DONE") ELSE r]
                   /\ net' = [net EXCEPT ![t].data = <<>>,
                                         ![t].acks = Append(@, r.pos % Mod),
                                         ![t].eofR = done]
          \/ /\ net[t].data = <<>> /\ net[t].eofS
             /\ disk' = o[2]
             /\ rcv' = [rcv EXCEPT ![t] = ClosedRcv(r, "FAILED")]
             /\ net' = [net EXCEPT ![t].eofR = TRUE]
    /\ UNCHANGED <<cfg, snd, hist>>

(***************************************************************************)
(* Aborts, timeouts and speed limits.                                      *)
(***************************************************************************)
\* dcc_abort by the user, an offer that timed out, or a stall.
SenderAborts(t) ==
    /\ snd[t].stat \in {"QUEUED", "CONNECTING", "ACTIVE"}
    /\ snd' = [snd EXCEPT ![t] = ClosedSnd(@, "ABORTED")]
    /\ \E m \in HungUp(net[t]) : net' = [net EXCEPT ![t] = m]
    /\ Upset(t)
    /\ UNCHANGED <<cfg, rcv, disk>>
ReceiverAborts(t) ==
    /\ rcv[t].stat \in {"QUEUED", "CONNECTING", "ACTIVE"}
    /\ rcv' = [rcv EXCEPT ![t] = ClosedRcv(@, "ABORTED")]
    /\ net' = [net EXCEPT ![t].eofR = TRUE]
    /\ Upset(t)
    /\ UNCHANGED <<cfg, snd, disk>>

\* dcc_calc_cps, once a second: the limit is hit.  The handlers notice at their next run.
Throttle(t) ==
    /\ cfg.limit /\ hist.limits < MaxThrottles
    /\ \/ snd[t].stat = "ACTIVE" /\ ~snd[t].throttled
          /\ snd' = [snd EXCEPT ![t].throttled = TRUE] /\ UNCHANGED rcv
       \/ rcv[t].stat = "ACTIVE" /\ ~rcv[t].throttled
          /\ rcv' = [rcv EXCEPT ![t].throttled = TRUE] /\ UNCHANGED snd
    /\ hist' = [hist EXCEPT !.limits = @ + 1, !.upset[t] = TRUE]
    /\ UNCHANGED <<cfg, net, disk>>

\* The average has fallen: dcc_unthrottle calls the sender's or the receiver's handler.
dcc_unthrottle(t) ==
    /\ \/ /\ snd[t].stat = "ACTIVE" /\ snd[t].throttled
          /\ Sends(t, [snd[t] EXCEPT !.throttled = FALSE], net[t]) /\ UNCHANGED rcv
       \/ /\ rcv[t].stat = "ACTIVE" /\ rcv[t].throttled
          /\ rcv' = [rcv EXCEPT ![t].throttled = FALSE] /\ UNCHANGED <<snd, net>>
    /\ UNCHANGED <<cfg, disk, hist>>

Step(t) ==
    \/ SendReady(t) \/ dcc_read_ack(t) \/ AcksEnd(t) \/ dcc_read(t)
    \/ dcc_add_file(t) \/ HandleResume(t) \/ HandleAccept(t) \/ HandleSend(t)
    \/ SenderAccepts(t) \/ ReceiverConnected(t) \/ SenderConnected(t) \/ Refused(t)
    \/ dcc_unthrottle(t)
User(t) == dcc_send(t) \/ dcc_get(t) \/ dcc_get_nick(t) \/ dcc_resume(t)
Upsets(t) == SenderAborts(t) \/ ReceiverAborts(t) \/ Throttle(t)

Next == \E t \in Transfers : Step(t) \/ User(t) \/ Upsets(t)

\* The main loops of both clients run, the network delivers, and the averages that
\* dcc_calc_cps keeps fall while nothing is sent.  Nobody has to click or to abort.
Spec == Init /\ [][Next]_vars /\ \A t \in Transfers : WF_vars(Step(t))

-----------------------------------------------------------------------------
\* Positions stay within the file, and the connection within its window.
TypeOK ==
    \A t \in Transfers :
        /\ snd[t].stat \in Stats /\ rcv[t].stat \in Stats
        /\ snd[t].pos \in 0..cfg.size /\ rcv[t].resumable \in 0..cfg.size - 1
        /\ Len(net[t].data) <= Window
        /\ rcv[t].pos \in 0..2 * cfg.size
        /\ \A i \in 1..Len(net[t].acks) : net[t].acks[i] \in 0..Mod - 1
        /\ rcv[t].file \in Names

\* The user's requests did not get in each other's way: no file was asked to be resumed by two
\* transfers at once, no transfer was taken up twice, no passive ACCEPT reached another
\* transfer than its own, and no /DCC GET nick passed over a part it found.
Orderly == ~hist.clash /\ ~hist.unasked

\* As long as the requests are orderly, a transfer that ended well left the file: every byte
\* once and in its place, whether it was resumed or not, and whatever else is resumed.  The
\* sender reports success only when the receiver has all of it, unless an acknowledgement
\* came in pieces; above 4 GB an early acknowledgement may pass for the last one.
FileIntact ==
    Orderly =>
        \A t \in Transfers :
            /\ rcv[t].stat = "DONE" => disk[rcv[t].file] = Whole(cfg.size)
            /\ snd[t].stat = "DONE" /\ cfg.size < Mod /\ ~snd[t].garbled => rcv[t].stat = "DONE"

FilesBegun == \A n \in Names : disk[n] # Absent => disk[n] = Whole(Len(disk[n]))

\* What the receiver has written so far is the beginning of the file, so that what an abort
\* leaves can be resumed, as long as the requests are orderly.
AlwaysResumable == Orderly => FilesBegun

\* One transfer at a time writes a file, as long as the requests are orderly: one that asks to
\* resume what another is fetching is refused, however far that one is.
OneWriter ==
    Orderly =>
        \A t, u \in Transfers :
            t # u /\ rcv[t].fp /\ rcv[u].fp => rcv[t].file # rcv[u].file

\* The acknowledgements, 32 bits or more, do not come to a stand: a transfer that runs ends,
\* and ends well at both ends when nobody aborts, no limit strikes and the file is below 4
\* GB.  This is unless the requests were disorderly, or an acknowledgement came in pieces: its
\* value may make a stop-and-wait sender wait for ever.
TransferEnds ==
    \A t \in Transfers :
        snd[t].stat = "ACTIVE" ~>
            \/ snd[t].stat = "DONE" /\ rcv[t].stat = "DONE"
            \/ snd[t].stat \in Over /\ (hist.upset[t] \/ cfg.size >= Mod)
            \/ ~Orderly \/ snd[t].garbled

\* What the exceptions stand for: /DCC GET nick appends the beginning of the file to the part
\* it found; after an acknowledgement in pieces a sender reports success before the receiver
\* has the file, or waits for ever.
GetKeepsPart == ~hist.clash => FilesBegun
SenderKnows ==
    Orderly =>
        \A t \in Transfers : snd[t].stat = "DONE" /\ cfg.size < Mod => rcv[t].stat = "DONE"
SenderGoesOn == \A t \in Transfers : snd[t].stat = "ACTIVE" ~> snd[t].stat # "ACTIVE" \/ ~Orderly

\* The comment in update_is_resumable: "Now verify that this DCC is not already in progress
\* from someone else".
NeverTwoWriters ==
    \A t, u \in Transfers : t # u /\ rcv[t].fp /\ rcv[u].fp => rcv[t].file # rcv[u].file
=============================================================================
