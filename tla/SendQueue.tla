------------------------------ MODULE SendQueue ------------------------------
(***************************************************************************)
(* What leaves the client: the throttled send queue of                     *)
(* src/src/common/server.c, the multiline burst that goes past it, and the *)
(* labels and batches that wait for the server's answer until a sweep      *)
(* gives them up.                                                          *)
(*                                                                         *)
(* Time is relative to the wall clock, which may be set: debt is           *)
(* next_send - now and behind is prev_now - now, both negative once they   *)
(* are past; an age is now less the time an entry was filed.               *)
(***************************************************************************)
EXTENDS Integers, Sequences, FiniteSets

CONSTANTS
    Kinds,                  \* what is sent: "say", "history", "who", "other"
    Sizes,                  \* line lengths after the command word
    BurstBytes,             \* bytes of a multiline batch
    SEND_WINDOW,            \* seconds of credit (10 in the code)
    STALE_LABEL_TIMEOUT,
    STALE_BATCH_TIMEOUT,
    ClockStep,              \* by how much the clock is set back or forward
    MaxLines, MaxConns,     \* bounds: lines and connections
    MaxEvents               \* bound: bursts, flushes and clock steps

ASSUME SendAssumption ==
    /\ Kinds \subseteq {"say", "history", "who", "other"}
    /\ Sizes \subseteq Nat /\ IsFiniteSet(Sizes) /\ Sizes # {} /\ BurstBytes \in Nat
    /\ SEND_WINDOW \in Nat \ {0}
    /\ STALE_LABEL_TIMEOUT \in Nat /\ STALE_BATCH_TIMEOUT \in Nat
    /\ ClockStep \in Nat
    /\ MaxLines \in Nat /\ MaxConns \in Nat /\ MaxEvents \in Nat

VARIABLES
    labeled,        \* have_labeled_response
    conn,           \* history: number of the current connection
    connected, end_of_motd,
    queue,          \* outbound_queue
    debt, behind,
    timers,         \* live 500 ms sources of tcp_send_queue
    labels,         \* pending_labels: line number -> age
    batches,        \* active_batches: label it answers -> age
    sweep,          \* stale_sweep_timer is set
    server,         \* lines with a label that the server has and may answer
    last,           \* history: priority -> number of the last line sent from the queue
    flood,          \* history: cost of what was sent, less one for every second that passed
    lines,          \* history: how many lines were handed over
    bursts,         \* history: multiline batches
    steps,          \* history: times the clock was set
    events          \* history: bursts, flushes and clock steps

vars == <<labeled, conn, connected, end_of_motd, queue, debt, behind, timers, labels, batches,
          sweep, server, last, flood, lines, bursts, steps, events>>
link == <<labeled, conn, connected, end_of_motd>>
throttle == <<queue, debt, behind, timers, last, flood>>
tracking == <<labels, batches, sweep>>
bounds == <<bursts, steps, events>>

Numbers == 1..MaxLines
Priorities == 0..3
Lines == [n : Numbers, pri : Priorities, size : Sizes, conn : 1..MaxConns, tracked : BOOLEAN]
Elems(s) == {s[i] : i \in DOMAIN s}
Empty == [n \in {} |-> 0]
Drop(f, S) == [n \in DOMAIN f \ S |-> f[n]]
Put(f, n) == [m \in DOMAIN f \cup {n} |-> IF m = n THEN 0 ELSE f[m]]
MaxTimers == MaxLines

\* Beyond what the clock may yet be set back, how long ago something was makes no difference.
Reach == MaxEvents * ClockStep
Pos(x) == IF x > 0 THEN x ELSE 0
Since(x) == IF x < -Reach THEN -Reach ELSE x

Init ==
    /\ labeled \in BOOLEAN
    /\ conn = 0 /\ connected = FALSE /\ end_of_motd = FALSE
    /\ queue = <<>> /\ debt = -Reach /\ behind = -Reach /\ timers = 0 /\ flood = 0
    /\ labels = Empty /\ batches = Empty /\ sweep = FALSE /\ server = {}
    /\ last = [p \in Priorities |-> 0]
    /\ lines = 0 /\ bursts = 0 /\ steps = 0 /\ events = 0

(***************************************************************************)
(* The queue.                                                              *)
(***************************************************************************)
\* The text decides: a label in front hides every command but CHATHISTORY.
Priority(kind, tagged) ==
    CASE kind = "history" -> 1
      [] kind = "say" /\ ~tagged -> 2
      [] kind = "who" /\ ~tagged -> 0
      [] OTHER -> 3

Cost(size) == 2 + size \div 120

\* The lines of q that are not in S, in their order.
Without(q, S) ==
    LET left[i \in 0..Len(q)] ==
          IF i = 0 THEN <<>>
          ELSE IF q[i] \in S THEN left[i - 1] ELSE Append(left[i - 1], q[i])
    IN left[Len(q)]
OfPriority(q, p) == Without(q, {l \in Elems(q) : l.pri # p})

\* Highest priority first, first come first served within one.
Ordered(q) == OfPriority(q, 3) \o OfPriority(q, 2) \o OfPriority(q, 1) \o OfPriority(q, 0)

CostOf(s, k) ==
    LET sum[i \in 0..Len(s)] == IF i = 0 THEN 0 ELSE sum[i - 1] + Cost(s[i].size)
    IN sum[k]

\* How many of s go out before the credit is used up.
Quota(s, d) ==
    CHOOSE k \in 0..Len(s) :
        /\ k < Len(s) => d + CostOf(s, k) >= SEND_WINDOW
        /\ k > 0 => d + CostOf(s, k - 1) < SEND_WINDOW

\* A next_send in the past starts at now; so does one too far ahead if the clock is found to
\* be set back since the last line.
Credit_Unchecked == IF debt >= SEND_WINDOW THEN 0 ELSE Pos(debt)
Credit == IF debt >= SEND_WINDOW /\ behind > 0 THEN 0 ELSE Pos(debt)

tcp_send_queue(q) ==
    LET order == Ordered(q)
        k == Quota(order, Credit)
        sent == SubSeq(order, 1, k)
    IN [sent |-> sent,
        queue |-> Without(q, Elems(sent)),
        cost |-> CostOf(order, k),
        debt |-> IF k = 0 THEN debt ELSE Credit + CostOf(order, k),
        behind |-> IF k = 0 THEN behind ELSE 0]

Sends(r) ==
    /\ queue' = r.queue /\ debt' = r.debt /\ behind' = r.behind /\ flood' = flood + r.cost
    /\ last' = [p \in Priorities |->
                  LET S == {l.n : l \in {m \in Elems(r.sent) : m.pri = p}}
                  IN IF S = {} THEN last[p] ELSE CHOOSE n \in S : \A m \in S : m <= n]
    /\ server' = server \cup {l.n : l \in {m \in Elems(r.sent) : m.tracked}}

\* Throttled: append and send what may go; the first line that must wait starts the timer.
tcp_send_len(l) ==
    \E r \in {tcp_send_queue(Append(queue, l))} :
       /\ Sends(r)
       /\ timers' = IF r.queue # <<>> /\ queue = <<>> THEN timers + 1 ELSE timers

\* Before the end of the MOTD a line goes straight out.
Straight(l) ==
    /\ server' = IF l.tracked THEN server \cup {l.n} ELSE server
    /\ UNCHANGED throttle

\* tcp_sendf_labeled_tracked: the label is filed when the line is handed over.
Track(n, tracked) ==
    IF tracked THEN labels' = Put(labels, n) /\ sweep' = TRUE ELSE UNCHANGED <<labels, sweep>>

Send(kind, size) ==
    /\ connected /\ lines < MaxLines
    /\ LET tagged == labeled /\ kind \in {"say", "history"}
           l == [n |-> lines + 1, pri |-> Priority(kind, tagged), size |-> size, conn |-> conn,
                 tracked |-> tagged /\ kind = "say"]
       IN /\ IF end_of_motd THEN tcp_send_len(l) ELSE Straight(l)
          /\ Track(l.n, l.tracked)
    /\ lines' = lines + 1
    /\ UNCHANGED <<link, batches, bounds>>

tcp_send_queue_cb_Once ==
    /\ timers > 0
    /\ \E r \in {tcp_send_queue(queue)} : Sends(r)
    /\ timers' = timers - 1
    /\ UNCHANGED <<link, tracking, lines, bounds>>

\* The 500 ms source: it stays as long as something waits.
tcp_send_queue_cb ==
    /\ timers > 0
    /\ \E r \in {tcp_send_queue(queue)} : Sends(r)
    /\ timers' = IF queue' = <<>> THEN timers - 1 ELSE timers
    /\ UNCHANGED <<link, tracking, lines, bounds>>

\* A multiline message: opened, sent and closed in one go, past whatever is queued.
Multiline ==
    /\ connected /\ lines < MaxLines /\ events < MaxEvents
    /\ lines' = lines + 1 /\ bursts' = bursts + 1 /\ events' = events + 1
    /\ server' = IF labeled THEN server \cup {lines'} ELSE server
    /\ debt' = Pos(debt) + Cost(BurstBytes) /\ flood' = flood + Cost(BurstBytes)
    /\ Track(lines', labeled)
    /\ UNCHANGED <<link, queue, behind, timers, last, batches, steps>>

cmd_flushq ==
    /\ events < MaxEvents
    /\ queue' = <<>> /\ events' = events + 1
    /\ UNCHANGED <<link, debt, behind, timers, last, flood, tracking, server, lines, bursts, steps>>

(***************************************************************************)
(* Answers, and the sweep of what was never answered.                      *)
(***************************************************************************)
\* A line with the label: irc_inline drops the entry.
LabeledReply(n) ==
    /\ connected /\ n \in server
    /\ server' = server \ {n}
    /\ labels' = Drop(labels, {n})
    /\ UNCHANGED <<link, throttle, batches, sweep, lines, bounds>>

\* A batch with the label: the label stays until the batch ends.
inbound_batch_start(n) ==
    /\ connected /\ n \in server /\ n \notin DOMAIN batches
    /\ server' = server \ {n}
    /\ batches' = Put(batches, n)
    /\ sweep' = TRUE
    /\ UNCHANGED <<link, throttle, labels, lines, bounds>>

inbound_batch_end(n) ==
    /\ connected /\ n \in DOMAIN batches
    /\ batches' = Drop(batches, {n})
    /\ labels' = Drop(labels, {n})
    /\ UNCHANGED <<link, throttle, sweep, server, lines, bounds>>

stale_sweep_cb_Never ==
    /\ sweep
    /\ batches' = Drop(batches, {n \in DOMAIN batches : batches[n] > STALE_BATCH_TIMEOUT})
    /\ UNCHANGED <<link, throttle, labels, sweep, server, lines, bounds>>

stale_sweep_cb ==
    /\ sweep
    /\ LET stale == {n \in DOMAIN labels : labels[n] > STALE_LABEL_TIMEOUT}
           open == {n \in DOMAIN batches : batches[n] > STALE_BATCH_TIMEOUT}
       IN /\ labels' = Drop(labels, stale \cup open)
          /\ batches' = Drop(batches, open)
          /\ sweep' = (DOMAIN labels \ stale # {} \/ batches' # Empty)
    /\ UNCHANGED <<link, throttle, server, lines, bounds>>

(***************************************************************************)
(* The connection, and time.                                               *)
(***************************************************************************)
server_connected ==
    /\ ~connected /\ conn < MaxConns
    /\ conn' = conn + 1 /\ connected' = TRUE
    /\ UNCHANGED <<labeled, end_of_motd, throttle, tracking, server, lines, bounds>>

LoginDone ==
    /\ connected /\ ~end_of_motd
    /\ end_of_motd' = TRUE
    /\ UNCHANGED <<labeled, conn, connected, throttle, tracking, server, lines, bounds>>

server_disconnect_KeepsQueue ==
    /\ connected
    /\ connected' = FALSE /\ end_of_motd' = FALSE
    /\ labels' = Empty /\ batches' = Empty /\ sweep' = FALSE /\ server' = {}
    /\ UNCHANGED <<labeled, conn, throttle, lines, bounds>>

server_disconnect ==
    /\ connected
    /\ connected' = FALSE /\ end_of_motd' = FALSE
    /\ queue' = <<>> /\ labels' = Empty /\ batches' = Empty /\ sweep' = FALSE /\ server' = {}
    /\ UNCHANGED <<labeled, conn, debt, behind, timers, last, flood, lines, bounds>>

\* The wall clock goes on by x, or is set by x; ages beyond the limit are told apart only as
\* far as the clock may yet be set back.
Aged(f, x, limit) ==
    [n \in DOMAIN f |-> IF f[n] + x > limit + Reach THEN limit + Reach + 1 ELSE f[n] + x]
Moves(x) ==
    /\ debt' = Since(debt - x) /\ behind' = Since(behind - x)
    /\ labels' = Aged(labels, x, STALE_LABEL_TIMEOUT)
    /\ batches' = Aged(batches, x, STALE_BATCH_TIMEOUT)

\* A second passes.
Second ==
    /\ Moves(1)
    /\ flood' = Pos(flood - 1)
    /\ UNCHANGED <<link, queue, timers, last, sweep, server, lines, bounds>>

\* The clock is set, back or forward.
ClockSet ==
    /\ events < MaxEvents
    /\ events' = events + 1 /\ steps' = steps + 1
    /\ \E x \in {-ClockStep, ClockStep} : Moves(x)
    /\ UNCHANGED <<link, queue, timers, last, flood, sweep, server, lines, bursts>>

Next ==
    \/ \E kind \in Kinds, size \in Sizes : Send(kind, size)
    \/ tcp_send_queue_cb \/ Multiline \/ cmd_flushq
    \/ \E n \in Numbers : LabeledReply(n) \/ inbound_batch_start(n) \/ inbound_batch_end(n)
    \/ stale_sweep_cb
    \/ server_connected \/ LoginDone \/ server_disconnect
    \/ Second \/ ClockSet

\* The main loop fires its timers and time goes on; server and user owe nothing.
Fairness == WF_vars(tcp_send_queue_cb) /\ WF_vars(stale_sweep_cb) /\ WF_vars(Second)
Spec == Init /\ [][Next]_vars /\ Fairness

-----------------------------------------------------------------------------
\* Every variable has its type.
TypeOK ==
    /\ labeled \in BOOLEAN /\ connected \in BOOLEAN /\ end_of_motd \in BOOLEAN
    /\ conn \in 0..MaxConns
    /\ queue \in Seq(Lines)
    /\ debt \in Int /\ behind \in Int /\ flood \in Nat /\ timers \in 0..MaxTimers
    /\ DOMAIN labels \subseteq Numbers /\ \A n \in DOMAIN labels : labels[n] \in Int
    /\ DOMAIN batches \subseteq Numbers /\ \A n \in DOMAIN batches : batches[n] \in Int
    /\ sweep \in BOOLEAN /\ server \subseteq Numbers
    /\ last \in [Priorities -> 0..MaxLines]

\* A line that must wait has a timer that will come back for it: neither a flush nor a
\* disconnect that empties the queue under a running timer loses the next line's.
TimerArmed == queue # <<>> => timers > 0

\* Nothing written for one connection is sent on the next: whatever is queued was queued
\* on the connection that is up, after its login.
QueueOwned ==
    \A i \in 1..Len(queue) : connected /\ end_of_motd /\ queue[i].conn = conn

\* Within a priority the queue keeps the order in which lines were handed over.
Fifo ==
    \A i \in 1..Len(queue) :
        /\ last[queue[i].pri] < queue[i].n
        /\ \A j \in 1..(i - 1) : queue[j].n < queue[i].n

\* What waits is this connection's, and waits in its order.
QueueKept == QueueOwned /\ Fifo

\* What the server sees, lines costed as ircu costs them and a second forgiving one, never
\* exceeds the window by more than one line, bursts apart: setting the clock, which makes
\* tcp_send_queue forget what it sent, opens the gate for at most one more window each time.
FloodBound ==
    LET most == CHOOSE s \in Sizes : \A t \in Sizes : t <= s
    IN flood <= (steps + 1) * (SEND_WINDOW - 1 + Cost(most)) + bursts * Cost(BurstBytes)

\* Whatever waits for an answer has a sweep that will give it up.
SweepArmed == (labels # Empty \/ batches # Empty) => sweep

\* The queue drains once no more lines come: every line is sent, flushed or dropped with
\* its connection (while higher priorities keep coming, a low one may have to wait).
QueueDrains == queue # <<>> ~> queue = <<>>

\* No label and no batch waits for ever, whatever the server leaves unanswered.
LabelsEnd ==
    (labels # Empty \/ batches # Empty) ~> (labels = Empty /\ batches = Empty)

\* pending_label_info.sent_time is documented as the time the command was sent: a label
\* is then stale only if its line has left.
QueuedIsPending ==
    \A i \in 1..Len(queue) : queue[i].tracked => queue[i].n \in DOMAIN labels
=============================================================================
