----------------------------- MODULE ServerLink -----------------------------
(***************************************************************************)
(* The life of one connection in src/src/common/server.c: the child that   *)
(* resolves and connects, the TLS handshake polled from a timeout, the     *)
(* open socket, and the ways back after a failure: auto_reconnect's timer, *)
(* servlist_cycle's timer to the next server of the network, and the OAuth *)
(* token refresh that may stand between the latter and the connect call.   *)
(*                                                                         *)
(* All of it runs on the client's one thread.  What interleaves is which   *)
(* source the main loop dispatches next: a report of the child, a timer,   *)
(* the socket, the refresh's answer or the user.  A handler is one action; *)
(* the functions it calls map a value of the record serv to the next one.  *)
(***************************************************************************)
EXTENDS Integers, FiniteSets

CONSTANTS
    Configs,        \* [net, ssl, oauth, retry, retryfail]: network and preferences
    TimerIds,       \* bound: GLib source ids of the reconnect timers
    MaxOverlaps,    \* bound: commands given while something else is under way
    MaxFaults       \* bound: failed pipe() or fork() calls

ASSUME LinkAssumption ==
    /\ Configs \subseteq
         [net : BOOLEAN, ssl : BOOLEAN, oauth : BOOLEAN, retry : BOOLEAN, retryfail : BOOLEAN]
    /\ TimerIds \subseteq Nat \ {0} /\ IsFiniteSet(TimerIds)
    /\ MaxOverlaps \in Nat /\ MaxFaults \in Nat

VARIABLES
    cfg,        \* serv->network, use_ssl, an expired token, hex_net_auto_reconnect(onfail)
    serv,       \* struct server, and the sources and child that belong to it
    owed,       \* history: a retry is promised ("due"), or was and never begun ("dropped")
    down,       \* history: the user's last word was /DISCONNECT
    overlaps,   \* history: commands given while something else was under way
    faults      \* history: failed pipe() or fork() calls

vars == <<cfg, serv, owed, down, overlaps, faults>>

Kinds == {"auto", "cycle"}
Timers == [id : TimerIds, kind : Kinds]

\* childpid is a process of ours to reap, one already reaped, or the initial 0; refresh
\* counts the token requests under way, hostname says whether it is set.
Serv == [alive : BOOLEAN, connected : BOOLEAN, connecting : BOOLEAN, end_of_motd : BOOLEAN,
         iotag : {"none", "child", "sok"}, ssl_do_connect_tag : BOOLEAN,
         childpid : {"none", "live", "reaped"}, recondelay_tag : TimerIds \cup {0},
         timers : SUBSET Timers, refresh : 0..MaxOverlaps + 1,
         hostname : BOOLEAN, oauth_connect_host : BOOLEAN, stray : BOOLEAN]

NewServ == [alive |-> TRUE, connected |-> FALSE, connecting |-> FALSE, end_of_motd |-> FALSE,
            iotag |-> "none", ssl_do_connect_tag |-> FALSE, childpid |-> "none",
            recondelay_tag |-> 0, timers |-> {}, refresh |-> 0,
            hostname |-> FALSE, oauth_connect_host |-> FALSE, stray |-> FALSE]

Init ==
    /\ cfg \in Configs
    /\ serv = NewServ
    /\ owed = "no" /\ down = FALSE
    /\ overlaps = 0 /\ faults = 0

(***************************************************************************)
(* Closing down.  stray records a kill() of a process that is not ours.    *)
(***************************************************************************)
server_stopconnecting_Unreaped(s) ==
    [s EXCEPT !.iotag = "none", !.ssl_do_connect_tag = FALSE, !.connecting = FALSE]
server_stopconnecting(s) ==
    [s EXCEPT !.iotag = "none", !.ssl_do_connect_tag = FALSE, !.connecting = FALSE,
              !.stray = @ \/ s.childpid # "live", !.childpid = "reaped"]

Without(s, id) == {t \in s.timers : t.id # id}

server_cleanup_KeepsTimer(s) ==
    CASE s.connecting -> server_stopconnecting(s)
      [] s.connected /\ ~s.connecting ->
            [s EXCEPT !.iotag = "none", !.connected = FALSE, !.end_of_motd = FALSE]
      [] OTHER -> [s EXCEPT !.iotag = "none", !.recondelay_tag = 0]

\* An attempt or a connection ends; a delay is cut short only when there is neither.
server_cleanup(s) ==
    CASE s.connecting -> server_stopconnecting(s)
      [] s.connected /\ ~s.connecting ->
            [s EXCEPT !.iotag = "none", !.connected = FALSE, !.end_of_motd = FALSE]
      [] OTHER ->
            [s EXCEPT !.iotag = "none", !.recondelay_tag = 0,
                      !.timers = Without(s, s.recondelay_tag)]

\* The rest of server_disconnect (queue, channels, persistence) is SendQueue's and Registration's.
server_disconnect(s) == server_cleanup(s)

(***************************************************************************)
(* Connecting.  named is whether there is a host name; without one nothing *)
(* happens.  ok is whether pipe() and fork() succeed; when they do not,    *)
(* server_connect returns with connecting set and nothing under way.       *)
(***************************************************************************)
server_connect_Overlapping(s, named, ok) ==
    LET c == [s EXCEPT !.connecting = TRUE, !.end_of_motd = FALSE, !.hostname = TRUE]
    IN CASE ~named -> s
         [] named /\ ok -> [c EXCEPT !.childpid = "live", !.iotag = "child"]
         [] OTHER -> c
server_connect(s, named, ok) ==
    LET d == IF s.connected \/ s.connecting \/ s.recondelay_tag # 0
             THEN server_disconnect(s) ELSE s
        c == [d EXCEPT !.connecting = TRUE, !.end_of_motd = FALSE, !.hostname = TRUE]
    IN CASE ~named -> s
         [] named /\ ok -> [c EXCEPT !.childpid = "live", !.iotag = "child"]
         [] OTHER -> c

server_connected(s) == [s EXCEPT !.connected = TRUE, !.iotag = "sok"]

Fresh(s) == TimerIds \ ({t.id : t \in s.timers} \cup {s.recondelay_tag})

\* A new connection is closed first, and a running delay starts again.
auto_reconnect_KeepsDelay(s, id) ==
    LET d == IF s.connected THEN server_disconnect(s) ELSE s
    IN [d EXCEPT !.recondelay_tag = id,
                 !.timers = @ \cup {[id |-> id, kind |-> "auto"]}]
auto_reconnect(s, id) ==
    LET d == IF s.connected THEN server_disconnect(s) ELSE s
    IN [d EXCEPT !.recondelay_tag = id,
                 !.timers = Without(d, d.recondelay_tag) \cup {[id |-> id, kind |-> "auto"]}]

\* servlist_cycle arms its timer under the same tag, whatever the tag held.
servlist_cycle(s, id) ==
    [s EXCEPT !.recondelay_tag = id,
              !.timers = @ \cup {[id |-> id, kind |-> "cycle"]}]

\* What follows a failure: the next server of the network, or a retry if asked for.
Fallback_NoRetry(s, wanted, id) ==
    IF cfg.net THEN servlist_cycle(s, id) ELSE s
Fallback(s, wanted, id) ==
    CASE cfg.net -> servlist_cycle(s, id)
      [] ~cfg.net /\ wanted -> auto_reconnect(s, id)
      [] OTHER -> s
Retry(s, wanted, id) == IF wanted THEN auto_reconnect(s, id) ELSE s

\* The history of promises: one is made; the attempt begins; or nothing is left that would
\* begin it.
Promised(wanted) == IF wanted THEN "due" ELSE owed
Began == owed' = "no"
GaveUp ==
    owed' = IF owed = "due" /\ serv'.timers = {} /\ serv'.refresh = 0 THEN "dropped" ELSE owed

\* How a handler ends that calls server_connect.
Connects(s, named) ==
    \/ named /\ serv' = server_connect(s, named, TRUE) /\ Began /\ UNCHANGED faults
    \/ /\ named /\ faults < MaxFaults /\ faults' = faults + 1
       /\ serv' = server_connect(s, named, FALSE) /\ GaveUp
    \/ ~named /\ serv' = server_connect(s, named, TRUE) /\ GaveUp /\ UNCHANGED faults

(***************************************************************************)
(* Reports of the child (server_read_child).                               *)
(***************************************************************************)
Reporting == serv.iotag = "child" /\ ~serv.ssl_do_connect_tag

\* 1, 2: unknown host, connection refused.
ChildFails ==
    /\ Reporting
    /\ \E id \in Fresh(serv) :
        serv' = Fallback(server_stopconnecting(serv), cfg.retryfail, id)
    /\ owed' = Promised(cfg.net \/ cfg.retryfail)
    /\ UNCHANGED <<cfg, down, overlaps, faults>>

\* 8: the proxy refused; nothing is retried.
ProxyFails ==
    /\ Reporting
    /\ serv' = server_disconnect(serv)
    /\ UNCHANGED <<cfg, owed, down, overlaps, faults>>

server_connect_success_NoPoll ==
    /\ Reporting
    /\ \/ cfg.ssl /\ serv' = [serv EXCEPT !.iotag = "none"]
       \/ ~cfg.ssl /\ serv' = server_connected(server_stopconnecting(serv))
    /\ UNCHANGED <<cfg, owed, down, overlaps, faults>>

\* 4: connected; a TLS connection goes on in ssl_do_connect, unless its context fails.
server_connect_success ==
    /\ Reporting
    /\ \/ cfg.ssl /\ serv' = [serv EXCEPT !.ssl_do_connect_tag = TRUE]
       \/ cfg.ssl /\ serv' = server_cleanup(serv)
       \/ ~cfg.ssl /\ serv' = server_connected(server_stopconnecting(serv))
    /\ UNCHANGED <<cfg, owed, down, overlaps, faults>>

\* The handshake: done, refused or timed out, or ended by a certificate.
ssl_do_connect ==
    /\ serv.ssl_do_connect_tag
    /\ \/ /\ serv' = server_connected(server_stopconnecting(serv))
          /\ UNCHANGED owed
       \/ /\ \E id \in Fresh(serv) :
               serv' = Retry([server_cleanup(serv) EXCEPT !.ssl_do_connect_tag = FALSE],
                             cfg.retryfail, id)
          /\ owed' = Promised(cfg.retryfail)
       \/ /\ serv' = [server_cleanup(serv) EXCEPT !.ssl_do_connect_tag = FALSE]
          /\ UNCHANGED owed
    /\ UNCHANGED <<cfg, down, overlaps, faults>>

(***************************************************************************)
(* The open connection.                                                    *)
(***************************************************************************)
LoginDone ==
    /\ serv.connected /\ ~serv.end_of_motd
    /\ serv' = [serv EXCEPT !.end_of_motd = TRUE]
    /\ UNCHANGED <<cfg, owed, down, overlaps, faults>>

\* What server_read does at an error or the end of the stream.
ReadFails(s, id) ==
    IF ~s.end_of_motd THEN Fallback(server_disconnect(s), cfg.retry, id)
    ELSE IF cfg.retry THEN auto_reconnect(s, id) ELSE server_disconnect(s)

server_read ==
    /\ serv.iotag = "sok"
    /\ \E id \in Fresh(serv) : serv' = ReadFails(serv, id)
    /\ owed' = Promised(cfg.retry \/ (cfg.net /\ ~serv.end_of_motd))
    /\ UNCHANGED <<cfg, down, overlaps, faults>>

\* An STS policy arrives with the capabilities: leave and come back with TLS.  The read
\* loop this runs in goes on with the old socket and may still meet its end.
StsUpgrade ==
    /\ serv.connected /\ ~serv.end_of_motd /\ ~cfg.ssl
    /\ LET s == server_connect(server_disconnect(serv), TRUE, TRUE)
       IN \/ serv' = s /\ UNCHANGED owed
          \/ \E id \in Fresh(s) :
                serv' = ReadFails(s, id) /\ owed' = Promised(cfg.retry \/ cfg.net)
    /\ cfg' = [cfg EXCEPT !.ssl = TRUE]
    /\ UNCHANGED <<down, overlaps, faults>>

\* lag_check: no PONG for hex_net_ping_timeout seconds.
lag_check ==
    /\ serv.connected /\ serv.end_of_motd /\ cfg.retry
    /\ \E id \in Fresh(serv) : serv' = auto_reconnect(serv, id)
    /\ owed' = Promised(TRUE)
    /\ UNCHANGED <<cfg, down, overlaps, faults>>

(***************************************************************************)
(* The timers, and the token refresh of servlist_connect.                  *)
(***************************************************************************)
Fired(t) == [serv EXCEPT !.timers = @ \ {t}]

timeout_auto_reconnect(t) ==
    /\ t \in serv.timers /\ t.kind = "auto"
    /\ LET s == [Fired(t) EXCEPT !.recondelay_tag = 0]
       IN IF serv.alive /\ ~serv.connected /\ ~serv.connecting
          THEN Connects(s, serv.hostname)
          ELSE /\ serv' = IF serv.alive THEN s ELSE Fired(t)
               /\ IF serv.connected \/ serv.childpid = "live" THEN Began ELSE GaveUp
               /\ UNCHANGED faults
    /\ UNCHANGED <<cfg, down, overlaps>>

\* An expired token is refreshed first, and the answer connects.  The network's next entry
\* may be one without a host name.
servlist_connect(s) ==
    \/ /\ cfg.oauth /\ s.refresh <= MaxOverlaps
       /\ serv' = [s EXCEPT !.refresh = @ + 1, !.oauth_connect_host = TRUE]
       /\ UNCHANGED <<owed, faults>>
    \/ \E named \in BOOLEAN : Connects(s, named)

\* The callback leaves the tag as it is and looks at nothing but serv->network.
servlist_cycle_cb(t) ==
    /\ t \in serv.timers /\ t.kind = "cycle" /\ serv.alive
    /\ servlist_connect(Fired(t))
    /\ UNCHANGED <<cfg, down, overlaps>>

\* The answer: connect to the stashed host (a second answer finds none, and the client
\* crashes), or give up for good on an error.
servlist_oauth_refresh_cb ==
    /\ serv.refresh > 0
    /\ LET s == [serv EXCEPT !.refresh = @ - 1, !.oauth_connect_host = FALSE]
       IN \/ /\ serv.alive /\ serv.oauth_connect_host
             /\ \E named \in BOOLEAN : Connects(s, named)
          \/ serv' = s /\ GaveUp /\ UNCHANGED faults
    /\ UNCHANGED <<cfg, down, overlaps>>

(***************************************************************************)
(* The user.  A command overlaps when something else is still under way    *)
(* that the code does not withdraw: an attempt at a /RECONNECT, a token    *)
(* refresh at any command, or anything at all when a new refresh begins.   *)
(***************************************************************************)
Busy == serv.connecting \/ serv.connected \/ serv.timers # {}
Overlapping(o) ==
    /\ o => overlaps < MaxOverlaps
    /\ overlaps' = IF o THEN overlaps + 1 ELSE overlaps

\* /SERVER, the network list: by way of servlist_connect when it names a network.
cmd_server ==
    /\ serv.alive
    /\ \/ cfg.net /\ servlist_connect(serv)
       \/ ~cfg.net /\ Connects(serv, TRUE)
    /\ Overlapping(serv.refresh > 0 \/ (serv'.refresh > 0 /\ Busy))
    /\ down' = FALSE
    /\ UNCHANGED cfg

cmd_discon ==
    /\ serv.alive
    /\ Overlapping(serv.refresh > 0)
    /\ serv' = server_disconnect(serv)
    /\ owed' = "no" /\ down' = TRUE
    /\ UNCHANGED <<cfg, faults>>

\* With a server's name (named) or without.
cmd_reconnect ==
    /\ serv.alive
    /\ Overlapping(serv.connecting \/ serv.refresh > 0)
    /\ \E id \in Fresh(serv), named \in BOOLEAN :
        serv' = auto_reconnect([serv EXCEPT !.hostname = @ \/ named], id)
    /\ owed' = Promised(~serv.connecting) /\ down' = FALSE
    /\ UNCHANGED <<cfg, faults>>

\* The server's last tab is closed: session_free, server_free.
server_free ==
    /\ serv.alive
    /\ serv' = [server_cleanup(serv) EXCEPT !.alive = FALSE]
    /\ owed' = "no" /\ down' = FALSE
    /\ UNCHANGED <<cfg, overlaps, faults>>

ReadChild == ChildFails \/ ProxyFails \/ server_connect_success
Socket == server_read \/ LoginDone \/ StsUpgrade \/ lag_check
Timer == \E t \in Timers : timeout_auto_reconnect(t) \/ servlist_cycle_cb(t)
User == cmd_server \/ cmd_discon \/ cmd_reconnect \/ server_free

Next == ReadChild \/ ssl_do_connect \/ Socket \/ Timer \/ servlist_oauth_refresh_cb \/ User

\* The handshake ends within SSLTMOUT, a timer fires, and the token endpoint answers or times
\* out; socket and user owe nothing.  Nor does the child: it has no timeout, and the parent
\* keeps the write end of its pipe, so that not even the child's death is noticed.
Fairness ==
    /\ WF_vars(ssl_do_connect) /\ WF_vars(Timer) /\ WF_vars(servlist_oauth_refresh_cb)
Spec == Init /\ [][Next]_vars /\ Fairness

-----------------------------------------------------------------------------
\* Every record and flag has its type; the counters keep their bounds.
TypeOK ==
    /\ cfg \in [net : BOOLEAN, ssl : BOOLEAN, oauth : BOOLEAN, retry : BOOLEAN, retryfail : BOOLEAN]
    /\ serv \in Serv
    /\ owed \in {"no", "due", "dropped"} /\ down \in BOOLEAN
    /\ overlaps \in 0..MaxOverlaps /\ faults \in 0..MaxFaults

\* The watch on a descriptor belongs to whoever owns it now: server_read watches the socket
\* exactly while connected, the child's pipe and the handshake poll exist only during an
\* attempt, and a server is never both connecting and connected.
OneOwner ==
    /\ ~(serv.connected /\ serv.connecting)
    /\ serv.iotag = "sok" <=> serv.connected
    /\ serv.iotag = "child" => serv.connecting
    /\ serv.ssl_do_connect_tag => serv.iotag = "child"
    /\ serv.end_of_motd => serv.connected

\* server_stopconnecting reaps every child exactly once: none outlives its attempt, and
\* kill() is never aimed at a pid that is not ours, unless a fork failed before.
ChildReaped ==
    /\ serv.childpid = "live" => serv.connecting
    /\ serv.iotag = "child" => serv.childpid = "live"
    /\ serv.stray => faults > 0
    /\ serv.connecting /\ serv.iotag = "none" => faults > 0

\* kill() is never aimed at a pid that is not ours.  Not so once a fork has failed.
NoStrayKill == ~serv.stray

\* recondelay_tag is the only handle on a reconnect timer.  As long as no command overlapped
\* an attempt or a refresh, no timer escapes it, and none runs beside an attempt, a
\* connection or a refresh, or for a server that is gone (servlist_cycle_cb would use it);
\* and the one refresh under way still has the host it will connect to.
TimersHeld ==
    /\ \A t \in serv.timers : t.id = serv.recondelay_tag
    /\ serv.timers # {} =>
        serv.alive /\ ~serv.connecting /\ ~serv.connected /\ serv.refresh = 0
    /\ serv.refresh > 0 => serv.refresh = 1 /\ serv.oauth_connect_host
TimerTagged == overlaps = 0 => TimersHeld

\* After /DISCONNECT the client stays away until the user says otherwise, provided that no
\* command overlapped an attempt or a refresh before: a delay that /RECONNECT started during
\* an attempt, and a token refresh under way, outlive the /DISCONNECT and connect again.
StaysAway ==
    down => /\ ~serv.connecting /\ ~serv.connected
            /\ serv.timers = {} /\ serv.refresh = 0
DownStaysDown == overlaps = 0 => StaysAway

\* An attempt whose child was started ends and the child is reaped, once the user stops
\* starting new attempts in its place, and as long as a child in the end reports: that the
\* resolver, the proxy or the server answers it is an assumption about them.
ChildReports == WF_vars(ReadChild)
AttemptEnds ==
    ChildReports /\ <>[][~cmd_server]_vars => (serv.childpid = "live" ~> serv.childpid # "live")

\* A retry that the preferences or /RECONNECT promise does not stay pending: it is begun or
\* taken back by the user, or it is dropped because the token refresh failed, because pipe() or
\* fork() failed, or because there is no host name.
RetryBegins == owed = "due" ~> owed # "due"

\* No retry is dropped: the client keeps trying.  Not so, see RetryBegins.
NoneDropped == owed # "dropped"
=============================================================================
