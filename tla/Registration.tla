---------------------------- MODULE Registration ----------------------------
(***************************************************************************)
(* From CAP LS to the welcome: capability negotiation, the SASL exchange   *)
(* with its OAuth token refresh, the STS upgrade and the PERSISTENCE       *)
(* ATTACH that is sent between SASL and CAP END (inbound.c, proto-irc.c,   *)
(* persistence.c).                                                         *)
(*                                                                         *)
(* Both ends of a connection are FIFO queues.  The client handles one line *)
(* at a time; the server, which is not part of the code, answers each line *)
(* in order with any answer the protocol allows.  The connection may break *)
(* between any two steps, and the answer to a token refresh arrives        *)
(* whenever it likes, perhaps on a later connection.                       *)
(***************************************************************************)
EXTENDS Integers, Sequences

CONSTANTS
    Logins,         \* the login methods: "none", "sasl", "oauth"
    Offers,         \* the sets of capabilities a server may list
    MaxConns,       \* bound: connections, an STS upgrade aside
    MaxRounds,      \* bound: further challenges of the SASL exchange on one connection
    MaxEvents       \* bound: /PERSISTENCE commands, CAP NEW and CAP DEL lines

Caps == {"sasl", "sts", "persistence"}

ASSUME RegistrationAssumption ==
    /\ Logins \subseteq {"none", "sasl", "oauth"}
    /\ Offers \subseteq SUBSET Caps
    /\ MaxConns \in Nat \ {0} /\ MaxRounds \in Nat /\ MaxEvents \in Nat

VARIABLES
    login,      \* serv->loginmethod
    serv,       \* the client's struct server
    irc,        \* the server's side of this connection
    toServer, toClient,
    refreshes,  \* the connections whose token refresh is not yet answered
    hist        \* history: what the properties remember

vars == <<login, serv, irc, toServer, toClient, refreshes, hist>>

Codes == {"CURSOR_UNKNOWN", "ACCOUNT_REQUIRED", "OTHER"}

\* Lines to the client.  own marks the FAIL that answers the ATTACH of this connection; MECHS
\* is an AUTHENTICATE with a list of mechanisms.
Lines ==
    [line : {"LS"}, caps : SUBSET Caps, more : BOOLEAN]
    \cup [line : {"ACK", "NAK", "DEL"}, caps : SUBSET Caps]
    \cup [line : {"AUTHENTICATE", "MECHS", "903", "904", "906", "907", "001", "ATTACH", "BATCH"}]
    \cup [line : {"FAIL"}, code : Codes, own : BOOLEAN]
\* Lines to the server.
Asked ==
    [line : {"CAP LS", "MECH", "PAYLOAD", "ABORT", "CAP END", "PERSISTENCE"}]
    \cup [line : {"REQ"}, caps : SUBSET Caps]
    \cup [line : {"ATTACH"}, cursor : BOOLEAN]

Line(l) == [line |-> l]

Serv == [conn : 0..MaxConns + 1, connected : BOOLEAN, use_ssl : BOOLEAN, welcomed : BOOLEAN,
         waiting_on_cap : BOOLEAN, waiting_on_sasl : BOOLEAN, sent_capend : BOOLEAN,
         oauth_mech : BOOLEAN, refresh_attempted : BOOLEAN,
         sts_upgrade : BOOLEAN, sts_policy : BOOLEAN,
         have_persistence : BOOLEAN, attached : BOOLEAN, cursor_sent : BOOLEAN,
         attach_pending : BOOLEAN, replay_seen : BOOLEAN]

Irc == [sasl : {"idle", "selected", "failed", "done"}, rounds : 0..MaxRounds,
        granted : BOOLEAN, caps : SUBSET Caps,
        attach : {"none", "plain", "cursor"} \cup Codes, ended : BOOLEAN]
NewIrc == [sasl |-> "idle", rounds |-> 0, granted |-> FALSE, caps |-> {}, attach |-> "none",
           ended |-> FALSE]

Init ==
    /\ login \in Logins
    /\ \E ssl \in BOOLEAN :
        serv = [conn |-> 0, connected |-> FALSE, use_ssl |-> ssl, welcomed |-> FALSE,
                waiting_on_cap |-> FALSE, waiting_on_sasl |-> FALSE, sent_capend |-> FALSE,
                oauth_mech |-> FALSE, refresh_attempted |-> FALSE,
                sts_upgrade |-> FALSE, sts_policy |-> FALSE,
                have_persistence |-> FALSE, attached |-> FALSE, cursor_sent |-> FALSE,
                attach_pending |-> FALSE, replay_seen |-> FALSE]
    /\ irc = NewIrc
    /\ toServer = <<>> /\ toClient = <<>>
    /\ refreshes = {}
    \* carried: the connection began with a flag of an earlier one; stale: a refresh of an
    \* earlier connection was answered in this one; early: a /PERSISTENCE came before 001;
    \* asked: the requests for sasl on this connection, the second and later ones as 2.
    /\ hist = [carried |-> FALSE, stale |-> FALSE, events |-> 0, early |-> FALSE, asked |-> 0]

(***************************************************************************)
(* Connections.  server_connect sets the defaults and irc_login opens; the *)
(* waiting_on_ flags and sts_upgrade_port are nobody's to reset.           *)
(***************************************************************************)
persistence_reset(s) ==
    [s EXCEPT !.have_persistence = FALSE, !.attached = FALSE, !.cursor_sent = FALSE,
              !.attach_pending = FALSE, !.replay_seen = FALSE]

server_disconnect(s) == persistence_reset([s EXCEPT !.connected = FALSE])

server_set_defaults(s) ==
    [s EXCEPT !.sent_capend = FALSE, !.oauth_mech = FALSE, !.refresh_attempted = FALSE]

\* The client is connected anew as s; the lines of the old connection are gone.
irc_login(s) ==
    /\ serv' = [server_set_defaults(s) EXCEPT !.conn = @ + 1, !.connected = TRUE,
                                             !.welcomed = FALSE]
    /\ irc' = NewIrc
    /\ toServer' = <<Line("CAP LS")>> /\ toClient' = <<>>
    /\ hist' = [hist EXCEPT !.carried = s.waiting_on_sasl, !.stale = FALSE, !.early = FALSE,
                             !.asked = 0]

\* A host with a stored STS policy is reached with TLS, another one as configured.
Connect ==
    /\ ~serv.connected /\ serv.conn < MaxConns
    /\ \E ssl \in {serv.use_ssl, serv.use_ssl \/ serv.sts_policy} :
        irc_login([serv EXCEPT !.use_ssl = ssl])
    /\ UNCHANGED <<login, refreshes>>

Lost ==
    /\ serv.connected
    /\ serv' = server_disconnect(serv)
    /\ irc' = NewIrc /\ toServer' = <<>> /\ toClient' = <<>>
    /\ UNCHANGED <<login, refreshes, hist>>

(***************************************************************************)
(* The client's handlers.  Send puts lines on the wire (straight, before   *)
(* the end of the MOTD nothing is queued).                                 *)
(***************************************************************************)
Received(l) == toClient # <<>> /\ toClient[1].line = l
Msg == toClient[1]
Consumed == toClient' = Tail(toClient)
Send(lines) == toServer' = toServer \o lines
Keeps == UNCHANGED <<login, irc, refreshes, hist>>

\* Where the negotiation may end: an STS policy comes first.
EndOrUpgrade(s, lines, h) ==
    IF s.sts_upgrade
    THEN /\ irc_login(server_disconnect([s EXCEPT !.sts_upgrade = FALSE, !.use_ssl = TRUE]))
         /\ UNCHANGED <<login, refreshes>>
    ELSE /\ serv' = [s EXCEPT !.sent_capend = TRUE]
         /\ Send(Append(lines, Line("CAP END"))) /\ Consumed
         /\ hist' = h /\ UNCHANGED <<login, irc, refreshes>>

Wanted(caps) ==
    (caps \cap {"persistence"}) \cup (IF login = "none" THEN {} ELSE caps \cap {"sasl"})
Requested(want) ==
    [hist EXCEPT !.asked = IF "sasl" \in want /\ @ < 2 THEN @ + 1 ELSE @]

\* The lines of CAP LS and CAP NEW; a line with more to come is marked with a star.
inbound_cap_ls_NotWaiting ==
    /\ Received("LS")
    /\ LET want == Wanted(Msg.caps)
           s == [serv EXCEPT !.waiting_on_cap = Msg.more,
                             !.oauth_mech = @ \/ ("sasl" \in want /\ login = "oauth")]
           lines == IF want = {} THEN <<>> ELSE <<[line |-> "REQ", caps |-> want]>>
       IN IF ~s.waiting_on_sasl /\ ~s.waiting_on_cap
          THEN EndOrUpgrade(s, lines, Requested(want))
          ELSE /\ serv' = s /\ Send(lines) /\ Consumed
               /\ hist' = Requested(want) /\ UNCHANGED <<login, irc, refreshes>>
inbound_cap_ls ==
    /\ Received("LS")
    /\ LET want == Wanted(Msg.caps)
           s == [serv EXCEPT
                    !.waiting_on_cap = Msg.more,
                    !.waiting_on_sasl = @ \/ "sasl" \in want,
                    !.oauth_mech = @ \/ ("sasl" \in want /\ login = "oauth"),
                    !.sts_policy = @ \/ "sts" \in Msg.caps,
                    !.sts_upgrade = @ \/ ("sts" \in Msg.caps /\ ~serv.use_ssl)]
           lines == IF want = {} THEN <<>> ELSE <<[line |-> "REQ", caps |-> want]>>
       IN IF ~s.waiting_on_sasl /\ ~s.waiting_on_cap
          THEN EndOrUpgrade(s, lines, Requested(want))
          ELSE /\ serv' = s /\ Send(lines) /\ Consumed
               /\ hist' = Requested(want) /\ UNCHANGED <<login, irc, refreshes>>

\* CAP ACK and CAP DEL: an acknowledged sasl starts the exchange.
inbound_toggle_caps ==
    /\ Received("ACK") \/ Received("DEL")
    /\ LET enable == Msg.line = "ACK"
       IN /\ serv' = [serv EXCEPT !.have_persistence =
                        IF "persistence" \in Msg.caps THEN enable ELSE @]
          /\ Send(IF enable /\ "sasl" \in Msg.caps THEN <<Line("MECH")>> ELSE <<>>)
    /\ Consumed /\ Keeps

inbound_cap_nak_Stalls ==
    /\ Received("NAK")
    /\ serv' = [serv EXCEPT !.waiting_on_sasl = @ /\ "sasl" \notin Msg.caps]
    /\ Send(<<>>) /\ Consumed /\ Keeps
inbound_cap_nak ==
    /\ Received("NAK")
    /\ LET s == [serv EXCEPT !.waiting_on_sasl = @ /\ "sasl" \notin Msg.caps]
       IN IF ~s.waiting_on_cap /\ ~s.waiting_on_sasl /\ ~s.sent_capend
          THEN EndOrUpgrade(s, <<>>, hist)
          ELSE serv' = s /\ Send(<<>>) /\ Consumed /\ Keeps

\* A challenge, the first or a later one, is answered with a payload, or with an abort when
\* it cannot be; a list of mechanisms, which outdated servers send, is not answered.
inbound_sasl_authenticate ==
    /\ \/ Received("AUTHENTICATE") /\ \E l \in {"PAYLOAD", "ABORT"} : Send(<<Line(l)>>)
       \/ Received("MECHS") /\ Send(<<>>)
    /\ UNCHANGED serv /\ Consumed /\ Keeps

\* ATTACH names the configured profile, and the newest stored message when the server
\* takes one.  Without a profile the client behaves as without the capability.
AttachLines(s, cursor) ==
    IF s.have_persistence /\ ~s.attached
    THEN <<[line |-> "ATTACH", cursor |-> cursor]>> ELSE <<>>
persistence_send_attach(s, cursor) ==
    IF s.have_persistence /\ ~s.attached
    THEN [s EXCEPT !.attached = TRUE, !.cursor_sent = cursor, !.attach_pending = TRUE]
    ELSE s

\* 903, 905, 906, 907 and a 904 that is final: ok marks 903, the abort that of 904.
SaslEnds_Reattach(s, ok, aborts) ==
    /\ \E cursor \in BOOLEAN :
        /\ serv' = [IF ok THEN persistence_send_attach(s, cursor) ELSE s
                      EXCEPT !.waiting_on_sasl = FALSE, !.sent_capend = TRUE]
        /\ Send((IF ok THEN AttachLines(s, cursor) ELSE <<>>)
                  \o (IF s.sent_capend THEN <<>> ELSE <<Line("CAP END")>>))
    /\ Consumed /\ Keeps
SaslEnds(s, ok, aborts) ==
    /\ \E cursor \in BOOLEAN :
        LET now == ~s.sent_capend
        IN /\ serv' = [IF now /\ ok THEN persistence_send_attach(s, cursor) ELSE s
                         EXCEPT !.waiting_on_sasl = FALSE, !.sent_capend = TRUE]
           /\ Send((IF aborts THEN <<Line("ABORT")>> ELSE <<>>)
                     \o (IF now /\ ok THEN AttachLines(s, cursor) ELSE <<>>)
                     \o (IF now THEN <<Line("CAP END")>> ELSE <<>>))
    /\ Consumed /\ Keeps

Sasl903 == Received("903") /\ SaslEnds(serv, TRUE, FALSE)
Sasl906 == (Received("906") \/ Received("907")) /\ SaslEnds(serv, FALSE, FALSE)

\* A refused token is refreshed once per connection; without a refresh token the try counts,
\* and SASL is over.
MayRefresh == serv.oauth_mech /\ ~serv.refresh_attempted
Tried(s) == [s EXCEPT !.refresh_attempted = @ \/ s.oauth_mech]
Sasl904 ==
    /\ Received("904")
    /\ \/ /\ MayRefresh
          /\ serv' = Tried(serv)
          /\ refreshes' = refreshes \cup {serv.conn}
          /\ Consumed
          /\ UNCHANGED <<login, irc, toServer, hist>>
       \/ SaslEnds(Tried(serv), FALSE, TRUE)

\* The refresh's answer for connection k: inbound_sasl_authenticate with the new token, or
\* the end of SASL.
oauth_sasl_retry_cb(k) ==
    /\ k \in refreshes
    /\ refreshes' = refreshes \ {k}
    /\ LET wire(lines) == toServer' = IF serv.connected THEN toServer \o lines ELSE toServer
       IN \/ \E l \in {"PAYLOAD", "ABORT"} : wire(<<Line(l)>>) /\ UNCHANGED serv
          \/ /\ wire(<<Line("ABORT")>>
                       \o (IF serv.sent_capend THEN <<>> ELSE <<Line("CAP END")>>))
             /\ serv' = [serv EXCEPT !.waiting_on_sasl = FALSE, !.sent_capend = TRUE]
    /\ hist' = [hist EXCEPT !.stale = @ \/ (serv.connected /\ k # serv.conn)]
    /\ UNCHANGED <<login, irc, toClient>>

\* 001: inbound_login_start and persistence_registration_complete.
Welcome ==
    /\ Received("001")
    /\ serv' = [serv EXCEPT !.welcomed = TRUE, !.attach_pending = FALSE]
    /\ Consumed /\ UNCHANGED toServer /\ Keeps

\* PERSISTENCE ATTACH; the other replies touch no flag of this module.
persistence_handle_reply ==
    /\ Received("ATTACH")
    /\ serv' = [serv EXCEPT !.attach_pending = FALSE]
    /\ Consumed /\ UNCHANGED toServer /\ Keeps

persistence_handle_fail_Always ==
    /\ Received("FAIL")
    /\ serv' = [serv EXCEPT !.attach_pending = FALSE,
                            !.attached = @ /\ Msg.code # "ACCOUNT_REQUIRED",
                            !.cursor_sent = @ /\ Msg.code = "OTHER"]
    /\ Consumed /\ UNCHANGED toServer /\ Keeps
persistence_handle_fail ==
    /\ Received("FAIL")
    /\ serv' = IF serv.attach_pending
               THEN [serv EXCEPT !.attach_pending = FALSE,
                                 !.attached = @ /\ Msg.code # "ACCOUNT_REQUIRED",
                                 !.cursor_sent = @ /\ Msg.code = "OTHER"]
               ELSE serv
    /\ Consumed /\ UNCHANGED toServer /\ Keeps

\* chathistory_replay_wrapper_begin.
ReplayBegins ==
    /\ Received("BATCH")
    /\ serv' = [serv EXCEPT !.replay_seen = TRUE]
    /\ Consumed /\ UNCHANGED toServer /\ Keeps

persistence_server_drives_replay == serv.attached /\ serv.cursor_sent /\ ~serv.replay_seen

\* /PERSISTENCE is sent verbatim, registered or not.
cmd_persistence ==
    /\ serv.connected /\ hist.events < MaxEvents
    /\ Send(<<Line("PERSISTENCE")>>)
    /\ hist' = [hist EXCEPT !.events = @ + 1, !.early = @ \/ ~serv.welcomed]
    /\ UNCHANGED <<login, serv, irc, toClient, refreshes>>

Client ==
    \/ inbound_cap_ls \/ inbound_toggle_caps \/ inbound_cap_nak
    \/ inbound_sasl_authenticate \/ Sasl903 \/ Sasl904 \/ Sasl906
    \/ Welcome \/ persistence_handle_reply \/ persistence_handle_fail \/ ReplayBegins
Refreshed == \E k \in 1..MaxConns + 1 : oauth_sasl_retry_cb(k)

(***************************************************************************)
(* The server, from how the code uses it.                                  *)
(***************************************************************************)
Asks(l) == toServer # <<>> /\ toServer[1].line = l
Answer(lines) == toServer' = Tail(toServer) /\ toClient' = toClient \o lines
ServKeeps == UNCHANGED <<login, serv, refreshes, hist>>

\* The list comes in one line, or in two.
ListCaps ==
    /\ Asks("CAP LS")
    /\ \E offer \in Offers :
        /\ \/ Answer(<<[line |-> "LS", caps |-> offer, more |-> FALSE]>>)
           \/ \E first \in SUBSET offer :
                Answer(<<[line |-> "LS", caps |-> first, more |-> TRUE],
                         [line |-> "LS", caps |-> offer \ first, more |-> FALSE]>>)
        /\ irc' = [irc EXCEPT !.caps = offer]
    /\ ServKeeps

GrantCaps ==
    /\ Asks("REQ")
    /\ LET caps == toServer[1].caps
       IN \/ /\ caps \subseteq irc.caps
             /\ Answer(<<[line |-> "ACK", caps |-> caps]>>)
             /\ irc' = [irc EXCEPT !.granted = @ \/ (~irc.ended /\ "sasl" \in caps)]
          \/ /\ Answer(<<[line |-> "NAK", caps |-> caps]>>)
             /\ UNCHANGED irc
    /\ ServKeeps

\* A payload outside an exchange is taken for the name of a mechanism.  The list of mechanisms
\* precedes the answer the protocol asks for; an exchange may take more than one challenge.
Authenticate ==
    /\ Asks("MECH") \/ Asks("PAYLOAD") \/ Asks("ABORT")
    /\ LET l == toServer[1].line
           outcome(state, n) == irc' = [irc EXCEPT !.sasl = state] /\ Answer(<<Line(n)>>)
       IN \/ irc.sasl = "done" /\ outcome("done", "907")
          \/ /\ irc.sasl = "selected"
             /\ \/ l = "PAYLOAD" /\ (outcome("done", "903") \/ outcome("failed", "904"))
                \/ /\ l = "PAYLOAD" /\ irc.rounds < MaxRounds
                   /\ irc' = [irc EXCEPT !.rounds = @ + 1] /\ Answer(<<Line("AUTHENTICATE")>>)
                \/ l = "MECH" /\ outcome("failed", "904")
                \/ l = "ABORT" /\ outcome("failed", "906")
          \/ /\ irc.sasl \in {"idle", "failed"}
             /\ \/ l = "MECH" /\ (outcome("selected", "AUTHENTICATE") \/ outcome("failed", "904"))
                \/ /\ l = "MECH" /\ irc' = [irc EXCEPT !.sasl = "selected"]
                   /\ Answer(<<Line("MECHS"), Line("AUTHENTICATE")>>)
                \/ l = "PAYLOAD" /\ outcome(irc.sasl, "904")
                \/ l = "ABORT" /\ outcome(irc.sasl, "906")
    /\ ServKeeps

TakeAttach ==
    /\ Asks("ATTACH")
    /\ \/ /\ irc' = [irc EXCEPT !.attach = IF toServer[1].cursor THEN "cursor" ELSE "plain"]
          /\ Answer(<<Line("ATTACH")>>) \/ Answer(<<>>)
       \/ \E code \in Codes :
            /\ irc' = [irc EXCEPT !.attach = code]
            /\ Answer(<<[line |-> "FAIL", code |-> code, own |-> TRUE]>>)
    /\ ServKeeps

\* Registration is complete; what a session missed since the cursor may be replayed.
EndCaps ==
    /\ Asks("CAP END")
    /\ irc' = [irc EXCEPT !.ended = TRUE]
    /\ IF irc.ended THEN Answer(<<>>)
       ELSE \/ Answer(<<Line("001")>>)
            \/ irc.attach = "cursor" /\ Answer(<<Line("001"), Line("BATCH")>>)
    /\ ServKeeps

\* The user's own /PERSISTENCE is refused, or answered by lines that change nothing.
TakeCommand ==
    /\ Asks("PERSISTENCE")
    /\ \/ Answer(<<>>)
       \/ \E code \in Codes : Answer(<<[line |-> "FAIL", code |-> code, own |-> FALSE]>>)
    /\ UNCHANGED irc /\ ServKeeps

\* cap-notify.
Notify ==
    /\ serv.connected /\ hist.events < MaxEvents
    /\ ~Asks("CAP LS")
    /\ \E c \in {"sasl", "persistence"} :
        \/ /\ c \notin irc.caps
           /\ toClient' = Append(toClient, [line |-> "LS", caps |-> {c}, more |-> FALSE])
           /\ irc' = [irc EXCEPT !.caps = @ \cup {c}]
        \/ /\ c \in irc.caps
           /\ toClient' = Append(toClient, [line |-> "DEL", caps |-> {c}])
           /\ irc' = [irc EXCEPT !.caps = @ \ {c}]
    /\ hist' = [hist EXCEPT !.events = @ + 1]
    /\ UNCHANGED <<login, serv, toServer, refreshes>>

Server == ListCaps \/ GrantCaps \/ Authenticate \/ TakeAttach \/ EndCaps \/ TakeCommand

Next == Connect \/ Lost \/ Client \/ Refreshed \/ cmd_persistence \/ Server \/ Notify

\* Lines that have arrived are handled, the server answers what it reads, and the token
\* endpoint answers or times out.  Nothing makes a connection break or come back.
Fairness == WF_vars(Client) /\ WF_vars(Server) /\ WF_vars(Refreshed)
Spec == Init /\ [][Next]_vars /\ Fairness

-----------------------------------------------------------------------------
\* Flags and lines have their types.
TypeOK ==
    /\ login \in Logins
    /\ serv \in Serv /\ irc \in Irc
    /\ toServer \in Seq(Asked) /\ toClient \in Seq(Lines)
    /\ refreshes \subseteq 1..MaxConns + 1
    /\ hist \in [carried : BOOLEAN, stale : BOOLEAN, events : 0..MaxEvents, early : BOOLEAN,
                asked : 0..2]

OnWire(l) == \E i \in 1..Len(toServer) : toServer[i].line = l

\* What the client believes it has done on this connection it has done on this one: the
\* ATTACH and the CAP END its flags stand for have reached this server or are on the way.
FlagsAreOfThisConnection ==
    serv.connected =>
        /\ serv.attached => OnWire("ATTACH") \/ irc.attach # "none"
        /\ serv.sent_capend <=> OnWire("CAP END") \/ irc.ended
        /\ serv.welcomed => irc.ended /\ ~serv.attach_pending

\* persistence_server_drives_replay holds the client's own catch-up back while the server has
\* the cursor and has not begun.  A refusal that says the cursor is unknown, or that rejects
\* the ATTACH (ACCOUNT_REQUIRED, INVALID_PARAMETERS), has opened the gate by 001, and FAILs
\* that answer something else leave it; a refusal with any other code, such as
\* INTERNAL_ERROR, leaves it closed, and the catch-up waits out the grace delay.  All this if
\* no /PERSISTENCE was typed before 001.
GateIsTrue ==
    serv.connected /\ serv.welcomed /\ ~hist.early =>
        /\ persistence_server_drives_replay => irc.attach \in {"cursor", "OTHER"}
        /\ irc.attach = "cursor" /\ ~serv.replay_seen => persistence_server_drives_replay

\* Who replays is decided by what was said on this connection.
ReplayDecided == FlagsAreOfThisConnection /\ GateIsTrue

\* The server accepts ATTACH only between the end of SASL and CAP END.
AttachInWindow == [][TakeAttach => irc.sasl = "done" /\ ~irc.ended]_vars

\* CAP END does not overtake the login: when the server granted sasl during the
\* negotiation, the exchange is over by the time it reads CAP END, unless a refresh of an
\* earlier connection was answered on this one or sasl was requested a second time (CAP DEL
\* and CAP NEW): a NAK to one request ends the wait for the other.
LoginBeforeEnd ==
    [][EndCaps /\ ~irc.ended /\ irc.granted /\ ~hist.stale /\ hist.asked < 2
        => irc.sasl \in {"done", "failed"}]_vars

\* Every connection that lasts is registered, unless it began with the waiting_on_sasl of
\* one that broke during SASL.
Registers ==
    \A k \in 1..MaxConns + 1 :
        (serv.connected /\ serv.conn = k /\ ~hist.carried)
            ~> (serv.welcomed \/ ~serv.connected \/ serv.conn # k)

\* The comment in persistence_handle_fail: "Only the FAIL that answers our own
\* registration-time ATTACH may touch the replay gate."
OnlyOurFail ==
    [][persistence_handle_fail /\ ~Msg.own
        => persistence_server_drives_replay' = persistence_server_drives_replay]_vars

\* The comments in inbound_cap_ls: "If we're on a non-TLS connection, we need to upgrade",
\* "Need to reconnect with TLS - close this connection".
UpgradesBeforeLogin ==
    serv.connected /\ "sts" \in irc.caps /\ ~serv.use_ssl => irc.sasl # "done" /\ ~serv.welcomed
=============================================================================
