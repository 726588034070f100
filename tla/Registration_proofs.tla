------------------------ MODULE Registration_proofs ------------------------
(***************************************************************************)
(* Proofs about Registration: who replays is decided by what was said on   *)
(* this connection, ATTACH reaches the server inside its window, and CAP   *)
(* END does not overtake the login, for every set of offers and logins and *)
(* any number of connections and events.                                   *)
(***************************************************************************)
EXTENDS Registration, TLAPS, SequenceTheorems

(***************************************************************************)
(* The inductive invariant.  What connects the client's flags with the     *)
(* server's state is what is on the wire between them, so it speaks of the *)
(* lines in the two queues and of their order.                             *)
(***************************************************************************)
On(q, l) == \E i \in 1..Len(q) : q[i].line = l

\* Between connections nothing is on the wire and nothing is remembered of an ATTACH.
Quiet ==
    ~serv.connected =>
        /\ toServer = <<>> /\ toClient = <<>> /\ irc = NewIrc
        /\ ~serv.attached /\ ~serv.cursor_sent /\ ~serv.attach_pending

\* An upgrade happens once: it needs a connection without TLS, and there is none after it.
Counted ==
    /\ serv.use_ssl = FALSE \/ serv.sts_upgrade => serv.conn <= MaxConns
    /\ refreshes \subseteq 1..serv.conn
    /\ serv.connected => serv.conn >= 1

\* The end of the negotiation: CAP END, its answer, and what it closes.
EndInv ==
    serv.connected =>
        /\ serv.sent_capend <=> On(toServer, "CAP END") \/ irc.ended
        /\ On(toClient, "001") => irc.ended
        /\ serv.welcomed => irc.ended
        /\ ~serv.sent_capend => ~serv.attached /\ ~serv.attach_pending /\ irc.attach = "none"

\* ATTACH is sent once, after the 903 and before CAP END.
AttachInv ==
    serv.connected =>
        /\ On(toClient, "903") => irc.sasl = "done"
        /\ serv.attached => On(toServer, "ATTACH") \/ irc.attach # "none"
        /\ On(toServer, "ATTACH") =>
            ~irc.ended /\ irc.sasl = "done" /\ irc.attach = "none" /\ serv.sent_capend
        /\ \A i, j \in 1..Len(toServer) :
            /\ toServer[i].line = "ATTACH" /\ toServer[j].line = "CAP END" => i < j
            /\ toServer[i].line = "ATTACH" /\ toServer[j].line = "ATTACH" => i = j
        /\ serv.welcomed => ~serv.attach_pending

\* The refusal of this connection's ATTACH.
OwnFail(m) == m.line = "FAIL" /\ m.own
HasFail(q) == \E i \in 1..Len(q) : OwnFail(q[i])
FailFirst(q) ==
    \A i, j \in 1..Len(q) :
        OwnFail(q[i]) => (q[j].line = "001" => i < j) /\ (OwnFail(q[j]) => i = j)

\* The answer to the ATTACH finds the flags its ATTACH left, and comes before 001.
GateInv ==
    serv.connected /\ ~hist.early =>
        /\ On(toServer, "PERSISTENCE") => serv.welcomed
        /\ \A i \in 1..Len(toServer) : toServer[i].line = "ATTACH" =>
            /\ serv.attached /\ serv.attach_pending
            /\ serv.cursor_sent <=> toServer[i].cursor
        /\ On(toClient, "ATTACH") => irc.attach \in {"plain", "cursor"}
        /\ \A i \in 1..Len(toClient) :
            /\ toClient[i].line = "FAIL" /\ ~OwnFail(toClient[i]) => serv.welcomed
            /\ OwnFail(toClient[i]) =>
                toClient[i].code = irc.attach /\ serv.attach_pending /\ ~serv.welcomed
        /\ FailFirst(toClient)
        /\ irc.attach = "cursor" => serv.attached /\ serv.cursor_sent
        /\ irc.attach = "plain" => ~serv.cursor_sent
        /\ irc.attach = "CURSOR_UNKNOWN" => ~serv.cursor_sent \/ HasFail(toClient)
        /\ irc.attach = "ACCOUNT_REQUIRED" => ~serv.attached \/ HasFail(toClient)

\* The line l of m; of the capability lines, the ones that name sasl.
Sasl(m, l) == m.line = l /\ (l \in {"REQ", "ACK", "NAK"} => "sasl" \in m.caps)
Has(q, l) == \E i \in 1..Len(q) : Sasl(q[i], l)
Once(q, l) == \A i, j \in 1..Len(q) : Sasl(q[i], l) /\ Sasl(q[j], l) => i = j

\* No refresh of an earlier connection was answered here, and sasl was requested once at most.
Watched == serv.connected /\ ~hist.stale /\ hist.asked < 2

\* One request for sasl has at most one line on the wire: the REQ, its ACK or NAK, or the
\* mechanism, in this order; what answers the exchange comes later.
RequestNow ==
    /\ hist.asked = 0 =>
        /\ irc.sasl = "idle" /\ ~irc.granted
        /\ ~Has(toServer, "REQ") /\ ~Has(toServer, "MECH")
        /\ ~Has(toClient, "ACK") /\ ~Has(toClient, "NAK")
    /\ Has(toServer, "REQ") => irc.sasl = "idle" /\ ~irc.granted
    /\ Has(toClient, "NAK") => ~irc.granted /\ ~Has(toServer, "REQ")
    /\ Has(toClient, "ACK") => irc.sasl = "idle" /\ ~Has(toServer, "REQ")
    /\ Has(toServer, "MECH") =>
        irc.sasl = "idle" /\ ~Has(toServer, "REQ") /\ ~Has(toClient, "ACK")
    /\ Has(toServer, "PAYLOAD") \/ Has(toServer, "ABORT") \/ Has(toClient, "AUTHENTICATE") =>
        irc.sasl # "idle"
    /\ (\E l \in {"903", "904", "906", "907"} : Has(toClient, l)) \/ serv.conn \in refreshes =>
        irc.sasl \in {"failed", "done"}
    /\ Once(toServer, "REQ") /\ Once(toClient, "ACK") /\ Once(toServer, "MECH")
OneRequest == Watched => RequestNow

\* CAP END waits for the request and, once it is granted, for the exchange.
WaitNow ==
    /\ \A i \in 1..Len(toServer) : Sasl(toServer[i], "REQ") =>
        \/ ~serv.sent_capend /\ serv.waiting_on_sasl
        \/ irc.ended
        \/ \E j \in 1..Len(toServer) : j < i /\ toServer[j].line = "CAP END"
    /\ irc.granted /\ ~irc.ended /\ irc.sasl \in {"idle", "selected"} =>
        serv.waiting_on_sasl /\ ~serv.sent_capend
WaitInv == Watched => WaitNow

IInv == TypeOK /\ Quiet /\ Counted /\ EndInv /\ AttachInv /\ GateInv /\ OneRequest /\ WaitInv

-----------------------------------------------------------------------------
(***************************************************************************)
(* Queues: one end is read, the other is written.                          *)
(***************************************************************************)
\* p is q with the lines of r behind it.
Grew(q, p, r) ==
    /\ Len(p) = Len(q) + Len(r)
    /\ \A i \in 1..Len(q) : p[i] = q[i]
    /\ \A i \in 1..Len(r) : p[Len(q) + i] = r[i]

\* p is q without its first line.
Read(q, p) ==
    /\ Len(q) = Len(p) + 1
    /\ \A i \in 1..Len(p) : p[i] = q[i + 1]

\* A concatenation grows its left operand.
LEMMA GrewByConcat ==
    ASSUME NEW S, NEW q \in Seq(S), NEW r \in Seq(S)
    PROVE  Grew(q, q \o r, r) /\ q \o r \in Seq(S)
BY DEF Grew

\* A tail is read.
LEMMA ReadByTail ==
    ASSUME NEW S, NEW q \in Seq(S), q # <<>>
    PROVE  Read(q, Tail(q)) /\ Tail(q) \in Seq(S) /\ q[1] \in S /\ Len(q) >= 1 /\ Len(q) \in Nat
BY DEF Read

\* Short queues.
LEMMA ShortQueues ==
    ASSUME NEW S, NEW q \in Seq(S), NEW m \in S
    PROVE  <<m>> \in Seq(S) /\ Append(q, m) \in Seq(S)
OBVIOUS
\* The empty queue.
LEMMA EmptyQueue ==
    ASSUME NEW S
    PROVE  <<>> \in Seq(S)
OBVIOUS

\* The typed facts about a client that has received a line.
LEMMA HasLine ==
    ASSUME TypeOK, NEW l, Received(l)
    PROVE  /\ toClient # <<>> /\ toClient \in Seq(Lines) /\ Msg \in Lines /\ Msg.line = l
           /\ Read(toClient, Tail(toClient)) /\ Tail(toClient) \in Seq(Lines)
           /\ 1 \in 1..Len(toClient) /\ Len(toClient) \in Nat
BY ReadByTail DEF TypeOK, Received, Msg

\* The typed facts about a server that has received a line.
LEMMA HasAsked ==
    ASSUME TypeOK, NEW l, Asks(l)
    PROVE  /\ toServer # <<>> /\ toServer \in Seq(Asked) /\ toServer[1] \in Asked
           /\ toServer[1].line = l
           /\ Read(toServer, Tail(toServer)) /\ Tail(toServer) \in Seq(Asked)
           /\ 1 \in 1..Len(toServer) /\ Len(toServer) \in Nat
BY ReadByTail DEF TypeOK, Asks

-----------------------------------------------------------------------------
(***************************************************************************)
(* Typing.                                                                 *)
(***************************************************************************)
Hist == [carried : BOOLEAN, stale : BOOLEAN, events : 0..MaxEvents, early : BOOLEAN,
         asked : 0..2]

\* The lines the client sends are lines the server can be asked.
LEMMA AskedLines ==
    /\ Line("CAP LS") \in Asked /\ Line("MECH") \in Asked /\ Line("PAYLOAD") \in Asked
    /\ Line("ABORT") \in Asked /\ Line("CAP END") \in Asked /\ Line("PERSISTENCE") \in Asked
    /\ \A c \in SUBSET Caps : [line |-> "REQ", caps |-> c] \in Asked
    /\ \A c \in BOOLEAN : [line |-> "ATTACH", cursor |-> c] \in Asked
<1>1. /\ Line("CAP LS") \in Asked /\ Line("MECH") \in Asked /\ Line("PAYLOAD") \in Asked
      /\ Line("ABORT") \in Asked /\ Line("CAP END") \in Asked /\ Line("PERSISTENCE") \in Asked
  BY DEF Line, Asked
<1>3. \A c \in SUBSET Caps : [line |-> "REQ", caps |-> c] \in Asked
  BY DEF Asked
<1>4. \A c \in BOOLEAN : [line |-> "ATTACH", cursor |-> c] \in Asked
  BY DEF Asked
<1> QED BY <1>1, <1>3, <1>4

\* What Init gives of the types and the counts.
LEMMA InitTypes == Init => TypeOK /\ Quiet /\ Counted
BY RegistrationAssumption DEF Init, TypeOK, Quiet, Counted, Serv, Irc, NewIrc, Caps

\* Opening a connection keeps the types, as long as the bound leaves room for it.
LEMMA LoginTypes ==
    ASSUME TypeOK, NEW s \in Serv, s.conn <= MaxConns, irc_login(s),
           login' = login, refreshes' = refreshes
    PROVE  TypeOK'
<1>. MaxConns \in Nat BY RegistrationAssumption
<1>1. serv' \in Serv
  <2> DEFINE d == server_set_defaults(s)
  <2>1. d \in Serv /\ d.conn = s.conn BY DEF server_set_defaults, Serv
  <2>2. s.conn \in Nat /\ s.conn + 1 \in 0..MaxConns + 1 BY DEF Serv
  <2>3. serv' = [d EXCEPT !.conn = s.conn + 1, !.connected = TRUE, !.welcomed = FALSE]
    BY <2>1 DEF irc_login
  <2> HIDE DEF d
  <2> QED BY <2>1, <2>2, <2>3 DEF Serv
<1>2. irc' \in Irc
  <2>1. 0 \in 0..MaxRounds BY RegistrationAssumption
  <2> QED BY <2>1 DEF irc_login, NewIrc, Irc, Caps
<1>3. toServer' \in Seq(Asked) /\ toClient' \in Seq(Lines)
  <2>1. toServer' = <<Line("CAP LS")>> /\ toClient' = <<>> BY DEF irc_login
  <2> QED BY <2>1, AskedLines, ShortQueues, EmptyQueue
<1>4. hist' \in Hist
  <2>1. s.waiting_on_sasl \in BOOLEAN BY DEF Serv
  <2>2. hist \in Hist BY DEF TypeOK, Hist
  <2>3. hist' = [hist EXCEPT !.carried = s.waiting_on_sasl, !.stale = FALSE, !.early = FALSE,
                             !.asked = 0]
    BY DEF irc_login
  <2>4. hist' = [carried |-> s.waiting_on_sasl, stale |-> FALSE, events |-> hist.events,
                 early |-> FALSE, asked |-> 0]
    BY <2>2, <2>3 DEF Hist
  <2>5. hist.events \in 0..MaxEvents BY <2>2 DEF Hist
  <2> QED BY <2>1, <2>4, <2>5 DEF Hist
<1> QED BY <1>1, <1>2, <1>3, <1>4 DEF TypeOK, Hist

\* Losing a connection keeps the types.
LEMMA DropTypes ==
    ASSUME NEW s \in Serv
    PROVE  /\ server_disconnect(s) \in Serv /\ server_disconnect(s).conn = s.conn
           /\ server_disconnect(s).use_ssl = s.use_ssl
           /\ server_disconnect(s).sts_upgrade = s.sts_upgrade
           /\ ~server_disconnect(s).connected /\ ~server_disconnect(s).attached
           /\ ~server_disconnect(s).cursor_sent /\ ~server_disconnect(s).attach_pending
<1> DEFINE u == [s EXCEPT !.connected = FALSE]
<1>1. u \in Serv /\ u.conn = s.conn /\ ~u.connected /\ u.use_ssl = s.use_ssl
        /\ u.sts_upgrade = s.sts_upgrade
  BY DEF Serv
<1>2. server_disconnect(s) = persistence_reset(u) BY DEF server_disconnect
<1> HIDE DEF u
<1>3. persistence_reset(u) \in Serv BY <1>1 DEF persistence_reset, Serv
<1>4. /\ persistence_reset(u).conn = u.conn /\ persistence_reset(u).use_ssl = u.use_ssl
      /\ persistence_reset(u).sts_upgrade = u.sts_upgrade
      /\ persistence_reset(u).connected = u.connected
  BY <1>1 DEF persistence_reset, Serv
<1>5. /\ ~persistence_reset(u).attached /\ ~persistence_reset(u).cursor_sent
      /\ ~persistence_reset(u).attach_pending
  BY <1>1 DEF persistence_reset, Serv
<1> QED BY <1>1, <1>2, <1>3, <1>4, <1>5

\* Where the negotiation ends or the connection is upgraded.
LEMMA EndTypes ==
    ASSUME TypeOK, toClient # <<>>, NEW s \in Serv, NEW lines \in Seq(Asked),
           NEW h \in Hist,
           s.sts_upgrade => s.conn <= MaxConns,
           EndOrUpgrade(s, lines, h)
    PROVE  TypeOK'
<1>1. CASE s.sts_upgrade
  <2> DEFINE t == server_disconnect([s EXCEPT !.sts_upgrade = FALSE, !.use_ssl = TRUE])
  <2>1. t \in Serv /\ t.conn = s.conn
    <3> DEFINE u == [s EXCEPT !.sts_upgrade = FALSE, !.use_ssl = TRUE]
    <3>1. u \in Serv /\ u.conn = s.conn BY DEF Serv
    <3> HIDE DEF u
    <3>2. server_disconnect(u) \in Serv /\ server_disconnect(u).conn = u.conn
      BY <3>1, DropTypes
    <3> QED BY <3>1, <3>2 DEF u
  <2>2. irc_login(t) /\ login' = login /\ refreshes' = refreshes BY <1>1 DEF EndOrUpgrade
  <2> HIDE DEF t
  <2> QED BY <1>1, <2>1, <2>2, LoginTypes
<1>2. CASE ~s.sts_upgrade
  <2>1. serv' \in Serv BY <1>2 DEF EndOrUpgrade, Serv
  <2>2. Append(lines, Line("CAP END")) \in Seq(Asked) BY AskedLines, ShortQueues
  <2>3. toServer \in Seq(Asked) /\ toClient \in Seq(Lines) BY DEF TypeOK
  <2>4. toServer' = toServer \o Append(lines, Line("CAP END")) /\ toClient' = Tail(toClient)
    BY <1>2 DEF EndOrUpgrade, Send, Consumed
  <2>5. toServer' \in Seq(Asked) /\ toClient' \in Seq(Lines)
    BY <2>2, <2>3, <2>4, GrewByConcat, ReadByTail
  <2>6. login' = login /\ irc' = irc /\ refreshes' = refreshes /\ hist' = h
    BY <1>2 DEF EndOrUpgrade
  <2> QED BY <2>1, <2>5, <2>6 DEF TypeOK, Hist
<1> QED BY <1>1, <1>2

-----------------------------------------------------------------------------
(***************************************************************************)
(* What each operation does, with its types.  A handler of the client      *)
(* reads one line and sends some, unless it opens a new connection.        *)
(***************************************************************************)
Handles(r) ==
    /\ Grew(toServer, toServer', r) /\ Read(toClient, toClient')
    /\ irc' = irc /\ refreshes' = refreshes

\* A connection that has just been opened.
Opens ==
    /\ toServer' = <<Line("CAP LS")>> /\ toClient' = <<>> /\ irc' = NewIrc
    /\ serv'.connected /\ ~serv'.welcomed /\ ~serv'.sent_capend /\ ~serv'.attached
    /\ ~serv'.cursor_sent /\ ~serv'.attach_pending
    /\ serv'.conn = serv.conn + 1 /\ refreshes' = refreshes
    /\ hist'.asked = 0 /\ ~hist'.stale /\ ~hist'.early

\* Opening a connection opens it, as long as the bound leaves room.
LEMMA Opening ==
    ASSUME TypeOK, NEW s \in Serv, s.conn = serv.conn, s.conn <= MaxConns,
           ~s.attached, ~s.cursor_sent, ~s.attach_pending, irc_login(s),
           login' = login, refreshes' = refreshes
    PROVE  /\ TypeOK' /\ Opens
           /\ serv'.use_ssl = s.use_ssl /\ serv'.sts_upgrade = s.sts_upgrade
<1>1. TypeOK' BY LoginTypes
<1> DEFINE d == server_set_defaults(s)
<1>2. /\ d \in Serv /\ d.conn = s.conn /\ ~d.sent_capend /\ d.use_ssl = s.use_ssl
      /\ d.sts_upgrade = s.sts_upgrade
  BY DEF server_set_defaults, Serv
<1>3. ~d.attached /\ ~d.cursor_sent /\ ~d.attach_pending BY DEF server_set_defaults, Serv
<1>4. serv' = [d EXCEPT !.conn = s.conn + 1, !.connected = TRUE, !.welcomed = FALSE]
  BY <1>2 DEF irc_login
<1> HIDE DEF d
<1>5. /\ serv'.connected /\ ~serv'.welcomed /\ ~serv'.sent_capend /\ ~serv'.attached
      /\ ~serv'.cursor_sent /\ ~serv'.attach_pending /\ serv'.conn = serv.conn + 1
  BY <1>2, <1>3, <1>4 DEF Serv
<1>6. serv'.use_ssl = s.use_ssl /\ serv'.sts_upgrade = s.sts_upgrade
  BY <1>2, <1>4 DEF Serv
<1>7. hist' = [hist EXCEPT !.carried = s.waiting_on_sasl, !.stale = FALSE, !.early = FALSE,
                           !.asked = 0]
  BY DEF irc_login
<1>8. hist'.asked = 0 /\ ~hist'.stale /\ ~hist'.early BY <1>7 DEF TypeOK
<1>9. toServer' = <<Line("CAP LS")>> /\ toClient' = <<>> /\ irc' = NewIrc BY DEF irc_login
<1> QED BY <1>1, <1>5, <1>6, <1>8, <1>9 DEF Opens

\* The end of the negotiation: a new connection with TLS, or CAP END behind the lines.
LEMMA EndEffect ==
    ASSUME TypeOK, toClient # <<>>, NEW s \in Serv, NEW lines \in Seq(Asked), NEW h \in Hist,
           s.conn = serv.conn, s.sts_upgrade => s.conn <= MaxConns,
           EndOrUpgrade(s, lines, h)
    PROVE  /\ TypeOK'
           /\ \/ Opens /\ serv'.use_ssl /\ ~serv'.sts_upgrade
              \/ /\ Handles(Append(lines, Line("CAP END")))
                 /\ serv' = [s EXCEPT !.sent_capend = TRUE] /\ hist' = h
                 /\ ~s.sts_upgrade
<1>1. CASE s.sts_upgrade
  <2> DEFINE u == [s EXCEPT !.sts_upgrade = FALSE, !.use_ssl = TRUE]
             t == server_disconnect(u)
  <2>1. u \in Serv /\ u.conn = s.conn /\ ~u.sts_upgrade /\ u.use_ssl BY DEF Serv
  <2>2. irc_login(t) /\ login' = login /\ refreshes' = refreshes BY <1>1 DEF EndOrUpgrade
  <2> HIDE DEF u
  <2>3. /\ t \in Serv /\ t.conn = u.conn /\ t.use_ssl = u.use_ssl
        /\ t.sts_upgrade = u.sts_upgrade /\ ~t.attached /\ ~t.cursor_sent /\ ~t.attach_pending
    BY <2>1, DropTypes
  <2> HIDE DEF t
  <2>4. t.conn = serv.conn /\ t.conn <= MaxConns BY <1>1, <2>1, <2>3
  <2> QED BY <2>1, <2>2, <2>3, <2>4, Opening
<1>2. CASE ~s.sts_upgrade
  <2>1. TypeOK' BY EndTypes
  <2>2. Append(lines, Line("CAP END")) \in Seq(Asked) BY AskedLines, ShortQueues
  <2>3. toServer \in Seq(Asked) /\ toClient \in Seq(Lines) BY DEF TypeOK
  <2>4. toServer' = toServer \o Append(lines, Line("CAP END")) /\ toClient' = Tail(toClient)
    BY <1>2 DEF EndOrUpgrade, Send, Consumed
  <2>5. irc' = irc /\ refreshes' = refreshes /\ hist' = h
          /\ serv' = [s EXCEPT !.sent_capend = TRUE]
    BY <1>2 DEF EndOrUpgrade
  <2>6. Grew(toServer, toServer', Append(lines, Line("CAP END"))) /\ Read(toClient, toClient')
    BY <2>2, <2>3, <2>4, GrewByConcat, ReadByTail
  <2> QED BY <1>2, <2>1, <2>5, <2>6 DEF Handles
<1> QED BY <1>1, <1>2

\* A handler that neither ends the negotiation nor opens a connection.
LEMMA HandlerEffect ==
    ASSUME TypeOK, toClient # <<>>, NEW r \in Seq(Asked), Send(r), Consumed,
           irc' = irc, refreshes' = refreshes
    PROVE  Handles(r) /\ toServer' \in Seq(Asked) /\ toClient' \in Seq(Lines)
<1>1. toServer \in Seq(Asked) /\ toClient \in Seq(Lines) BY DEF TypeOK
<1>2. toServer' = toServer \o r /\ toClient' = Tail(toClient) BY DEF Send, Consumed
<1> QED BY <1>1, <1>2, GrewByConcat, ReadByTail DEF Handles

\* The lines on the wire stay where they are; new ones come behind them.
WireGrows ==
    /\ Len(toServer) \in Nat /\ Len(toServer') \in Nat /\ Len(toServer') >= Len(toServer)
    /\ \A i \in 1..Len(toServer) : toServer'[i] = toServer[i]
NewLines == (Len(toServer) + 1)..Len(toServer')

\* No flag of an ATTACH, of the welcome or of the connection changes.
SameFlags ==
    /\ serv'.connected = serv.connected /\ serv'.conn = serv.conn
    /\ serv'.use_ssl = serv.use_ssl /\ serv'.welcomed = serv.welcomed
    /\ serv'.attached = serv.attached /\ serv'.cursor_sent = serv.cursor_sent
    /\ serv'.attach_pending = serv.attach_pending

\* What a concatenation does to the wire.
LEMMA GrewIsWire ==
    ASSUME TypeOK, TypeOK', NEW r \in Seq(Asked), Grew(toServer, toServer', r)
    PROVE  /\ WireGrows
           /\ Len(toServer') = Len(toServer) + Len(r) /\ Len(r) \in Nat
           /\ \A i \in NewLines : i - Len(toServer) \in 1..Len(r)
                                  /\ toServer'[i] = r[i - Len(toServer)]
<1>1. toServer \in Seq(Asked) /\ toServer' \in Seq(Asked) BY DEF TypeOK
<1>2. Len(toServer) \in Nat /\ Len(toServer') \in Nat /\ Len(r) \in Nat BY <1>1
<1>3. WireGrows /\ Len(toServer') = Len(toServer) + Len(r) BY <1>2 DEF Grew, WireGrows
<1>4. ASSUME NEW i \in NewLines
      PROVE  i - Len(toServer) \in 1..Len(r) /\ toServer'[i] = r[i - Len(toServer)]
  <2> DEFINE k == i - Len(toServer)
  <2>1. k \in 1..Len(r) /\ i = Len(toServer) + k BY <1>2, <1>3 DEF NewLines
  <2> HIDE DEF k
  <2>2. toServer'[Len(toServer) + k] = r[k] BY <2>1 DEF Grew
  <2> QED BY <2>1, <2>2 DEF k
<1> QED BY <1>2, <1>3, <1>4

\* CAP LS and CAP NEW: a request for what is wanted, and CAP END when nothing is waited for.
AsksFor(want, ends) ==
    /\ WireGrows /\ Read(toClient, toClient') /\ irc' = irc /\ refreshes' = refreshes
    /\ \A i \in NewLines :
        \/ toServer'[i] = [line |-> "REQ", caps |-> want] /\ i = Len(toServer) + 1
        \/ toServer'[i] = Line("CAP END") /\ ends
    /\ ends => toServer'[Len(toServer')] = Line("CAP END") /\ Len(toServer') \in NewLines
    /\ ends => ~serv'.waiting_on_sasl
    /\ serv'.waiting_on_sasl <=> serv.waiting_on_sasl \/ "sasl" \in want
    /\ serv'.sent_capend <=> serv.sent_capend \/ ends
    /\ SameFlags
    /\ serv'.sts_upgrade => serv.sts_upgrade \/ ~serv.use_ssl
    /\ hist' = Requested(want)

\* The flags CAP LS may set.
LEMMA LsTypes ==
    ASSUME NEW s \in Serv, NEW a \in BOOLEAN, NEW b \in BOOLEAN, NEW c \in BOOLEAN,
           NEW d \in BOOLEAN, NEW e \in BOOLEAN
    PROVE  [s EXCEPT !.waiting_on_cap = a, !.waiting_on_sasl = b, !.oauth_mech = c,
                     !.sts_policy = d, !.sts_upgrade = e] \in Serv
BY DEF Serv

\* inbound_cap_ls asks for what is wanted, or upgrades.
LEMMA LsEffect ==
    ASSUME TypeOK, Counted, inbound_cap_ls
    PROVE  /\ TypeOK'
           /\ \/ Opens /\ serv'.use_ssl /\ ~serv'.sts_upgrade
              \/ \E want \in SUBSET Caps, ends \in BOOLEAN : AsksFor(want, ends)
<1>1. /\ toClient # <<>> /\ Msg \in Lines /\ Msg.line = "LS"
  BY HasLine DEF inbound_cap_ls
<1>2. Msg.caps \in SUBSET Caps /\ Msg.more \in BOOLEAN BY <1>1 DEF Lines
<1> DEFINE want == Wanted(Msg.caps)
           s == [serv EXCEPT
                    !.waiting_on_cap = Msg.more,
                    !.waiting_on_sasl = @ \/ "sasl" \in want,
                    !.oauth_mech = @ \/ ("sasl" \in want /\ login = "oauth"),
                    !.sts_policy = @ \/ "sts" \in Msg.caps,
                    !.sts_upgrade = @ \/ ("sts" \in Msg.caps /\ ~serv.use_ssl)]
           req == [line |-> "REQ", caps |-> want]
           end == Line("CAP END")
           lines == IF want = {} THEN <<>> ELSE <<req>>
<1>3. want \in SUBSET Caps BY <1>2 DEF Wanted
<1>4. IF ~s.waiting_on_sasl /\ ~s.waiting_on_cap
      THEN EndOrUpgrade(s, lines, Requested(want))
      ELSE /\ serv' = s /\ Send(lines) /\ Consumed
           /\ hist' = Requested(want) /\ UNCHANGED <<login, irc, refreshes>>
  BY DEF inbound_cap_ls
<1> HIDE DEF want
<1>5. serv \in Serv BY DEF TypeOK
<1>6. s \in Serv
  <2> DEFINE b1 == serv.waiting_on_sasl \/ "sasl" \in want
             b2 == serv.oauth_mech \/ ("sasl" \in want /\ login = "oauth")
             b3 == serv.sts_policy \/ "sts" \in Msg.caps
             b4 == serv.sts_upgrade \/ ("sts" \in Msg.caps /\ ~serv.use_ssl)
             m == Msg.more
  <2>1. b1 \in BOOLEAN /\ b2 \in BOOLEAN /\ b3 \in BOOLEAN /\ b4 \in BOOLEAN OBVIOUS
  <2>2. m \in BOOLEAN BY <1>2
  <2>3. s = [serv EXCEPT !.waiting_on_cap = m, !.waiting_on_sasl = b1, !.oauth_mech = b2,
                         !.sts_policy = b3, !.sts_upgrade = b4]
    BY <1>5 DEF Serv
  <2> HIDE DEF b1, b2, b3, b4, m, s
  <2> QED BY <1>5, <2>1, <2>2, <2>3, LsTypes, ZenonT(30)
<1>7. /\ s.connected = serv.connected /\ s.conn = serv.conn /\ s.use_ssl = serv.use_ssl
      /\ s.welcomed = serv.welcomed /\ s.attached = serv.attached
      /\ s.cursor_sent = serv.cursor_sent /\ s.attach_pending = serv.attach_pending
      /\ s.sent_capend = serv.sent_capend
  BY <1>5 DEF Serv
<1>8. /\ s.waiting_on_sasl <=> serv.waiting_on_sasl \/ "sasl" \in want
      /\ s.sts_upgrade => serv.sts_upgrade \/ ~serv.use_ssl
  BY <1>5 DEF Serv
<1> HIDE DEF s
<1>9. lines \in Seq(Asked) BY <1>3, AskedLines, ShortQueues, EmptyQueue
<1>10. Requested(want) \in Hist
  <2>1. hist \in Hist BY DEF TypeOK, Hist
  <2>2. hist.asked \in 0..2 /\ hist.carried \in BOOLEAN /\ hist.stale \in BOOLEAN
          /\ hist.events \in 0..MaxEvents /\ hist.early \in BOOLEAN
    BY <2>1 DEF Hist
  <2> DEFINE a == IF "sasl" \in want /\ hist.asked < 2 THEN hist.asked + 1 ELSE hist.asked
  <2>3. a \in 0..2 BY <2>2
  <2>4. Requested(want) = [hist EXCEPT !.asked = a] BY <2>1 DEF Requested, Hist
  <2> HIDE DEF a
  <2> QED BY <2>1, <2>3, <2>4 DEF Hist
<1>11. s.sts_upgrade => s.conn <= MaxConns BY <1>5, <1>7, <1>8 DEF Counted, Serv
<1>12. lines = <<>> \/ lines = <<req>> OBVIOUS
<1> HIDE DEF lines
<1>15. req = [line |-> "REQ", caps |-> want] /\ end = Line("CAP END") OBVIOUS
<1> HIDE DEF req, end
<1>13. CASE ~s.waiting_on_sasl /\ ~s.waiting_on_cap
  <2>1. EndOrUpgrade(s, lines, Requested(want)) BY <1>4, <1>13
  <2>2. /\ TypeOK'
        /\ \/ Opens /\ serv'.use_ssl /\ ~serv'.sts_upgrade
           \/ /\ Handles(Append(lines, Line("CAP END")))
              /\ serv' = [s EXCEPT !.sent_capend = TRUE] /\ hist' = Requested(want)
              /\ ~s.sts_upgrade
    BY <1>1, <1>6, <1>7, <1>9, <1>10, <1>11, <2>1, EndEffect
  <2>3. ASSUME Handles(Append(lines, Line("CAP END"))),
               serv' = [s EXCEPT !.sent_capend = TRUE], hist' = Requested(want)
        PROVE  AsksFor(want, TRUE)
    <3> DEFINE r == Append(lines, end)
    <3>1. r \in Seq(Asked) BY <1>9, <1>15, AskedLines, ShortQueues
    <3>2. \/ Len(r) = 1 /\ r[1] = end
          \/ Len(r) = 2 /\ r[1] = req /\ r[2] = end
      <4>1. CASE lines = <<>> BY <4>1
      <4>2. CASE lines = <<req>> BY <4>2
      <4> QED BY <1>12, <4>1, <4>2
    <3>8. Handles(r) BY <1>15, <2>3
    <3> HIDE DEF r
    <3>3. /\ WireGrows
          /\ Len(toServer') = Len(toServer) + Len(r)
          /\ \A i \in NewLines : i - Len(toServer) \in 1..Len(r)
                                 /\ toServer'[i] = r[i - Len(toServer)]
      BY <2>2, <3>1, <3>8, GrewIsWire DEF Handles
    <3>4. \A i \in NewLines :
            \/ toServer'[i] = req /\ i = Len(toServer) + 1
            \/ toServer'[i] = end
      BY <3>2, <3>3 DEF WireGrows, NewLines
    <3>5. toServer'[Len(toServer')] = end /\ Len(toServer') \in NewLines
      BY <3>2, <3>3 DEF WireGrows, NewLines
    <3>6. SameFlags BY <1>6, <1>7, <2>3 DEF SameFlags, Serv
    <3>7. serv'.waiting_on_sasl = s.waiting_on_sasl /\ serv'.sts_upgrade = s.sts_upgrade
            /\ serv'.sent_capend
      BY <1>6, <2>3 DEF Serv
    <3> QED BY <1>8, <1>13, <1>15, <2>3, <3>3, <3>4, <3>5, <3>6, <3>7 DEF AsksFor, Handles
  <2> QED BY <1>3, <2>2, <2>3
<1>14. CASE ~(~s.waiting_on_sasl /\ ~s.waiting_on_cap)
  <2>1. /\ serv' = s /\ Send(lines) /\ Consumed
        /\ hist' = Requested(want) /\ login' = login /\ irc' = irc /\ refreshes' = refreshes
    BY <1>4, <1>14
  <2>2. Handles(lines) /\ toServer' \in Seq(Asked) /\ toClient' \in Seq(Lines)
    BY <1>1, <1>9, <2>1, HandlerEffect
  <2>3. TypeOK' BY <1>6, <1>10, <2>1, <2>2 DEF TypeOK, Hist
  <2>4. /\ WireGrows
        /\ Len(toServer') = Len(toServer) + Len(lines)
        /\ \A i \in NewLines : i - Len(toServer) \in 1..Len(lines)
                               /\ toServer'[i] = lines[i - Len(toServer)]
    BY <1>9, <2>2, <2>3, GrewIsWire DEF Handles
  <2>5. \A i \in NewLines :
            toServer'[i] = req /\ i = Len(toServer) + 1
    BY <1>12, <2>4 DEF WireGrows, NewLines
  <2>6. SameFlags BY <1>7, <2>1 DEF SameFlags
  <2>7. AsksFor(want, FALSE) BY <1>7, <1>8, <1>15, <2>1, <2>2, <2>4, <2>5, <2>6 DEF AsksFor, Handles
  <2> QED BY <1>3, <2>3, <2>7
<1> QED BY <1>13, <1>14

\* One line sent.
LEMMA OneLine ==
    ASSUME TypeOK, TypeOK', NEW m \in Asked, Grew(toServer, toServer', <<m>>)
    PROVE  /\ WireGrows /\ Len(toServer') = Len(toServer) + 1
           /\ \A i \in NewLines : toServer'[i] = m /\ i = Len(toServer')
           /\ Len(toServer') \in NewLines
<1> DEFINE r == <<m>>
<1>1. r \in Seq(Asked) /\ Len(r) = 1 /\ r[1] = m BY ShortQueues, EmptyQueue
<1>2. Grew(toServer, toServer', r) OBVIOUS
<1> HIDE DEF r
<1>3. /\ WireGrows
      /\ Len(toServer') = Len(toServer) + Len(r)
      /\ \A i \in NewLines : i - Len(toServer) \in 1..Len(r)
                             /\ toServer'[i] = r[i - Len(toServer)]
  BY <1>1, <1>2, GrewIsWire
<1> QED BY <1>1, <1>3 DEF WireGrows, NewLines

\* Two lines sent.
LEMMA TwoLines ==
    ASSUME TypeOK, TypeOK', NEW m \in Asked, NEW n \in Asked,
           Grew(toServer, toServer', <<m, n>>)
    PROVE  /\ WireGrows /\ Len(toServer') = Len(toServer) + 2
           /\ \A i \in NewLines : \/ toServer'[i] = m /\ i = Len(toServer) + 1
                                  \/ toServer'[i] = n /\ i = Len(toServer')
           /\ Len(toServer') \in NewLines /\ toServer'[Len(toServer')] = n
<1> DEFINE r == <<m, n>>
<1>1. r \in Seq(Asked) /\ Len(r) = 2 /\ r[1] = m /\ r[2] = n OBVIOUS
<1>2. Grew(toServer, toServer', r) OBVIOUS
<1> HIDE DEF r
<1>3. /\ WireGrows
      /\ Len(toServer') = Len(toServer) + Len(r)
      /\ \A i \in NewLines : i - Len(toServer) \in 1..Len(r)
                             /\ toServer'[i] = r[i - Len(toServer)]
  BY <1>1, <1>2, GrewIsWire
<1> QED BY <1>1, <1>3 DEF WireGrows, NewLines

\* No line sent.
LEMMA NoLine ==
    ASSUME TypeOK, TypeOK', Grew(toServer, toServer', <<>>)
    PROVE  WireGrows /\ Len(toServer') = Len(toServer) /\ NewLines = {}
<1>1. toServer \in Seq(Asked) /\ toServer' \in Seq(Asked) BY DEF TypeOK
<1>2. Len(toServer) \in Nat /\ Len(toServer') \in Nat BY <1>1
<1>3. WireGrows /\ Len(toServer') = Len(toServer) BY <1>2 DEF Grew, WireGrows
<1> QED BY <1>2, <1>3 DEF NewLines

\* CAP ACK and CAP DEL: an acknowledged sasl is answered with the mechanism.
Toggles ==
    /\ WireGrows /\ Read(toClient, toClient') /\ irc' = irc /\ refreshes' = refreshes
    /\ hist' = hist
    /\ \A i \in NewLines : toServer'[i] = Line("MECH") /\ i = Len(toServer') /\ Sasl(Msg, "ACK")
    /\ Len(toServer') <= Len(toServer) + 1
    /\ SameFlags
    /\ serv'.waiting_on_sasl = serv.waiting_on_sasl /\ serv'.sent_capend = serv.sent_capend
    /\ serv'.sts_upgrade = serv.sts_upgrade

\* inbound_toggle_caps.
LEMMA ToggleEffect ==
    ASSUME TypeOK, inbound_toggle_caps
    PROVE  TypeOK' /\ Toggles /\ toClient # <<>> /\ Msg.line \in {"ACK", "DEL"}
<1>1. toClient # <<>> /\ Msg \in Lines /\ Msg.line \in {"ACK", "DEL"}
  BY HasLine DEF inbound_toggle_caps
<1> DEFINE b == IF "persistence" \in Msg.caps THEN Msg.line = "ACK" ELSE serv.have_persistence
           mech == Line("MECH")
           r == IF Msg.line = "ACK" /\ "sasl" \in Msg.caps THEN <<mech>> ELSE <<>>
<1>2. serv \in Serv BY DEF TypeOK
<1>3. b \in BOOLEAN BY <1>2 DEF Serv
<1>4. serv' = [serv EXCEPT !.have_persistence = b] BY <1>2 DEF inbound_toggle_caps, Serv
<1>5. Send(r) /\ Consumed /\ login' = login /\ irc' = irc /\ refreshes' = refreshes
        /\ hist' = hist
  BY DEF inbound_toggle_caps, Keeps
<1> HIDE DEF b
<1>6. serv' \in Serv BY <1>2, <1>3, <1>4 DEF Serv
<1>7. mech \in Asked BY AskedLines
<1>8. mech = Line("MECH") OBVIOUS
<1> HIDE DEF mech
<1>9. r \in Seq(Asked) BY <1>7, ShortQueues, EmptyQueue
<1>10. Handles(r) /\ toServer' \in Seq(Asked) /\ toClient' \in Seq(Lines)
  BY <1>1, <1>5, <1>9, HandlerEffect
<1>11. TypeOK' BY <1>5, <1>6, <1>10 DEF TypeOK
<1>12. /\ SameFlags
       /\ serv'.waiting_on_sasl = serv.waiting_on_sasl /\ serv'.sent_capend = serv.sent_capend
       /\ serv'.sts_upgrade = serv.sts_upgrade
  BY <1>2, <1>4 DEF SameFlags, Serv
<1>13. /\ WireGrows /\ Len(toServer') <= Len(toServer) + 1
       /\ \A i \in NewLines : toServer'[i] = mech /\ i = Len(toServer') /\ Sasl(Msg, "ACK")
  <2>1. CASE Msg.line = "ACK" /\ "sasl" \in Msg.caps
    <3>1. Grew(toServer, toServer', <<mech>>) BY <1>10, <2>1 DEF Handles
    <3>2. /\ WireGrows /\ Len(toServer') = Len(toServer) + 1
          /\ \A i \in NewLines : toServer'[i] = mech /\ i = Len(toServer')
      BY <1>7, <1>11, <3>1, OneLine
    <3> QED BY <2>1, <3>2 DEF Sasl, WireGrows
  <2>2. CASE ~(Msg.line = "ACK" /\ "sasl" \in Msg.caps)
    <3>1. Grew(toServer, toServer', <<>>) BY <1>10, <2>2 DEF Handles
    <3>2. WireGrows /\ Len(toServer') = Len(toServer) /\ NewLines = {} BY <1>11, <3>1, NoLine
    <3> QED BY <3>2 DEF WireGrows
  <2> QED BY <2>1, <2>2
<1> QED BY <1>1, <1>5, <1>8, <1>10, <1>11, <1>12, <1>13 DEF Toggles, Handles

\* CAP NAK: the wait for sasl ends, and the negotiation with it when nothing else is open.
Naks(ends) ==
    /\ WireGrows /\ Read(toClient, toClient') /\ irc' = irc /\ refreshes' = refreshes
    /\ hist' = hist
    /\ \A i \in NewLines : toServer'[i] = Line("CAP END") /\ ends
    /\ ends => toServer'[Len(toServer')] = Line("CAP END") /\ Len(toServer') \in NewLines
    /\ ends => ~serv'.waiting_on_sasl /\ ~serv.sent_capend
    /\ serv'.waiting_on_sasl <=> serv.waiting_on_sasl /\ "sasl" \notin Msg.caps
    /\ serv'.sent_capend <=> serv.sent_capend \/ ends
    /\ SameFlags /\ serv'.sts_upgrade = serv.sts_upgrade

\* inbound_cap_nak ends the wait, or upgrades.
LEMMA NakEffect ==
    ASSUME TypeOK, Counted, inbound_cap_nak
    PROVE  /\ TypeOK' /\ toClient # <<>> /\ Msg.line = "NAK"
           /\ \/ Opens /\ serv'.use_ssl /\ ~serv'.sts_upgrade
              \/ \E ends \in BOOLEAN : Naks(ends)
<1>1. toClient # <<>> /\ Msg \in Lines /\ Msg.line = "NAK" BY HasLine DEF inbound_cap_nak
<1> DEFINE b == serv.waiting_on_sasl /\ "sasl" \notin Msg.caps
           s == [serv EXCEPT !.waiting_on_sasl = b]
           end == Line("CAP END")
<1>2. serv \in Serv BY DEF TypeOK
<1>3. b \in BOOLEAN OBVIOUS
<1>16. s = [serv EXCEPT !.waiting_on_sasl = @ /\ "sasl" \notin Msg.caps] BY <1>2 DEF Serv
<1>4. IF ~s.waiting_on_cap /\ ~s.waiting_on_sasl /\ ~s.sent_capend
      THEN EndOrUpgrade(s, <<>>, hist)
      ELSE serv' = s /\ Send(<<>>) /\ Consumed /\ Keeps
  BY <1>16 DEF inbound_cap_nak
<1>17. b <=> serv.waiting_on_sasl /\ "sasl" \notin Msg.caps OBVIOUS
<1> HIDE DEF b
<1>5. s \in Serv BY <1>2, <1>3 DEF Serv
<1>6. /\ s.connected = serv.connected /\ s.conn = serv.conn /\ s.use_ssl = serv.use_ssl
      /\ s.welcomed = serv.welcomed /\ s.attached = serv.attached
      /\ s.cursor_sent = serv.cursor_sent /\ s.attach_pending = serv.attach_pending
      /\ s.sent_capend = serv.sent_capend /\ s.sts_upgrade = serv.sts_upgrade
  BY <1>2 DEF Serv
<1>7. s.waiting_on_sasl = b BY <1>2 DEF Serv
<1> HIDE DEF s
<1>8. hist \in Hist BY DEF TypeOK, Hist
<1>9. s.sts_upgrade => s.conn <= MaxConns BY <1>6 DEF Counted
<1>10. end \in Asked /\ end = Line("CAP END") BY AskedLines
<1> HIDE DEF end
<1>11. CASE ~s.waiting_on_cap /\ ~s.waiting_on_sasl /\ ~s.sent_capend
  <2>1. EndOrUpgrade(s, <<>>, hist) BY <1>4, <1>11
  <2>2. /\ TypeOK'
        /\ \/ Opens /\ serv'.use_ssl /\ ~serv'.sts_upgrade
           \/ /\ Handles(Append(<<>>, Line("CAP END")))
              /\ serv' = [s EXCEPT !.sent_capend = TRUE] /\ hist' = hist
              /\ ~s.sts_upgrade
    BY <1>1, <1>5, <1>6, <1>8, <1>9, <2>1, EndEffect, EmptyQueue
  <2>3. ASSUME Handles(Append(<<>>, Line("CAP END"))),
               serv' = [s EXCEPT !.sent_capend = TRUE], hist' = hist
        PROVE  Naks(TRUE)
    <3>1. Append(<<>>, end) = <<end>> OBVIOUS
    <3>2. Grew(toServer, toServer', <<end>>) BY <1>10, <2>3, <3>1 DEF Handles
    <3>3. /\ WireGrows /\ Len(toServer') = Len(toServer) + 1
          /\ \A i \in NewLines : toServer'[i] = end /\ i = Len(toServer')
          /\ Len(toServer') \in NewLines
      BY <1>10, <2>2, <3>2, OneLine
    <3>4. SameFlags BY <1>5, <1>6, <2>3 DEF SameFlags, Serv
    <3>5. serv'.waiting_on_sasl = s.waiting_on_sasl /\ serv'.sts_upgrade = s.sts_upgrade
            /\ serv'.sent_capend
      BY <1>5, <2>3 DEF Serv
    <3> QED BY <1>6, <1>7, <1>17, <1>10, <1>11, <2>3, <3>3, <3>4, <3>5 DEF Naks, Handles
  <2> QED BY <1>1, <2>2, <2>3
<1>12. CASE ~(~s.waiting_on_cap /\ ~s.waiting_on_sasl /\ ~s.sent_capend)
  <2>1. /\ serv' = s /\ Send(<<>>) /\ Consumed /\ login' = login /\ irc' = irc
        /\ refreshes' = refreshes /\ hist' = hist
    BY <1>4, <1>12 DEF Keeps
  <2>2. Handles(<<>>) /\ toServer' \in Seq(Asked) /\ toClient' \in Seq(Lines)
    BY <1>1, <2>1, HandlerEffect, EmptyQueue
  <2>3. TypeOK' BY <1>5, <2>1, <2>2 DEF TypeOK
  <2>4. WireGrows /\ Len(toServer') = Len(toServer) /\ NewLines = {}
    BY <2>2, <2>3, NoLine DEF Handles
  <2>5. SameFlags BY <1>6, <2>1 DEF SameFlags
  <2>6. Naks(FALSE) BY <1>6, <1>7, <1>17, <2>1, <2>2, <2>4, <2>5 DEF Naks, Handles
  <2> QED BY <1>1, <2>3, <2>6
<1> QED BY <1>11, <1>12

\* AUTHENTICATE: a payload or an abort; nothing when it lists mechanisms.
Answers ==
    /\ WireGrows /\ Read(toClient, toClient') /\ irc' = irc /\ refreshes' = refreshes
    /\ hist' = hist /\ serv' = serv
    /\ \E l \in {"PAYLOAD", "ABORT"} : \A i \in NewLines : toServer'[i] = Line(l)
    /\ Msg.line = "AUTHENTICATE" \/ (Msg.line = "MECHS" /\ NewLines = {})

\* inbound_sasl_authenticate.
LEMMA AuthenticateEffect ==
    ASSUME TypeOK, inbound_sasl_authenticate
    PROVE  TypeOK' /\ Answers /\ toClient # <<>>
<1>1. toClient # <<>> BY HasLine DEF inbound_sasl_authenticate
<1>3. /\ Consumed /\ login' = login /\ irc' = irc /\ refreshes' = refreshes /\ hist' = hist
      /\ serv' = serv
  BY DEF inbound_sasl_authenticate, Keeps
<1>2. CASE Received("AUTHENTICATE") /\ \E l \in {"PAYLOAD", "ABORT"} : Send(<<Line(l)>>)
  <2>1. PICK l \in {"PAYLOAD", "ABORT"} : Send(<<Line(l)>>) BY <1>2
  <2>2. Msg.line = "AUTHENTICATE" BY <1>2, HasLine
  <2> DEFINE m == Line(l)
  <2>4. m \in Asked /\ m = Line(l) BY AskedLines
  <2>5. Send(<<m>>) BY <2>1
  <2> HIDE DEF m
  <2>6. Handles(<<m>>) /\ toServer' \in Seq(Asked) /\ toClient' \in Seq(Lines)
    BY <1>1, <1>3, <2>4, <2>5, HandlerEffect, ShortQueues, EmptyQueue
  <2>7. TypeOK' BY <1>3, <2>6 DEF TypeOK
  <2>8. WireGrows /\ \A i \in NewLines : toServer'[i] = m
    BY <2>4, <2>6, <2>7, OneLine DEF Handles
  <2> QED BY <1>1, <1>3, <2>2, <2>4, <2>6, <2>7, <2>8 DEF Answers, Handles
<1>4. CASE Received("MECHS") /\ Send(<<>>)
  <2>1. Msg.line = "MECHS" BY <1>4, HasLine
  <2>2. Handles(<<>>) /\ toServer' \in Seq(Asked) /\ toClient' \in Seq(Lines)
    BY <1>1, <1>3, <1>4, HandlerEffect, EmptyQueue
  <2>3. TypeOK' BY <1>3, <2>2 DEF TypeOK
  <2>4. WireGrows /\ NewLines = {} BY <2>2, <2>3, NoLine DEF Handles
  <2> QED BY <1>1, <1>3, <2>1, <2>2, <2>3, <2>4 DEF Answers, Handles
<1> QED BY <1>2, <1>4 DEF inbound_sasl_authenticate

\* Two lines one after the other.
LEMMA PairOfLines ==
    ASSUME NEW S, NEW a \in S, NEW b \in S
    PROVE  <<a>> \o <<b>> = <<a, b>>
<1> DEFINE s == <<a>> \o <<b>>
           t == <<a, b>>
<1>1. s \in Seq(S) /\ t \in Seq(S) /\ Len(s) = 2 /\ Len(t) = 2 OBVIOUS
<1>2. s[1] = a /\ s[2] = b /\ t[1] = a /\ t[2] = b OBVIOUS
<1> HIDE DEF s, t
<1>3. \A i \in 1..Len(s) : s[i] = t[i] BY <1>1, <1>2
<1>4. s = t BY <1>1, <1>3, SeqEqual
<1> QED BY <1>4 DEF s, t

\* The end of SASL: an abort, and CAP END unless it was sent, after an ATTACH when SASL
\* succeeded.
Over(ok) ==
    /\ WireGrows /\ Read(toClient, toClient') /\ irc' = irc /\ refreshes' = refreshes
    /\ hist' = hist
    /\ \A i \in NewLines :
        \/ toServer'[i] = Line("ABORT") /\ ~ok
        \/ toServer'[i] = Line("CAP END") /\ ~serv.sent_capend /\ i = Len(toServer')
        \/ /\ toServer'[i] = [line |-> "ATTACH", cursor |-> serv'.cursor_sent]
           /\ ok /\ ~serv.sent_capend /\ serv'.attached /\ serv'.attach_pending
           /\ i = Len(toServer) + 1 /\ i < Len(toServer')
    /\ ~serv.sent_capend =>
        toServer'[Len(toServer')] = Line("CAP END") /\ Len(toServer') \in NewLines
    /\ serv'.connected = serv.connected /\ serv'.conn = serv.conn
    /\ serv'.use_ssl = serv.use_ssl /\ serv'.welcomed = serv.welcomed
    /\ serv'.sts_upgrade = serv.sts_upgrade
    /\ ~serv'.waiting_on_sasl /\ serv'.sent_capend
    /\ \/ serv'.attached = serv.attached /\ serv'.cursor_sent = serv.cursor_sent
            /\ serv'.attach_pending = serv.attach_pending
       \/ /\ ok /\ ~serv.sent_capend /\ serv'.attached /\ serv'.attach_pending
          /\ Len(toServer) + 1 \in NewLines /\ toServer'[Len(toServer) + 1].line = "ATTACH"

\* SaslEnds.
LEMMA OverEffect ==
    ASSUME TypeOK, toClient # <<>>, NEW s \in Serv, NEW ok \in BOOLEAN, NEW aborts \in BOOLEAN,
           aborts => ~ok, SaslEnds(s, ok, aborts),
           s.sent_capend = serv.sent_capend, s.connected = serv.connected,
           s.conn = serv.conn, s.use_ssl = serv.use_ssl, s.welcomed = serv.welcomed,
           s.sts_upgrade = serv.sts_upgrade, s.attached = serv.attached,
           s.cursor_sent = serv.cursor_sent, s.attach_pending = serv.attach_pending
    PROVE  TypeOK' /\ Over(ok)
<1> DEFINE end == Line("CAP END")
           abort == Line("ABORT")
<1>1. end \in Asked /\ abort \in Asked BY AskedLines
<1>2. PICK cursor \in BOOLEAN :
        /\ serv' = [IF ~s.sent_capend /\ ok THEN persistence_send_attach(s, cursor) ELSE s
                      EXCEPT !.waiting_on_sasl = FALSE, !.sent_capend = TRUE]
        /\ Send((IF aborts THEN <<abort>> ELSE <<>>)
                  \o (IF ~s.sent_capend /\ ok THEN AttachLines(s, cursor) ELSE <<>>)
                  \o (IF ~s.sent_capend THEN <<end>> ELSE <<>>))
  BY DEF SaslEnds
<1>3. Consumed /\ login' = login /\ irc' = irc /\ refreshes' = refreshes /\ hist' = hist
  BY DEF SaslEnds, Keeps
<1> DEFINE att == [line |-> "ATTACH", cursor |-> cursor]
           new == ~s.sent_capend /\ ok /\ s.have_persistence /\ ~s.attached
           t == IF new THEN [s EXCEPT !.attached = TRUE, !.cursor_sent = cursor,
                                      !.attach_pending = TRUE]
                       ELSE s
           r == (IF aborts THEN <<abort>> ELSE <<>>)
                  \o (IF ~s.sent_capend /\ ok THEN AttachLines(s, cursor) ELSE <<>>)
                  \o (IF ~s.sent_capend THEN <<end>> ELSE <<>>)
<1>4. att \in Asked /\ att = [line |-> "ATTACH", cursor |-> cursor] BY AskedLines
<1>5. end = Line("CAP END") /\ abort = Line("ABORT") OBVIOUS
<1>6. AttachLines(s, cursor) = IF s.have_persistence /\ ~s.attached THEN <<att>> ELSE <<>>
  BY DEF AttachLines
<1> HIDE DEF end, abort, att
<1>7. t \in Serv
  <2>1. [s EXCEPT !.attached = TRUE, !.cursor_sent = cursor, !.attach_pending = TRUE] \in Serv
    BY DEF Serv
  <2> QED BY <2>1
<1>8. serv' = [t EXCEPT !.waiting_on_sasl = FALSE, !.sent_capend = TRUE]
  BY <1>2 DEF persistence_send_attach
<1>9. serv' \in Serv /\ ~serv'.waiting_on_sasl /\ serv'.sent_capend
  <2> HIDE DEF t
  <2> QED BY <1>7, <1>8 DEF Serv
<1>10. /\ serv'.connected = t.connected /\ serv'.conn = t.conn /\ serv'.use_ssl = t.use_ssl
       /\ serv'.welcomed = t.welcomed /\ serv'.sts_upgrade = t.sts_upgrade
       /\ serv'.attached = t.attached /\ serv'.cursor_sent = t.cursor_sent
       /\ serv'.attach_pending = t.attach_pending
  <2> HIDE DEF t
  <2> QED BY <1>7, <1>8 DEF Serv
<1>11. /\ t.connected = s.connected /\ t.conn = s.conn /\ t.use_ssl = s.use_ssl
       /\ t.welcomed = s.welcomed /\ t.sts_upgrade = s.sts_upgrade
  BY DEF Serv
<1>12. IF new THEN t.attached /\ t.attach_pending /\ t.cursor_sent = cursor ELSE t = s
  <2>1. CASE new BY <2>1 DEF Serv
  <2>2. CASE ~new BY <2>2
  <2> QED BY <2>1, <2>2
<1> HIDE DEF t
<1>13. /\ new => r = <<att, end>>
       /\ s.sent_capend /\ aborts => r = <<abort>>
       /\ s.sent_capend /\ ~aborts => r = <<>>
       /\ ~s.sent_capend /\ aborts => r = <<abort, end>>
       /\ ~s.sent_capend /\ ~aborts /\ ~new => r = <<end>>
  <2>1. \A a \in Asked : <<>> \o <<>> \o <<a>> = <<a>> /\ <<a>> \o <<>> \o <<>> = <<a>>
    OBVIOUS
  <2>2. \A a, b \in Asked : <<>> \o <<a>> \o <<b>> = <<a, b>>
                           /\ <<a>> \o <<>> \o <<b>> = <<a, b>>
    <3> SUFFICES ASSUME NEW a \in Asked, NEW b \in Asked
                 PROVE  <<>> \o <<a>> \o <<b>> = <<a, b>> /\ <<a>> \o <<>> \o <<b>> = <<a, b>>
      OBVIOUS
    <3>1. <<>> \o <<a>> = <<a>> /\ <<a>> \o <<>> = <<a>> OBVIOUS
    <3>2. <<a>> \o <<b>> = <<a, b>>
      BY PairOfLines
    <3> QED BY <3>1, <3>2, Zenon
  <2>3. <<>> \o <<>> \o <<>> = <<>> OBVIOUS
  <2>4. CASE new BY <1>1, <1>4, <1>6, <2>2, <2>4, Zenon
  <2>5. CASE s.sent_capend /\ aborts BY <1>1, <2>1, <2>5, Zenon
  <2>6. CASE s.sent_capend /\ ~aborts BY <2>3, <2>6, Zenon
  <2>7. CASE ~s.sent_capend /\ aborts BY <1>1, <2>2, <2>7, Zenon
  <2>8. CASE ~s.sent_capend /\ ~aborts /\ ~new BY <1>1, <1>6, <2>1, <2>8, Zenon
  <2> QED BY <2>4, <2>5, <2>6, <2>7, <2>8
<1>14. Send(r) BY <1>2
<1> HIDE DEF r
<1>15. r \in Seq(Asked)
  <2>1. \A a, b \in Asked : <<a>> \in Seq(Asked) /\ <<a, b>> \in Seq(Asked) OBVIOUS
  <2>2. <<>> \in Seq(Asked) OBVIOUS
  <2> QED BY <1>1, <1>4, <1>13, <2>1, <2>2, Zenon
<1>16. Handles(r) /\ toServer' \in Seq(Asked) /\ toClient' \in Seq(Lines)
  BY <1>3, <1>14, <1>15, HandlerEffect
<1>17. TypeOK' BY <1>3, <1>9, <1>16 DEF TypeOK
<1>18. Grew(toServer, toServer', r) /\ Read(toClient, toClient') BY <1>16 DEF Handles
<1> DEFINE Facts ==
        /\ WireGrows
        /\ \A i \in NewLines :
            \/ toServer'[i] = abort /\ ~ok
            \/ toServer'[i] = end /\ ~serv.sent_capend /\ i = Len(toServer')
            \/ toServer'[i] = att /\ new /\ i = Len(toServer) + 1 /\ i < Len(toServer')
        /\ ~serv.sent_capend => toServer'[Len(toServer')] = end /\ Len(toServer') \in NewLines
        /\ new => Len(toServer) + 1 \in NewLines /\ toServer'[Len(toServer) + 1] = att
<1>19. Facts
  <2>1. CASE new
    <3>1. /\ WireGrows /\ Len(toServer') = Len(toServer) + 2
          /\ \A i \in NewLines : \/ toServer'[i] = att /\ i = Len(toServer) + 1
                                 \/ toServer'[i] = end /\ i = Len(toServer')
          /\ Len(toServer') \in NewLines /\ toServer'[Len(toServer')] = end
      BY <1>1, <1>4, <1>13, <1>17, <1>18, <2>1, TwoLines
    <3>2. Len(toServer) + 1 \in NewLines BY <3>1 DEF WireGrows, NewLines
    <3>3. toServer'[Len(toServer) + 1] = att BY <3>1, <3>2 DEF WireGrows
    <3> QED BY <2>1, <3>1, <3>2, <3>3 DEF WireGrows
  <2>2. CASE s.sent_capend /\ aborts
    <3>1. WireGrows /\ \A i \in NewLines : toServer'[i] = abort
      BY <1>1, <1>13, <1>17, <1>18, <2>2, OneLine
    <3> QED BY <2>2, <3>1
  <2>3. CASE s.sent_capend /\ ~aborts
    <3>1. WireGrows /\ NewLines = {} BY <1>13, <1>17, <1>18, <2>3, NoLine
    <3> QED BY <2>3, <3>1
  <2>4. CASE ~s.sent_capend /\ aborts
    <3>1. /\ WireGrows
          /\ \A i \in NewLines : \/ toServer'[i] = abort
                                 \/ toServer'[i] = end /\ i = Len(toServer')
          /\ Len(toServer') \in NewLines /\ toServer'[Len(toServer')] = end
      BY <1>1, <1>13, <1>17, <1>18, <2>4, TwoLines
    <3> QED BY <2>4, <3>1
  <2>5. CASE ~s.sent_capend /\ ~aborts /\ ~new
    <3>1. /\ WireGrows
          /\ \A i \in NewLines : toServer'[i] = end /\ i = Len(toServer')
          /\ Len(toServer') \in NewLines
      BY <1>1, <1>13, <1>17, <1>18, <2>5, OneLine
    <3> QED BY <2>5, <3>1
  <2> QED BY <2>1, <2>2, <2>3, <2>4, <2>5
<1>20. new => /\ ok /\ ~serv.sent_capend /\ serv'.attached /\ serv'.attach_pending
              /\ serv'.cursor_sent = cursor /\ att.line = "ATTACH"
  BY <1>4, <1>10, <1>12
<1>21. ~new => serv'.attached = serv.attached /\ serv'.cursor_sent = serv.cursor_sent
                 /\ serv'.attach_pending = serv.attach_pending
  BY <1>10, <1>12
<1>22. \A i \in NewLines :
        \/ toServer'[i] = Line("ABORT") /\ ~ok
        \/ toServer'[i] = Line("CAP END") /\ ~serv.sent_capend /\ i = Len(toServer')
        \/ /\ toServer'[i] = [line |-> "ATTACH", cursor |-> serv'.cursor_sent]
           /\ ok /\ ~serv.sent_capend /\ serv'.attached /\ serv'.attach_pending
           /\ i = Len(toServer) + 1 /\ i < Len(toServer')
  <2> HIDE DEF new
  <2> QED BY <1>4, <1>5, <1>19, <1>20
<1> QED BY <1>3, <1>5, <1>9, <1>10, <1>11, <1>17, <1>18, <1>19, <1>20, <1>21, <1>22 DEF Over

\* The 903.
LEMMA Over903 ==
    ASSUME TypeOK, Sasl903
    PROVE  TypeOK' /\ Over(TRUE) /\ toClient # <<>> /\ Msg.line = "903"
<1>1. toClient # <<>> /\ Msg.line = "903" BY HasLine DEF Sasl903
<1>2. serv \in Serv BY DEF TypeOK
<1> QED BY <1>1, <1>2, OverEffect DEF Sasl903

\* The 906 and the 907.
LEMMA Over906 ==
    ASSUME TypeOK, Sasl906
    PROVE  TypeOK' /\ Over(FALSE) /\ toClient # <<>> /\ Msg.line \in {"906", "907"}
<1>1. toClient # <<>> /\ Msg.line \in {"906", "907"} BY HasLine DEF Sasl906
<1>2. serv \in Serv BY DEF TypeOK
<1> QED BY <1>1, <1>2, OverEffect DEF Sasl906

\* A refused token: a refresh is begun, or SASL is over.
Refreshing ==
    /\ toServer' = toServer /\ Read(toClient, toClient') /\ irc' = irc /\ hist' = hist
    /\ refreshes' = refreshes \cup {serv.conn}
    /\ SameFlags
    /\ serv'.waiting_on_sasl = serv.waiting_on_sasl /\ serv'.sent_capend = serv.sent_capend
    /\ serv'.sts_upgrade = serv.sts_upgrade

\* The 904.
LEMMA Over904 ==
    ASSUME TypeOK, Counted, serv.connected, Sasl904
    PROVE  /\ TypeOK' /\ (Over(FALSE) \/ Refreshing)
           /\ toClient # <<>> /\ Msg.line = "904" /\ 1 \in 1..Len(toClient)
<1>1. /\ toClient # <<>> /\ Msg.line = "904" /\ toClient \in Seq(Lines)
      /\ Read(toClient, Tail(toClient)) /\ Tail(toClient) \in Seq(Lines)
  BY HasLine DEF Sasl904
<1>2. serv \in Serv BY DEF TypeOK
<1> DEFINE b == serv.refresh_attempted \/ serv.oauth_mech
           s == Tried(serv)
<1>3. s = [serv EXCEPT !.refresh_attempted = b] /\ b \in BOOLEAN BY <1>2 DEF Tried, Serv
<1> HIDE DEF b, s
<1>4. s \in Serv BY <1>2, <1>3 DEF Serv
<1>5. /\ s.sent_capend = serv.sent_capend /\ s.connected = serv.connected
      /\ s.conn = serv.conn /\ s.use_ssl = serv.use_ssl /\ s.welcomed = serv.welcomed
      /\ s.sts_upgrade = serv.sts_upgrade /\ s.attached = serv.attached
      /\ s.cursor_sent = serv.cursor_sent /\ s.attach_pending = serv.attach_pending
      /\ s.waiting_on_sasl = serv.waiting_on_sasl
  BY <1>2, <1>3 DEF Serv
<1>6. CASE SaslEnds(s, FALSE, TRUE)
  BY <1>1, <1>4, <1>5, <1>6, OverEffect, HasLine DEF Sasl904
<1>7. CASE /\ serv' = s /\ refreshes' = refreshes \cup {serv.conn} /\ Consumed
           /\ UNCHANGED <<login, irc, toServer, hist>>
  <2>1. refreshes' \subseteq 1..MaxConns + 1
    <3>1. MaxConns \in Nat /\ serv.conn \in 0..MaxConns + 1 /\ serv.conn >= 1
      BY <1>2, RegistrationAssumption DEF Serv, Counted
    <3>2. refreshes \subseteq 1..MaxConns + 1 BY DEF TypeOK
    <3>3. serv.conn \in 1..MaxConns + 1 BY <3>1
    <3> QED BY <1>7, <3>2, <3>3
  <2>2. toClient' = Tail(toClient) BY <1>7 DEF Consumed
  <2>3. TypeOK' BY <1>1, <1>4, <1>7, <2>1, <2>2 DEF TypeOK
  <2>4. Refreshing BY <1>1, <1>5, <1>7, <2>2 DEF Refreshing, SameFlags
  <2> QED BY <1>1, <2>3, <2>4
<1>8. SaslEnds(s, FALSE, TRUE)
        \/ (/\ serv' = s /\ refreshes' = refreshes \cup {serv.conn} /\ Consumed
            /\ UNCHANGED <<login, irc, toServer, hist>>)
  BY DEF Sasl904, s
<1> QED BY <1>6, <1>7, <1>8

\* The answer to a token refresh, in the connection it was for or in another one.
Retried(k) ==
    /\ WireGrows /\ toClient' = toClient /\ irc' = irc
    /\ k \in refreshes /\ refreshes' = refreshes \ {k}
    /\ ~serv.connected => toServer' = toServer
    /\ \A i \in NewLines :
        \/ toServer'[i] \in {Line("PAYLOAD"), Line("ABORT")}
        \/ toServer'[i] = Line("CAP END") /\ ~serv.sent_capend /\ ~serv'.waiting_on_sasl
    /\ SameFlags /\ serv'.sts_upgrade = serv.sts_upgrade
    /\ \/ serv' = serv /\ \A i \in NewLines : toServer'[i] # Line("CAP END")
       \/ /\ ~serv'.waiting_on_sasl /\ serv'.sent_capend
          /\ serv.connected /\ ~serv.sent_capend =>
                toServer'[Len(toServer')] = Line("CAP END") /\ Len(toServer') \in NewLines
    /\ hist'.stale <=> hist.stale \/ (serv.connected /\ k # serv.conn)
    /\ hist'.early = hist.early /\ hist'.asked = hist.asked

\* oauth_sasl_retry_cb.
LEMMA RetryEffect ==
    ASSUME TypeOK, NEW k \in 1..MaxConns + 1, oauth_sasl_retry_cb(k)
    PROVE  TypeOK' /\ Retried(k)
<1> DEFINE end == Line("CAP END")
           abort == Line("ABORT")
           payload == Line("PAYLOAD")
           b == hist.stale \/ (serv.connected /\ k # serv.conn)
<1>1. end \in Asked /\ abort \in Asked /\ payload \in Asked BY AskedLines
<1>2. /\ serv \in Serv /\ hist \in Hist /\ toServer \in Seq(Asked) /\ toClient \in Seq(Lines)
      /\ refreshes \subseteq 1..MaxConns + 1
  BY DEF TypeOK, Hist
<1>3. /\ k \in refreshes /\ refreshes' = refreshes \ {k} /\ toClient' = toClient /\ irc' = irc
      /\ login' = login
  BY DEF oauth_sasl_retry_cb
<1>4. hist' = [hist EXCEPT !.stale = b] /\ b \in BOOLEAN
  BY <1>2 DEF oauth_sasl_retry_cb, Hist
<1>5. b <=> hist.stale \/ (serv.connected /\ k # serv.conn) OBVIOUS
<1> HIDE DEF b
<1>6. /\ hist' \in Hist /\ hist'.stale = b /\ hist'.early = hist.early
      /\ hist'.asked = hist.asked
  BY <1>2, <1>4 DEF Hist
<1>7. \/ /\ \/ toServer' = IF serv.connected THEN toServer \o <<payload>> ELSE toServer
            \/ toServer' = IF serv.connected THEN toServer \o <<abort>> ELSE toServer
         /\ serv' = serv
      \/ /\ toServer' = IF serv.connected
                        THEN toServer \o (<<abort>> \o (IF serv.sent_capend
                                                        THEN <<>> ELSE <<end>>))
                        ELSE toServer
         /\ serv' = [serv EXCEPT !.waiting_on_sasl = FALSE, !.sent_capend = TRUE]
  BY DEF oauth_sasl_retry_cb
<1>8. end = Line("CAP END") /\ abort = Line("ABORT") /\ payload = Line("PAYLOAD")
        /\ end # abort /\ end # payload
  BY DEF Line
<1> HIDE DEF end, abort, payload
<1>9. serv' \in Serv BY <1>2, <1>7 DEF Serv
<1>10. SameFlags /\ serv'.sts_upgrade = serv.sts_upgrade BY <1>2, <1>7 DEF SameFlags, Serv
<1>11. ASSUME toServer' \in Seq(Asked) PROVE TypeOK'
  BY <1>2, <1>3, <1>6, <1>9, <1>11 DEF TypeOK, Hist
<1>12. ASSUME toServer' = toServer PROVE TypeOK' /\ WireGrows /\ NewLines = {}
  BY <1>2, <1>11, <1>12 DEF WireGrows, NewLines
<1>13. ASSUME NEW m \in Asked, toServer' = toServer \o <<m>>
       PROVE  TypeOK' /\ WireGrows /\ \A i \in NewLines : toServer'[i] = m
  <2>1. <<m>> \in Seq(Asked) BY ShortQueues, EmptyQueue
  <2>2. toServer' \in Seq(Asked) /\ Grew(toServer, toServer', <<m>>)
    BY <1>2, <1>13, <2>1, GrewByConcat
  <2> QED BY <1>11, <2>2, OneLine
<1>14. ASSUME toServer' = toServer \o <<abort, end>>
       PROVE  /\ TypeOK' /\ WireGrows
              /\ \A i \in NewLines : toServer'[i] = abort \/ toServer'[i] = end
              /\ Len(toServer') \in NewLines /\ toServer'[Len(toServer')] = end
  <2>1. <<abort, end>> \in Seq(Asked) BY <1>1
  <2>2. toServer' \in Seq(Asked) /\ Grew(toServer, toServer', <<abort, end>>)
    BY <1>2, <1>14, <2>1, GrewByConcat
  <2> QED BY <1>1, <1>11, <2>2, TwoLines
<1> DEFINE Facts ==
        /\ WireGrows /\ TypeOK'
        /\ ~serv.connected => toServer' = toServer
        /\ \A i \in NewLines :
            \/ toServer'[i] \in {payload, abort}
            \/ toServer'[i] = end /\ ~serv.sent_capend /\ ~serv'.waiting_on_sasl
        /\ \/ serv' = serv /\ \A i \in NewLines : toServer'[i] # end
           \/ /\ ~serv'.waiting_on_sasl /\ serv'.sent_capend
              /\ serv.connected /\ ~serv.sent_capend =>
                    toServer'[Len(toServer')] = end /\ Len(toServer') \in NewLines
<1>15. Facts
  <2>1. CASE /\ toServer' = (IF serv.connected THEN toServer \o <<payload>> ELSE toServer)
             /\ serv' = serv
    BY <1>1, <1>8, <1>12, <1>13, <2>1
  <2>2. CASE /\ toServer' = (IF serv.connected THEN toServer \o <<abort>> ELSE toServer)
             /\ serv' = serv
    BY <1>1, <1>8, <1>12, <1>13, <2>2
  <2>3. CASE /\ toServer' = (IF serv.connected
                             THEN toServer \o (<<abort>> \o (IF serv.sent_capend
                                                             THEN <<>> ELSE <<end>>))
                             ELSE toServer)
             /\ serv' = [serv EXCEPT !.waiting_on_sasl = FALSE, !.sent_capend = TRUE]
    <3>1. ~serv'.waiting_on_sasl /\ serv'.sent_capend BY <1>2, <2>3 DEF Serv
    <3>2. <<abort>> \o <<end>> = <<abort, end>> BY <1>1, PairOfLines
    <3>3. <<abort>> \o <<>> = <<abort>> OBVIOUS
    <3>4. CASE ~serv.connected BY <1>12, <2>3, <3>1, <3>4
    <3>5. CASE serv.connected /\ serv.sent_capend
      <4>1. toServer' = toServer \o <<abort>> BY <2>3, <3>3, <3>5
      <4> QED BY <1>1, <1>13, <3>1, <3>5, <4>1
    <3>6. CASE serv.connected /\ ~serv.sent_capend
      <4>1. toServer' = toServer \o <<abort, end>> BY <2>3, <3>2, <3>6
      <4> QED BY <1>14, <3>1, <3>6, <4>1
    <3> QED BY <3>4, <3>5, <3>6
  <2> QED BY <1>7, <2>1, <2>2, <2>3
<1> QED BY <1>3, <1>5, <1>6, <1>8, <1>10, <1>15 DEF Retried

\* The handlers that only change flags.
Flags ==
    /\ toServer' = toServer /\ Read(toClient, toClient') /\ irc' = irc
    /\ refreshes' = refreshes /\ hist' = hist
    /\ serv'.connected = serv.connected /\ serv'.conn = serv.conn
    /\ serv'.use_ssl = serv.use_ssl /\ serv'.sts_upgrade = serv.sts_upgrade
    /\ serv'.waiting_on_sasl = serv.waiting_on_sasl /\ serv'.sent_capend = serv.sent_capend

\* The handlers that only set flags.
LEMMA FlagEffects ==
    ASSUME TypeOK,
           Welcome \/ persistence_handle_reply \/ persistence_handle_fail \/ ReplayBegins
    PROVE  TypeOK' /\ Flags /\ toClient # <<>>
<1>1. serv \in Serv BY DEF TypeOK
<1>2. /\ toClient # <<>> /\ Tail(toClient) \in Seq(Lines) /\ Read(toClient, Tail(toClient))
      /\ Msg \in Lines
  BY HasLine DEF Welcome, persistence_handle_reply, persistence_handle_fail, ReplayBegins
<1>3. /\ toClient' = Tail(toClient) /\ toServer' = toServer /\ login' = login /\ irc' = irc
      /\ refreshes' = refreshes /\ hist' = hist
  BY DEF Welcome, persistence_handle_reply, persistence_handle_fail, ReplayBegins,
         Consumed, Keeps
<1>4. /\ serv' \in Serv
      /\ serv'.connected = serv.connected /\ serv'.conn = serv.conn
      /\ serv'.use_ssl = serv.use_ssl /\ serv'.sts_upgrade = serv.sts_upgrade
      /\ serv'.waiting_on_sasl = serv.waiting_on_sasl /\ serv'.sent_capend = serv.sent_capend
  <2>1. CASE Welcome BY <1>1, <2>1 DEF Welcome, Serv
  <2>2. CASE persistence_handle_reply BY <1>1, <2>2 DEF persistence_handle_reply, Serv
  <2>3. CASE ReplayBegins BY <1>1, <2>3 DEF ReplayBegins, Serv
  <2>4. CASE persistence_handle_fail
    <3> DEFINE a == serv.attached /\ Msg.code # "ACCOUNT_REQUIRED"
               c == serv.cursor_sent /\ Msg.code = "OTHER"
    <3>1. \/ serv' = serv
          \/ serv' = [serv EXCEPT !.attach_pending = FALSE, !.attached = a, !.cursor_sent = c]
      BY <1>1, <2>4 DEF persistence_handle_fail, Serv
    <3>2. a \in BOOLEAN /\ c \in BOOLEAN OBVIOUS
    <3> HIDE DEF a, c
    <3> QED BY <1>1, <3>1, <3>2 DEF Serv
  <2> QED BY <2>1, <2>2, <2>3, <2>4
<1>5. TypeOK' BY <1>2, <1>3, <1>4 DEF TypeOK
<1> QED BY <1>2, <1>3, <1>4, <1>5 DEF Flags

\* /PERSISTENCE.
Commands ==
    /\ WireGrows /\ toClient' = toClient /\ serv' = serv /\ irc' = irc /\ refreshes' = refreshes
    /\ \A i \in NewLines : toServer'[i] = Line("PERSISTENCE")
    /\ hist'.stale = hist.stale /\ hist'.asked = hist.asked
    /\ hist'.early <=> hist.early \/ ~serv.welcomed

\* cmd_persistence.
LEMMA CommandEffect ==
    ASSUME TypeOK, cmd_persistence
    PROVE  TypeOK' /\ Commands /\ serv.connected
<1> DEFINE m == Line("PERSISTENCE")
           b == hist.early \/ ~serv.welcomed
<1>1. /\ hist \in Hist /\ toServer \in Seq(Asked) BY DEF TypeOK, Hist
<1>2. m \in Asked /\ m = Line("PERSISTENCE") BY AskedLines
<1>3. /\ toServer' = toServer \o <<m>> /\ toClient' = toClient /\ serv' = serv /\ irc' = irc
      /\ refreshes' = refreshes /\ login' = login /\ serv.connected
      /\ hist.events < MaxEvents
  BY DEF cmd_persistence, Send
<1>4. hist' = [hist EXCEPT !.events = hist.events + 1, !.early = b]
  BY <1>1 DEF cmd_persistence, Hist
<1>5. b \in BOOLEAN /\ (b <=> hist.early \/ ~serv.welcomed) OBVIOUS
<1> HIDE DEF m, b
<1>6. hist.events + 1 \in 0..MaxEvents BY <1>1, <1>3, RegistrationAssumption DEF Hist
<1> DEFINE e == hist.events + 1
<1>7. /\ hist' \in Hist /\ hist'.stale = hist.stale /\ hist'.asked = hist.asked
      /\ hist'.early = b
  <2>1. hist' = [hist EXCEPT !.events = e, !.early = b] /\ e \in 0..MaxEvents
    BY <1>4, <1>6
  <2> HIDE DEF e
  <2> QED BY <1>1, <1>5, <2>1 DEF Hist
<1>8. <<m>> \in Seq(Asked) BY <1>2, ShortQueues, EmptyQueue
<1>9. toServer' \in Seq(Asked) /\ Grew(toServer, toServer', <<m>>)
  BY <1>1, <1>3, <1>8, GrewByConcat
<1>10. TypeOK' BY <1>3, <1>7, <1>9 DEF TypeOK, Hist
<1>11. WireGrows /\ \A i \in NewLines : toServer'[i] = m BY <1>2, <1>9, <1>10, OneLine
<1> QED BY <1>2, <1>3, <1>5, <1>7, <1>10, <1>11 DEF Commands

\* Connect.
LEMMA ConnectEffect ==
    ASSUME TypeOK, Quiet, Counted, Connect
    PROVE  /\ TypeOK' /\ Opens
           /\ serv'.use_ssl = FALSE \/ serv'.sts_upgrade => serv'.conn <= MaxConns
<1>1. serv \in Serv /\ serv.conn \in Nat /\ MaxConns \in Nat
  BY RegistrationAssumption DEF TypeOK, Serv
<1>2. ~serv.connected /\ serv.conn < MaxConns BY DEF Connect
<1>3. PICK ssl \in {serv.use_ssl, serv.use_ssl \/ serv.sts_policy} :
        irc_login([serv EXCEPT !.use_ssl = ssl])
  BY DEF Connect
<1> DEFINE s == [serv EXCEPT !.use_ssl = ssl]
<1>4. ssl \in BOOLEAN BY <1>1 DEF Serv
<1>5. s \in Serv /\ s.conn = serv.conn BY <1>1, <1>4 DEF Serv
<1>6. ~s.attached /\ ~s.cursor_sent /\ ~s.attach_pending BY <1>1, <1>2 DEF Serv, Quiet
<1>7. login' = login /\ refreshes' = refreshes /\ irc_login(s) BY <1>3 DEF Connect
<1> HIDE DEF s
<1>8. TypeOK' /\ Opens BY <1>1, <1>2, <1>5, <1>6, <1>7, Opening
<1>10. serv'.conn = serv.conn + 1 BY <1>8 DEF Opens
<1>9. serv'.conn <= MaxConns BY <1>1, <1>2, <1>10
<1> QED BY <1>8, <1>9

\* Lost.
LEMMA LostEffect ==
    ASSUME TypeOK, Lost
    PROVE  /\ TypeOK' /\ ~serv'.connected /\ toServer' = <<>> /\ toClient' = <<>>
           /\ irc' = NewIrc /\ ~serv'.attached /\ ~serv'.cursor_sent /\ ~serv'.attach_pending
           /\ serv'.conn = serv.conn /\ serv'.use_ssl = serv.use_ssl
           /\ serv'.sts_upgrade = serv.sts_upgrade /\ refreshes' = refreshes
<1>1. serv \in Serv BY DEF TypeOK
<1> DEFINE t == server_disconnect(serv)
<1>2. /\ serv' = t /\ toServer' = <<>> /\ toClient' = <<>> /\ irc' = NewIrc
      /\ refreshes' = refreshes /\ login' = login /\ hist' = hist
  BY DEF Lost
<1>3. /\ t \in Serv /\ t.conn = serv.conn /\ t.use_ssl = serv.use_ssl
      /\ t.sts_upgrade = serv.sts_upgrade
      /\ ~t.connected /\ ~t.attached /\ ~t.cursor_sent /\ ~t.attach_pending
  BY <1>1, DropTypes
<1> HIDE DEF t
<1>4. NewIrc \in Irc BY RegistrationAssumption DEF NewIrc, Irc, Caps
<1>5. <<>> \in Seq(Asked) /\ <<>> \in Seq(Lines) BY EmptyQueue
<1> QED BY <1>2, <1>3, <1>4, <1>5 DEF TypeOK

\* The server's answers come behind what is on its way to the client.
RepliesGrow ==
    /\ Len(toClient) \in Nat /\ Len(toClient') \in Nat /\ Len(toClient') >= Len(toClient)
    /\ \A i \in 1..Len(toClient) : toClient'[i] = toClient[i]
Replies == (Len(toClient) + 1)..Len(toClient')

\* What a concatenation does to the wire to the client.
LEMMA GrewIsReplies ==
    ASSUME TypeOK, NEW r \in Seq(Lines), toClient' = toClient \o r
    PROVE  /\ RepliesGrow /\ toClient' \in Seq(Lines)
           /\ Len(toClient') = Len(toClient) + Len(r) /\ Len(r) \in Nat
           /\ \A i \in Replies : i - Len(toClient) \in 1..Len(r)
                                 /\ toClient'[i] = r[i - Len(toClient)]
<1>1. toClient \in Seq(Lines) /\ Grew(toClient, toClient', r) /\ toClient' \in Seq(Lines)
  BY GrewByConcat DEF TypeOK
<1>2. Len(toClient) \in Nat /\ Len(toClient') \in Nat /\ Len(r) \in Nat BY <1>1
<1>3. RepliesGrow /\ Len(toClient') = Len(toClient) + Len(r) BY <1>1, <1>2 DEF Grew, RepliesGrow
<1>4. ASSUME NEW i \in Replies
      PROVE  i - Len(toClient) \in 1..Len(r) /\ toClient'[i] = r[i - Len(toClient)]
  <2> DEFINE k == i - Len(toClient)
  <2>1. k \in 1..Len(r) /\ i = Len(toClient) + k BY <1>2, <1>3 DEF Replies
  <2> HIDE DEF k
  <2>2. toClient'[Len(toClient) + k] = r[k] BY <1>1, <2>1 DEF Grew
  <2> QED BY <2>1, <2>2 DEF k
<1> QED BY <1>1, <1>2, <1>3, <1>4

\* No line answered.
LEMMA NoReply ==
    ASSUME TypeOK, toClient' = toClient \o <<>>
    PROVE  RepliesGrow /\ toClient' \in Seq(Lines) /\ Replies = {}
<1>1. toClient \in Seq(Lines) BY DEF TypeOK
<1>2. toClient' = toClient BY <1>1
<1>3. Len(toClient) \in Nat BY <1>1
<1> QED BY <1>1, <1>2, <1>3 DEF RepliesGrow, Replies

\* One line answered.
LEMMA OneReply ==
    ASSUME TypeOK, NEW m \in Lines, toClient' = toClient \o <<m>>
    PROVE  /\ RepliesGrow /\ toClient' \in Seq(Lines)
           /\ \A i \in Replies : toClient'[i] = m /\ i = Len(toClient')
           /\ Len(toClient') \in Replies
<1> DEFINE r == <<m>>
<1>1. r \in Seq(Lines) /\ Len(r) = 1 /\ r[1] = m BY ShortQueues, EmptyQueue
<1>2. toClient' = toClient \o r OBVIOUS
<1> HIDE DEF r
<1>3. /\ RepliesGrow /\ toClient' \in Seq(Lines)
      /\ Len(toClient') = Len(toClient) + Len(r)
      /\ \A i \in Replies : i - Len(toClient) \in 1..Len(r)
                            /\ toClient'[i] = r[i - Len(toClient)]
  BY <1>1, <1>2, GrewIsReplies
<1> QED BY <1>1, <1>3 DEF RepliesGrow, Replies

\* Two lines answered.
LEMMA TwoReplies ==
    ASSUME TypeOK, NEW m \in Lines, NEW n \in Lines, toClient' = toClient \o <<m, n>>
    PROVE  /\ RepliesGrow /\ toClient' \in Seq(Lines)
           /\ \A i \in Replies : \/ toClient'[i] = m /\ i = Len(toClient) + 1
                                 \/ toClient'[i] = n /\ i = Len(toClient) + 2
<1> DEFINE r == <<m, n>>
<1>1. r \in Seq(Lines) /\ Len(r) = 2 /\ r[1] = m /\ r[2] = n OBVIOUS
<1>2. toClient' = toClient \o r OBVIOUS
<1> HIDE DEF r
<1>3. /\ RepliesGrow /\ toClient' \in Seq(Lines)
      /\ Len(toClient') = Len(toClient) + Len(r)
      /\ \A i \in Replies : i - Len(toClient) \in 1..Len(r)
                            /\ toClient'[i] = r[i - Len(toClient)]
  BY <1>1, <1>2, GrewIsReplies
<1> QED BY <1>1, <1>3 DEF RepliesGrow, Replies

\* What every step of the server leaves alone, and the line it reads.
Serves ==
    /\ Read(toServer, toServer') /\ RepliesGrow
    /\ serv' = serv /\ refreshes' = refreshes /\ hist' = hist
    /\ 1 \in 1..Len(toServer) /\ Len(toServer) \in Nat

\* A list of capabilities in one line or two.
LEMMA ListEffect ==
    ASSUME TypeOK, ListCaps
    PROVE  /\ TypeOK' /\ Serves /\ toServer[1].line = "CAP LS"
           /\ \A i \in Replies : toClient'[i].line = "LS"
           /\ irc' = [irc EXCEPT !.caps = irc'.caps]
<1>1. /\ toServer[1].line = "CAP LS" /\ Read(toServer, Tail(toServer))
      /\ Tail(toServer) \in Seq(Asked) /\ 1 \in 1..Len(toServer) /\ Len(toServer) \in Nat
  BY HasAsked DEF ListCaps
<1>2. PICK offer \in Offers :
        /\ \/ Answer(<<[line |-> "LS", caps |-> offer, more |-> FALSE]>>)
           \/ \E first \in SUBSET offer :
                Answer(<<[line |-> "LS", caps |-> first, more |-> TRUE],
                         [line |-> "LS", caps |-> offer \ first, more |-> FALSE]>>)
        /\ irc' = [irc EXCEPT !.caps = offer]
  BY DEF ListCaps
<1>3. offer \in SUBSET Caps BY RegistrationAssumption
<1>4. irc \in Irc BY DEF TypeOK
<1>5. irc' \in Irc /\ irc'.caps = offer BY <1>2, <1>3, <1>4 DEF Irc
<1>6. \A c \in SUBSET Caps, b \in BOOLEAN : [line |-> "LS", caps |-> c, more |-> b] \in Lines
  BY DEF Lines
<1>7. /\ RepliesGrow /\ toClient' \in Seq(Lines) /\ toServer' = Tail(toServer)
      /\ \A i \in Replies : toClient'[i].line = "LS"
  <2>1. CASE Answer(<<[line |-> "LS", caps |-> offer, more |-> FALSE]>>)
    <3> DEFINE m == [line |-> "LS", caps |-> offer, more |-> FALSE]
    <3>1. m \in Lines /\ m.line = "LS" BY <1>3, <1>6
    <3>2. toClient' = toClient \o <<m>> /\ toServer' = Tail(toServer) BY <2>1 DEF Answer
    <3> HIDE DEF m
    <3> QED BY <3>1, <3>2, OneReply
  <2>2. CASE \E first \in SUBSET offer :
                Answer(<<[line |-> "LS", caps |-> first, more |-> TRUE],
                         [line |-> "LS", caps |-> offer \ first, more |-> FALSE]>>)
    <3>1. PICK first \in SUBSET offer :
                Answer(<<[line |-> "LS", caps |-> first, more |-> TRUE],
                         [line |-> "LS", caps |-> offer \ first, more |-> FALSE]>>)
      BY <2>2
    <3>2. first \in SUBSET Caps /\ offer \ first \in SUBSET Caps BY <1>3
    <3> DEFINE m == [line |-> "LS", caps |-> first, more |-> TRUE]
               n == [line |-> "LS", caps |-> offer \ first, more |-> FALSE]
    <3>3. m \in Lines /\ m.line = "LS" /\ n \in Lines /\ n.line = "LS" BY <1>6, <3>2
    <3>4. toClient' = toClient \o <<m, n>> /\ toServer' = Tail(toServer) BY <3>1 DEF Answer
    <3> HIDE DEF m, n
    <3>5. /\ RepliesGrow /\ toClient' \in Seq(Lines)
          /\ \A i \in Replies : toClient'[i] = m \/ toClient'[i] = n
      BY <3>3, <3>4, TwoReplies, Zenon
    <3> QED BY <3>3, <3>4, <3>5
  <2> QED BY <1>2, <2>1, <2>2
<1>8. login' = login /\ serv' = serv /\ refreshes' = refreshes /\ hist' = hist
  BY DEF ListCaps, ServKeeps
<1>9. TypeOK' BY <1>1, <1>5, <1>7, <1>8 DEF TypeOK
<1> QED BY <1>1, <1>2, <1>5, <1>7, <1>8, <1>9 DEF Serves

\* A request is granted or not.
LEMMA GrantEffect ==
    ASSUME TypeOK, GrantCaps
    PROVE  /\ TypeOK' /\ Serves /\ toServer[1].line = "REQ"
           /\ \A i \in Replies : i = Len(toClient')
           /\ \/ /\ irc' = [irc EXCEPT !.granted = irc'.granted]
                 /\ irc'.granted <=> irc.granted \/ (~irc.ended /\ "sasl" \in toServer[1].caps)
                 /\ \A i \in Replies : toClient'[i].line = "ACK"
                                       /\ toClient'[i].caps = toServer[1].caps
              \/ /\ irc' = irc
                 /\ \A i \in Replies : toClient'[i].line = "NAK"
                                       /\ toClient'[i].caps = toServer[1].caps
<1>1. /\ toServer[1].line = "REQ" /\ Read(toServer, Tail(toServer)) /\ toServer[1] \in Asked
      /\ Tail(toServer) \in Seq(Asked) /\ 1 \in 1..Len(toServer) /\ Len(toServer) \in Nat
  BY HasAsked DEF GrantCaps
<1> DEFINE caps == toServer[1].caps
           ack == [line |-> "ACK", caps |-> caps]
           nak == [line |-> "NAK", caps |-> caps]
           g == irc.granted \/ (~irc.ended /\ "sasl" \in caps)
<1>2. caps \in SUBSET Caps BY <1>1 DEF Asked
<1>3. irc \in Irc BY DEF TypeOK
<1>4. \/ Answer(<<ack>>) /\ irc' = [irc EXCEPT !.granted = g]
      \/ Answer(<<nak>>) /\ irc' = irc
  BY <1>3 DEF GrantCaps, Irc
<1>5. login' = login /\ serv' = serv /\ refreshes' = refreshes /\ hist' = hist
  BY DEF GrantCaps, ServKeeps
<1>6. g \in BOOLEAN /\ (g <=> irc.granted \/ (~irc.ended /\ "sasl" \in caps)) OBVIOUS
<1> HIDE DEF caps
<1>7. ack \in Lines /\ nak \in Lines BY <1>2 DEF Lines
<1>8. ack.line = "ACK" /\ ack.caps = caps /\ nak.line = "NAK" /\ nak.caps = caps OBVIOUS
<1> HIDE DEF ack, nak, g
<1>9. CASE Answer(<<ack>>) /\ irc' = [irc EXCEPT !.granted = g]
  <2>1. toClient' = toClient \o <<ack>> /\ toServer' = Tail(toServer) BY <1>9 DEF Answer
  <2>2. /\ RepliesGrow /\ toClient' \in Seq(Lines)
        /\ \A i \in Replies : toClient'[i] = ack /\ i = Len(toClient')
    BY <1>7, <2>1, OneReply
  <2>3. irc' \in Irc /\ irc'.granted = g BY <1>3, <1>6, <1>9 DEF Irc
  <2>4. TypeOK' BY <1>1, <1>5, <2>1, <2>2, <2>3 DEF TypeOK
  <2> QED BY <1>1, <1>5, <1>6, <1>8, <1>9, <2>1, <2>2, <2>3, <2>4 DEF Serves, caps
<1>10. CASE Answer(<<nak>>) /\ irc' = irc
  <2>1. toClient' = toClient \o <<nak>> /\ toServer' = Tail(toServer) BY <1>10 DEF Answer
  <2>2. /\ RepliesGrow /\ toClient' \in Seq(Lines)
        /\ \A i \in Replies : toClient'[i] = nak /\ i = Len(toClient')
    BY <1>7, <2>1, OneReply
  <2>4. TypeOK' BY <1>1, <1>5, <1>10, <2>1, <2>2 DEF TypeOK
  <2> QED BY <1>1, <1>5, <1>8, <1>10, <2>1, <2>2, <2>4 DEF Serves, caps
<1> QED BY <1>4, <1>9, <1>10

\* The lines of the server that are a word only.
LEMMA PlainLines ==
    \A l \in {"AUTHENTICATE", "MECHS", "903", "904", "906", "907", "001", "ATTACH", "BATCH"} :
        Line(l) \in Lines /\ Line(l).line = l
BY DEF Line, Lines

\* A step of the SASL exchange: what it leaves and what it answers.
Exchanged(n) ==
    /\ \A i \in Replies : toClient'[i].line \in {n, "MECHS"}
    /\ irc'.granted = irc.granted /\ irc'.attach = irc.attach /\ irc'.ended = irc.ended
    /\ irc.sasl = "done" => irc'.sasl = "done"
    /\ irc.sasl # "idle" \/ toServer[1].line = "MECH" => irc'.sasl # "idle"
    /\ n = "903" => irc'.sasl = "done"
    /\ n = "AUTHENTICATE" =>
        (toServer[1].line = "MECH" \/ irc.sasl = "selected") /\ irc'.sasl = "selected"
    /\ n # "AUTHENTICATE" =>
        irc'.sasl \in {"failed", "done"} \/ (irc.sasl = "idle" /\ irc'.sasl = "idle")
    /\ irc'.sasl \in {"idle", "selected"} =>
        irc.sasl \in {"idle", "selected"} \/ toServer[1].line = "MECH"

\* Authenticate, as a step of the exchange.
LEMMA ExchangeEffect ==
    ASSUME TypeOK, Authenticate
    PROVE  /\ TypeOK' /\ Serves /\ toServer[1].line \in {"MECH", "PAYLOAD", "ABORT"}
           /\ \E n \in {"903", "904", "906", "907", "AUTHENTICATE"} : Exchanged(n)
<1>1. /\ toServer[1].line \in {"MECH", "PAYLOAD", "ABORT"} /\ Read(toServer, Tail(toServer))
      /\ Tail(toServer) \in Seq(Asked) /\ 1 \in 1..Len(toServer) /\ Len(toServer) \in Nat
  BY HasAsked DEF Authenticate
<1>2. irc \in Irc BY DEF TypeOK
<1>3. login' = login /\ serv' = serv /\ refreshes' = refreshes /\ hist' = hist
  BY DEF Authenticate, ServKeeps
<1> DEFINE Table(st, n) ==
        \/ irc.sasl = "done" /\ st = "done" /\ n = "907"
        \/ /\ irc.sasl = "selected"
           /\ \/ st = "done" /\ n = "903"
              \/ st = "selected" /\ n = "AUTHENTICATE"
              \/ st = "failed" /\ n \in {"904", "906"}
        \/ /\ irc.sasl \in {"idle", "failed"}
           /\ \/ toServer[1].line = "MECH" /\ st = "selected" /\ n = "AUTHENTICATE"
              \/ toServer[1].line = "MECH" /\ st = "failed" /\ n = "904"
              \/ toServer[1].line # "MECH" /\ st = irc.sasl /\ n \in {"904", "906"}
           Moves(st, k) == irc' = [irc EXCEPT !.sasl = st, !.rounds = k]
           Told(n) == \/ Answer(<<Line(n)>>)
                      \/ n = "AUTHENTICATE" /\ Answer(<<Line("MECHS"), Line(n)>>)
<1>4. \E st \in {"idle", "selected", "failed", "done"},
         n \in {"903", "904", "906", "907", "AUTHENTICATE"}, k \in 0..MaxRounds :
        Table(st, n) /\ Moves(st, k) /\ Told(n)
  <2>1. /\ irc.sasl \in {"idle", "selected", "failed", "done"} /\ irc.rounds \in 0..MaxRounds
        /\ MaxRounds \in Nat
    BY <1>2, RegistrationAssumption DEF Irc
  <2> DEFINE Rests(st, n) == irc' = [irc EXCEPT !.sasl = st] /\ Answer(<<Line(n)>>)
  <2>2. \/ \E st \in {"idle", "selected", "failed", "done"},
              n \in {"903", "904", "906", "907", "AUTHENTICATE"} : Table(st, n) /\ Rests(st, n)
        \/ /\ irc.sasl = "selected" /\ irc.rounds < MaxRounds
           /\ irc' = [irc EXCEPT !.rounds = irc.rounds + 1] /\ Answer(<<Line("AUTHENTICATE")>>)
        \/ /\ irc.sasl \in {"idle", "failed"} /\ toServer[1].line = "MECH"
           /\ irc' = [irc EXCEPT !.sasl = "selected"]
           /\ Answer(<<Line("MECHS"), Line("AUTHENTICATE")>>)
    BY <1>1, <1>2, <2>1 DEF Authenticate, Irc
  <2>3. CASE \E st \in {"idle", "selected", "failed", "done"},
               n \in {"903", "904", "906", "907", "AUTHENTICATE"} : Table(st, n) /\ Rests(st, n)
    <3>1. PICK st \in {"idle", "selected", "failed", "done"},
               n \in {"903", "904", "906", "907", "AUTHENTICATE"} : Table(st, n) /\ Rests(st, n)
      BY <2>3
    <3>2. Moves(st, irc.rounds) BY <1>2, <3>1 DEF Irc
    <3> HIDE DEF Table
    <3> QED BY <2>1, <3>1, <3>2
  <2>4. CASE /\ irc.sasl = "selected" /\ irc.rounds < MaxRounds
             /\ irc' = [irc EXCEPT !.rounds = irc.rounds + 1] /\ Answer(<<Line("AUTHENTICATE")>>)
    <3>1. irc.rounds + 1 \in 0..MaxRounds BY <2>1, <2>4
    <3>2. Moves("selected", irc.rounds + 1) BY <1>2, <2>4 DEF Irc
    <3>3. Table("selected", "AUTHENTICATE") /\ Told("AUTHENTICATE") BY <2>4
    <3> HIDE DEF Table, Moves, Told
    <3> QED BY <3>1, <3>2, <3>3
  <2>5. CASE /\ irc.sasl \in {"idle", "failed"} /\ toServer[1].line = "MECH"
             /\ irc' = [irc EXCEPT !.sasl = "selected"]
             /\ Answer(<<Line("MECHS"), Line("AUTHENTICATE")>>)
    <3>1. Moves("selected", irc.rounds) BY <1>2, <2>5 DEF Irc
    <3>2. Table("selected", "AUTHENTICATE") /\ Told("AUTHENTICATE") BY <2>5
    <3> HIDE DEF Table, Moves, Told
    <3> QED BY <2>1, <3>1, <3>2
  <2> QED BY <2>2, <2>3, <2>4, <2>5
<1>5. PICK st \in {"idle", "selected", "failed", "done"},
           n \in {"903", "904", "906", "907", "AUTHENTICATE"}, k \in 0..MaxRounds :
        Table(st, n) /\ Moves(st, k) /\ Told(n)
  BY <1>4
<1> DEFINE m == Line(n)
           list == Line("MECHS")
<1>6. m \in Lines /\ m.line = n /\ list \in Lines /\ list.line = "MECHS" BY PlainLines
<1>7. /\ toServer' = Tail(toServer)
      /\ toClient' = toClient \o <<m>> \/ toClient' = toClient \o <<list, m>>
  BY <1>5 DEF Answer
<1> HIDE DEF m, list
<1>8. /\ RepliesGrow /\ toClient' \in Seq(Lines)
      /\ \A i \in Replies : toClient'[i] = m \/ toClient'[i] = list
  <2>1. CASE toClient' = toClient \o <<m>> BY <1>6, <2>1, OneReply
  <2>2. CASE toClient' = toClient \o <<list, m>>
    <3>1. m \in Lines /\ list \in Lines BY <1>6
    <3>2. /\ RepliesGrow /\ toClient' \in Seq(Lines)
          /\ \A i \in Replies : \/ toClient'[i] = list /\ i = Len(toClient) + 1
                                \/ toClient'[i] = m /\ i = Len(toClient) + 2
      BY <2>2, <3>1, TwoReplies, Zenon
    <3> QED BY <3>2
  <2> QED BY <1>7, <2>1, <2>2
<1>9. /\ irc' \in Irc /\ irc'.sasl = st
      /\ irc'.granted = irc.granted /\ irc'.attach = irc.attach /\ irc'.ended = irc.ended
  <2>1. irc' = [irc EXCEPT !.sasl = st, !.rounds = k] BY <1>5
  <2> QED BY <1>2, <1>5, <2>1 DEF Irc
<1>10. TypeOK' BY <1>1, <1>3, <1>7, <1>8, <1>9 DEF TypeOK
<1>11. Exchanged(n)
  <2>1. \A i \in Replies : toClient'[i].line \in {n, "MECHS"} BY <1>6, <1>8
  <2>3. irc.sasl \in {"idle", "selected", "failed", "done"} BY <1>2 DEF Irc
  <2> HIDE DEF Table
  <2>4. Table(st, n) BY <1>5
  <2> QED BY <1>1, <1>9, <2>1, <2>3, <2>4 DEF Exchanged, Table
<1> QED BY <1>1, <1>3, <1>5, <1>7, <1>8, <1>10, <1>11 DEF Serves

\* The server takes the ATTACH or refuses it.
LEMMA AttachEffect ==
    ASSUME TypeOK, TakeAttach
    PROVE  /\ TypeOK' /\ Serves /\ toServer[1].line = "ATTACH" /\ toServer[1].cursor \in BOOLEAN
           /\ \/ /\ irc' = [irc EXCEPT !.attach =
                                IF toServer[1].cursor THEN "cursor" ELSE "plain"]
                 /\ \A i \in Replies : toClient'[i].line = "ATTACH"
              \/ \E code \in Codes :
                    /\ irc' = [irc EXCEPT !.attach = code]
                    /\ \A i \in Replies :
                        /\ toClient'[i].line = "FAIL" /\ toClient'[i].own
                        /\ toClient'[i].code = code /\ i = Len(toClient')
                    /\ Len(toClient') \in Replies
<1>1. /\ toServer[1].line = "ATTACH" /\ Read(toServer, Tail(toServer)) /\ toServer[1] \in Asked
      /\ Tail(toServer) \in Seq(Asked) /\ 1 \in 1..Len(toServer) /\ Len(toServer) \in Nat
  BY HasAsked DEF TakeAttach
<1>2. irc \in Irc /\ toServer[1].cursor \in BOOLEAN BY <1>1 DEF TypeOK, Asked
<1>3. login' = login /\ serv' = serv /\ refreshes' = refreshes /\ hist' = hist
  BY DEF TakeAttach, ServKeeps
<1>4. CASE /\ irc' = [irc EXCEPT !.attach = IF toServer[1].cursor THEN "cursor" ELSE "plain"]
           /\ Answer(<<Line("ATTACH")>>) \/ Answer(<<>>)
  <2> DEFINE m == Line("ATTACH")
             a == IF toServer[1].cursor THEN "cursor" ELSE "plain"
  <2>1. m \in Lines /\ m.line = "ATTACH" BY PlainLines
  <2>2. /\ toServer' = Tail(toServer)
        /\ toClient' = toClient \o <<m>> \/ toClient' = toClient \o <<>>
    BY <1>4 DEF Answer
  <2>3. a \in {"cursor", "plain"} /\ irc' = [irc EXCEPT !.attach = a] BY <1>4
  <2> HIDE DEF m, a
  <2>4. /\ RepliesGrow /\ toClient' \in Seq(Lines)
        /\ \A i \in Replies : toClient'[i].line = "ATTACH"
    BY <2>1, <2>2, OneReply, NoReply
  <2>5. irc' \in Irc BY <1>2, <2>3 DEF Irc
  <2>6. TypeOK' BY <1>1, <1>3, <2>2, <2>4, <2>5 DEF TypeOK
  <2> QED BY <1>1, <1>2, <1>3, <1>4, <2>2, <2>4, <2>6 DEF Serves
<1>5. CASE \E code \in Codes :
            /\ irc' = [irc EXCEPT !.attach = code]
            /\ Answer(<<[line |-> "FAIL", code |-> code, own |-> TRUE]>>)
  <2>1. PICK code \in Codes :
            /\ irc' = [irc EXCEPT !.attach = code]
            /\ Answer(<<[line |-> "FAIL", code |-> code, own |-> TRUE]>>)
    BY <1>5
  <2> DEFINE m == [line |-> "FAIL", code |-> code, own |-> TRUE]
  <2>2. m \in Lines /\ m.line = "FAIL" /\ m.own /\ m.code = code BY DEF Lines
  <2>3. toClient' = toClient \o <<m>> /\ toServer' = Tail(toServer) BY <2>1 DEF Answer
  <2> HIDE DEF m
  <2>4. /\ RepliesGrow /\ toClient' \in Seq(Lines) /\ Len(toClient') \in Replies
        /\ \A i \in Replies : toClient'[i] = m /\ i = Len(toClient')
    BY <2>2, <2>3, OneReply
  <2>5. irc' \in Irc BY <1>2, <2>1 DEF Irc
  <2>6. TypeOK' BY <1>1, <1>3, <2>3, <2>4, <2>5 DEF TypeOK
  <2>7. \A i \in Replies : /\ toClient'[i].line = "FAIL" /\ toClient'[i].own
                           /\ toClient'[i].code = code /\ i = Len(toClient')
    BY <2>2, <2>4
  <2> QED BY <1>1, <1>2, <1>3, <2>1, <2>3, <2>4, <2>6, <2>7 DEF Serves
<1> QED BY <1>4, <1>5 DEF TakeAttach

\* CAP END is answered with the welcome, the first time.
LEMMA EndCapsEffect ==
    ASSUME TypeOK, EndCaps
    PROVE  /\ TypeOK' /\ Serves /\ toServer[1].line = "CAP END"
           /\ irc' = [irc EXCEPT !.ended = TRUE]
           /\ \A i \in Replies : toClient'[i].line \in {"001", "BATCH"}
<1>1. /\ toServer[1].line = "CAP END" /\ Read(toServer, Tail(toServer))
      /\ Tail(toServer) \in Seq(Asked) /\ 1 \in 1..Len(toServer) /\ Len(toServer) \in Nat
  BY HasAsked DEF EndCaps
<1>2. irc \in Irc BY DEF TypeOK
<1>3. login' = login /\ serv' = serv /\ refreshes' = refreshes /\ hist' = hist
        /\ irc' = [irc EXCEPT !.ended = TRUE]
  BY DEF EndCaps, ServKeeps
<1> DEFINE m == Line("001")
           n == Line("BATCH")
<1>4. m \in Lines /\ m.line = "001" /\ n \in Lines /\ n.line = "BATCH" BY PlainLines
<1>5. /\ toServer' = Tail(toServer)
      /\ \/ toClient' = toClient \o <<>> \/ toClient' = toClient \o <<m>>
         \/ toClient' = toClient \o <<m, n>>
  BY DEF EndCaps, Answer
<1> HIDE DEF m, n
<1>6. /\ RepliesGrow /\ toClient' \in Seq(Lines)
      /\ \A i \in Replies : toClient'[i] = m \/ toClient'[i] = n
  <2>1. CASE toClient' = toClient \o <<>> BY <2>1, NoReply
  <2>2. CASE toClient' = toClient \o <<m>> BY <1>4, <2>2, OneReply
  <2>3. CASE toClient' = toClient \o <<m, n>>
    <3>1. m \in Lines /\ n \in Lines BY <1>4
    <3>2. /\ RepliesGrow /\ toClient' \in Seq(Lines)
          /\ \A i \in Replies : \/ toClient'[i] = m /\ i = Len(toClient) + 1
                                \/ toClient'[i] = n /\ i = Len(toClient) + 2
      BY <2>3, <3>1, TwoReplies, Zenon
    <3> QED BY <3>2
  <2> QED BY <1>5, <2>1, <2>2, <2>3
<1>7. irc' \in Irc BY <1>2, <1>3 DEF Irc
<1>8. TypeOK' BY <1>1, <1>3, <1>5, <1>6, <1>7 DEF TypeOK
<1> QED BY <1>1, <1>3, <1>4, <1>5, <1>6, <1>8 DEF Serves

\* The user's command is refused or answered by nothing that matters.
LEMMA TakeCommandEffect ==
    ASSUME TypeOK, TakeCommand
    PROVE  /\ TypeOK' /\ Serves /\ toServer[1].line = "PERSISTENCE" /\ irc' = irc
           /\ \A i \in Replies : toClient'[i].line = "FAIL" /\ ~toClient'[i].own
<1>1. /\ toServer[1].line = "PERSISTENCE" /\ Read(toServer, Tail(toServer))
      /\ Tail(toServer) \in Seq(Asked) /\ 1 \in 1..Len(toServer) /\ Len(toServer) \in Nat
  BY HasAsked DEF TakeCommand
<1>2. login' = login /\ serv' = serv /\ refreshes' = refreshes /\ hist' = hist /\ irc' = irc
  BY DEF TakeCommand, ServKeeps
<1>3. CASE Answer(<<>>)
  <2>1. toServer' = Tail(toServer) /\ toClient' = toClient \o <<>> BY <1>3 DEF Answer
  <2>2. RepliesGrow /\ toClient' \in Seq(Lines) /\ Replies = {} BY <2>1, NoReply
  <2>3. TypeOK' BY <1>1, <1>2, <2>1, <2>2 DEF TypeOK
  <2> QED BY <1>1, <1>2, <2>1, <2>2, <2>3 DEF Serves
<1>4. CASE \E code \in Codes : Answer(<<[line |-> "FAIL", code |-> code, own |-> FALSE]>>)
  <2>1. PICK code \in Codes : Answer(<<[line |-> "FAIL", code |-> code, own |-> FALSE]>>)
    BY <1>4
  <2> DEFINE m == [line |-> "FAIL", code |-> code, own |-> FALSE]
  <2>2. m \in Lines /\ m.line = "FAIL" /\ ~m.own BY DEF Lines
  <2>3. toClient' = toClient \o <<m>> /\ toServer' = Tail(toServer) BY <2>1 DEF Answer
  <2> HIDE DEF m
  <2>4. /\ RepliesGrow /\ toClient' \in Seq(Lines) /\ \A i \in Replies : toClient'[i] = m
    BY <2>2, <2>3, OneReply
  <2>5. TypeOK' BY <1>1, <1>2, <2>3, <2>4 DEF TypeOK
  <2> QED BY <1>1, <1>2, <2>2, <2>3, <2>4, <2>5 DEF Serves
<1> QED BY <1>3, <1>4 DEF TakeCommand

\* cap-notify tells of a capability that came or went.
LEMMA NotifyEffect ==
    ASSUME TypeOK, Notify
    PROVE  /\ TypeOK' /\ RepliesGrow /\ serv.connected
           /\ toServer' = toServer /\ serv' = serv /\ refreshes' = refreshes
           /\ irc' = [irc EXCEPT !.caps = irc'.caps]
           /\ \A i \in Replies : toClient'[i].line \in {"LS", "DEL"}
           /\ hist'.stale = hist.stale /\ hist'.early = hist.early /\ hist'.asked = hist.asked
<1>1. irc \in Irc /\ hist \in Hist /\ toClient \in Seq(Lines) BY DEF TypeOK, Hist
<1>2. /\ serv.connected /\ hist.events < MaxEvents /\ login' = login /\ serv' = serv
      /\ toServer' = toServer /\ refreshes' = refreshes
      /\ hist' = [hist EXCEPT !.events = hist.events + 1]
  BY <1>1 DEF Notify, Hist
<1>3. hist.events + 1 \in 0..MaxEvents BY <1>1, <1>2, RegistrationAssumption DEF Hist
<1>4. /\ hist' \in Hist /\ hist'.stale = hist.stale /\ hist'.early = hist.early
      /\ hist'.asked = hist.asked
  <2> DEFINE e == hist.events + 1
  <2>1. hist' = [hist EXCEPT !.events = e] /\ e \in 0..MaxEvents BY <1>2, <1>3
  <2> HIDE DEF e
  <2> QED BY <1>1, <2>1 DEF Hist
<1>5. PICK c \in {"sasl", "persistence"} :
        \/ /\ toClient' = Append(toClient, [line |-> "LS", caps |-> {c}, more |-> FALSE])
           /\ irc' = [irc EXCEPT !.caps = @ \cup {c}]
        \/ /\ toClient' = Append(toClient, [line |-> "DEL", caps |-> {c}])
           /\ irc' = [irc EXCEPT !.caps = @ \ {c}]
  BY DEF Notify
<1>6. irc' \in Irc /\ irc' = [irc EXCEPT !.caps = irc'.caps]
  <2>1. irc.caps \in SUBSET Caps /\ c \in Caps BY <1>1 DEF Irc, Caps
  <2>2. PICK e \in SUBSET Caps : irc' = [irc EXCEPT !.caps = e] BY <1>5, <2>1
  <2>3. irc'.caps = e BY <1>1, <2>2 DEF Irc
  <2>4. irc' \in Irc BY <1>1, <2>2 DEF Irc
  <2> QED BY <2>2, <2>3, <2>4
<1> DEFINE m == [line |-> "LS", caps |-> {c}, more |-> FALSE]
           n == [line |-> "DEL", caps |-> {c}]
<1>7. m \in Lines /\ m.line = "LS" /\ n \in Lines /\ n.line = "DEL" BY DEF Lines, Caps
<1>8. toClient' = Append(toClient, m) \/ toClient' = Append(toClient, n) BY <1>5
<1> HIDE DEF m, n
<1>9. toClient' = toClient \o <<m>> \/ toClient' = toClient \o <<n>>
  BY <1>1, <1>7, <1>8, AppendIsConcat
<1>10. /\ RepliesGrow /\ toClient' \in Seq(Lines)
       /\ \A i \in Replies : toClient'[i] = m \/ toClient'[i] = n
  <2>1. CASE toClient' = toClient \o <<m>> BY <1>7, <2>1, OneReply
  <2>2. CASE toClient' = toClient \o <<n>> BY <1>7, <2>2, OneReply
  <2> QED BY <1>9, <2>1, <2>2
<1>11. TypeOK' BY <1>2, <1>4, <1>6, <1>10 DEF TypeOK, Hist
<1> QED BY <1>2, <1>4, <1>6, <1>7, <1>10, <1>11

-----------------------------------------------------------------------------
(***************************************************************************)
(* A step is one of the following.                                         *)
(***************************************************************************)
Links == Opens /\ (serv'.use_ssl = FALSE \/ serv'.sts_upgrade => serv'.conn <= MaxConns)
Drops ==
    /\ ~serv'.connected /\ toServer' = <<>> /\ toClient' = <<>> /\ irc' = NewIrc
    /\ ~serv'.attached /\ ~serv'.cursor_sent /\ ~serv'.attach_pending
    /\ serv'.conn = serv.conn /\ serv'.use_ssl = serv.use_ssl
    /\ serv'.sts_upgrade = serv.sts_upgrade /\ refreshes' = refreshes
Negotiates == \E want \in SUBSET Caps, ends \in BOOLEAN : AsksFor(want, ends)
Refused == Msg.line = "NAK" /\ \E ends \in BOOLEAN : Naks(ends)
Finishes ==
    \/ Over(TRUE) /\ Msg.line = "903"
    \/ Over(FALSE) /\ Msg.line \in {"904", "906", "907"}
\* A step of the client's handlers; the connection is up.
Handler ==
    /\ serv.connected /\ 1 \in 1..Len(toClient) /\ Len(toClient') \in Nat /\ Msg = toClient[1]
    /\ \/ Negotiates /\ Msg.line = "LS"
       \/ Toggles /\ Msg.line \in {"ACK", "DEL"}
       \/ Refused
       \/ Answers
       \/ Finishes
       \/ Refreshing /\ Msg.line = "904"
       \/ /\ Flags
          /\ Welcome \/ persistence_handle_reply \/ persistence_handle_fail \/ ReplayBegins
Lists ==
    /\ toServer[1].line = "CAP LS" /\ \A i \in Replies : toClient'[i].line = "LS"
    /\ irc' = [irc EXCEPT !.caps = irc'.caps]
Grants ==
    /\ toServer[1].line = "REQ" /\ \A i \in Replies : i = Len(toClient')
    /\ \/ /\ irc' = [irc EXCEPT !.granted = irc'.granted]
          /\ irc'.granted <=> irc.granted \/ (~irc.ended /\ "sasl" \in toServer[1].caps)
          /\ \A i \in Replies : toClient'[i].line = "ACK"
                                /\ toClient'[i].caps = toServer[1].caps
       \/ /\ irc' = irc
          /\ \A i \in Replies : toClient'[i].line = "NAK"
                                /\ toClient'[i].caps = toServer[1].caps
Exchanges ==
    /\ toServer[1].line \in {"MECH", "PAYLOAD", "ABORT"}
    /\ \E n \in {"903", "904", "906", "907", "AUTHENTICATE"} : Exchanged(n)
Takes ==
    /\ toServer[1].line = "ATTACH" /\ toServer[1].cursor \in BOOLEAN
    /\ \/ /\ irc' = [irc EXCEPT !.attach = IF toServer[1].cursor THEN "cursor" ELSE "plain"]
          /\ \A i \in Replies : toClient'[i].line = "ATTACH"
       \/ \E code \in Codes :
            /\ irc' = [irc EXCEPT !.attach = code]
            /\ \A i \in Replies :
                /\ toClient'[i].line = "FAIL" /\ toClient'[i].own
                /\ toClient'[i].code = code /\ i = Len(toClient')
            /\ Len(toClient') \in Replies
Welcomes ==
    /\ toServer[1].line = "CAP END" /\ irc' = [irc EXCEPT !.ended = TRUE]
    /\ \A i \in Replies : toClient'[i].line \in {"001", "BATCH"}
Replied ==
    /\ toServer[1].line = "PERSISTENCE" /\ irc' = irc
    /\ \A i \in Replies : toClient'[i].line = "FAIL" /\ ~toClient'[i].own
\* A step of the server.
Service ==
    /\ serv.connected /\ Serves /\ Len(toServer') \in Nat
    /\ Lists \/ Grants \/ Exchanges \/ Takes \/ Welcomes \/ Replied
Notifies ==
    /\ RepliesGrow /\ serv.connected /\ toServer' = toServer /\ serv' = serv
    /\ refreshes' = refreshes /\ irc' = [irc EXCEPT !.caps = irc'.caps]
    /\ \A i \in Replies : toClient'[i].line \in {"LS", "DEL"}
    /\ hist'.stale = hist.stale /\ hist'.early = hist.early /\ hist'.asked = hist.asked
Step ==
    \/ Links \/ Drops \/ Handler \/ (\E k \in 1..MaxConns + 1 : Retried(k))
    \/ (Commands /\ serv.connected) \/ Service \/ Notifies

\* Every step of the specification is one of these and keeps the types.
LEMMA StepCases ==
    ASSUME TypeOK, Quiet, Counted, Next
    PROVE  TypeOK' /\ Step
<1>1. ASSUME TypeOK', Opens, serv'.use_ssl, ~serv'.sts_upgrade PROVE Links
  BY <1>1 DEF Links
<1>2. ASSUME TypeOK', toClient # <<>>
      PROVE  /\ serv.connected /\ 1 \in 1..Len(toClient) /\ Len(toClient') \in Nat
             /\ Msg = toClient[1]
  <2>1. toClient \in Seq(Lines) /\ toClient' \in Seq(Lines) BY <1>2 DEF TypeOK
  <2> QED BY <1>2, <2>1 DEF Quiet, Msg
<1>3. ASSUME TypeOK', 1 \in 1..Len(toServer)
      PROVE  serv.connected /\ Len(toServer') \in Nat
  <2>1. toServer' \in Seq(Asked) BY <1>3 DEF TypeOK
  <2>2. toServer # <<>> BY <1>3
  <2> QED BY <2>1, <2>2 DEF Quiet
<1>4. CASE Connect BY <1>4, ConnectEffect DEF Step, Links
<1>5. CASE Lost BY <1>5, LostEffect DEF Step, Drops
<1>6. CASE inbound_cap_ls
  <2>1. toClient # <<>> /\ Msg.line = "LS" BY <1>6, HasLine DEF inbound_cap_ls
  <2> QED BY <1>1, <1>2, <1>6, <2>1, LsEffect DEF Step, Handler, Negotiates
<1>7. CASE inbound_toggle_caps BY <1>2, <1>7, ToggleEffect DEF Step, Handler
<1>8. CASE inbound_cap_nak BY <1>1, <1>2, <1>8, NakEffect DEF Step, Handler, Refused
<1>9. CASE inbound_sasl_authenticate BY <1>2, <1>9, AuthenticateEffect DEF Step, Handler
<1>10. CASE Sasl903 BY <1>2, <1>10, Over903 DEF Step, Handler, Finishes
<1>11. CASE Sasl906 BY <1>2, <1>11, Over906 DEF Step, Handler, Finishes
<1>12. CASE Sasl904
  <2>1. toClient # <<>> BY <1>12, HasLine DEF Sasl904
  <2>2. serv.connected BY <2>1 DEF Quiet
  <2> QED BY <1>2, <1>12, <2>1, <2>2, Over904 DEF Step, Handler, Finishes
<1>13. CASE Welcome \/ persistence_handle_reply \/ persistence_handle_fail \/ ReplayBegins
  <2>1. TypeOK' /\ Flags /\ toClient # <<>> BY <1>13, FlagEffects
  <2> QED BY <1>2, <1>13, <2>1 DEF Step, Handler
<1>14. CASE Refreshed BY <1>14, RetryEffect DEF Refreshed, Step
<1>15. CASE cmd_persistence BY <1>15, CommandEffect DEF Step
<1>16. CASE ListCaps BY <1>3, <1>16, ListEffect DEF Step, Service, Lists, Serves
<1>17. CASE GrantCaps
  <2>1. TypeOK' /\ Serves /\ Grants BY <1>17, GrantEffect DEF Grants
  <2> QED BY <1>3, <2>1 DEF Step, Service, Serves
<1>18. CASE Authenticate BY <1>3, <1>18, ExchangeEffect DEF Step, Service, Exchanges, Serves
<1>19. CASE TakeAttach
  <2>1. TypeOK' /\ Serves /\ Takes BY <1>19, AttachEffect DEF Takes
  <2> QED BY <1>3, <2>1 DEF Step, Service, Serves
<1>20. CASE EndCaps BY <1>3, <1>20, EndCapsEffect DEF Step, Service, Welcomes, Serves
<1>21. CASE TakeCommand BY <1>3, <1>21, TakeCommandEffect DEF Step, Service, Replied, Serves
<1>22. CASE Notify BY <1>22, NotifyEffect DEF Step, Notifies
<1> QED BY <1>4, <1>5, <1>6, <1>7, <1>8, <1>9, <1>10, <1>11, <1>12, <1>13, <1>14, <1>15,
           <1>16, <1>17, <1>18, <1>19, <1>20, <1>21, <1>22 DEF Next, Client, Server

\* A stuttering step keeps everything.
LEMMA Stutter ==
    ASSUME UNCHANGED vars
    PROVE  /\ TypeOK <=> TypeOK'
           /\ Quiet <=> Quiet'
           /\ Counted <=> Counted'
           /\ EndInv <=> EndInv'
           /\ AttachInv <=> AttachInv'
           /\ GateInv <=> GateInv'
           /\ OneRequest <=> OneRequest'
           /\ WaitInv <=> WaitInv'
<1>1. TypeOK <=> TypeOK' BY DEF vars, TypeOK
<1>2. (Quiet <=> Quiet') /\ (Counted <=> Counted') BY DEF vars, Quiet, Counted
<1>3. EndInv <=> EndInv' BY DEF vars, EndInv, On
<1>4. AttachInv <=> AttachInv' BY DEF vars, AttachInv, On
<1>5. GateInv <=> GateInv' BY DEF vars, GateInv, On, OwnFail, HasFail, FailFirst
<1>6. OneRequest <=> OneRequest' BY DEF vars, OneRequest, Watched, RequestNow, Has, Once, Sasl
<1>7. WaitInv <=> WaitInv' BY DEF vars, WaitInv, Watched, WaitNow, Sasl
<1> QED BY <1>1, <1>2, <1>3, <1>4, <1>5, <1>6, <1>7

\* What every step keeps: the quiet between connections and the number of connections.
LEMMA BaseStep ==
    ASSUME TypeOK, Quiet, Counted, Step
    PROVE  Quiet' /\ Counted'
<1>1. serv \in Serv /\ serv.conn \in Nat /\ MaxConns \in Nat
  BY RegistrationAssumption DEF TypeOK, Serv
<1>2. CASE Links
  <2>1. serv'.conn = serv.conn + 1 /\ serv'.connected /\ refreshes' = refreshes
    BY <1>2 DEF Links, Opens
  <2>2. serv'.use_ssl = FALSE \/ serv'.sts_upgrade => serv'.conn <= MaxConns
    BY <1>2 DEF Links
  <2> QED BY <1>1, <2>1, <2>2 DEF Quiet, Counted
<1>3. CASE Drops BY <1>3 DEF Drops, Quiet, Counted
<1>4. CASE Handler
  <2>1. /\ serv'.connected /\ serv.connected /\ serv'.conn = serv.conn
        /\ serv'.use_ssl = serv.use_ssl /\ refreshes' \subseteq refreshes \cup {serv.conn}
        /\ serv'.sts_upgrade => serv.sts_upgrade \/ ~serv.use_ssl
    BY <1>4 DEF Handler, Negotiates, AsksFor, Toggles, Refused, Naks, Answers, Finishes, Over,
                Refreshing, Flags, SameFlags
  <2>2. serv.use_ssl \in BOOLEAN BY <1>1 DEF Serv
  <2>3. serv.conn \in 1..serv.conn BY <1>1, <2>1 DEF Counted
  <2> QED BY <1>1, <2>1, <2>2, <2>3 DEF Quiet, Counted
<1>5. CASE \E k \in 1..MaxConns + 1 : Retried(k)
  <2>1. /\ SameFlags /\ serv'.sts_upgrade = serv.sts_upgrade /\ refreshes' \subseteq refreshes
        /\ toClient' = toClient /\ irc' = irc /\ (~serv.connected => toServer' = toServer)
    BY <1>5 DEF Retried
  <2> QED BY <1>1, <2>1 DEF SameFlags, Quiet, Counted
<1>6. CASE Commands /\ serv.connected BY <1>6 DEF Commands, Quiet, Counted
<1>7. CASE Service
  <2>1. serv.connected /\ serv' = serv /\ refreshes' = refreshes BY <1>7 DEF Service, Serves
  <2> QED BY <2>1 DEF Quiet, Counted
<1>8. CASE Notifies BY <1>8 DEF Notifies, Quiet, Counted
<1> QED BY <1>2, <1>3, <1>4, <1>5, <1>6, <1>7, <1>8 DEF Step

\* The type invariant: flags and lines have their types, and connections stay within their
\* bound because a connection is upgraded to TLS at most once.
THEOREM Typing == Spec => []TypeOK
<1> DEFINE Base == TypeOK /\ Quiet /\ Counted
<1>1. Init => Base BY InitTypes
<1>2. Base /\ [Next]_vars => Base'
  <2>1. CASE Next BY <2>1, StepCases, BaseStep
  <2>2. CASE UNCHANGED vars BY <2>2, Stutter
  <2> QED BY <2>1, <2>2
<1>3. Base => TypeOK OBVIOUS
<1> QED BY <1>1, <1>2, <1>3, PTL DEF Spec

-----------------------------------------------------------------------------
(***************************************************************************)
(* The end of the negotiation and the ATTACH.                              *)
(***************************************************************************)
\* A new connection has CAP LS on the wire and nothing else.
LEMMA LinkFacts ==
    ASSUME Links
    PROVE  /\ Len(toServer') = 1 /\ toServer'[1].line = "CAP LS" /\ Len(toClient') = 0
           /\ irc'.sasl = "idle" /\ ~irc'.granted /\ irc'.attach = "none" /\ ~irc'.ended
           /\ serv'.connected /\ ~serv'.welcomed /\ ~serv'.sent_capend /\ ~serv'.attached
           /\ ~serv'.cursor_sent /\ ~serv'.attach_pending
           /\ serv'.conn = serv.conn + 1 /\ refreshes' = refreshes
           /\ hist'.asked = 0 /\ ~hist'.stale /\ ~hist'.early
BY DEF Links, Opens, Line, NewIrc

\* What is on the wires of a new connection.
LEMMA LinkWire ==
    ASSUME Links
    PROVE  /\ \A l : On(toServer', l) => l = "CAP LS"
           /\ \A l : ~On(toClient', l)
<1>1. Len(toServer') = 1 /\ toServer'[1].line = "CAP LS" /\ Len(toClient') = 0
  BY LinkFacts
<1>2. ASSUME NEW l, On(toServer', l) PROVE l = "CAP LS"
  <2>1. PICK i \in 1..1 : toServer'[i].line = l BY <1>1, <1>2 DEF On
  <2>2. i = 1 OBVIOUS
  <2> QED BY <1>1, <2>1, <2>2
<1>3. ASSUME NEW l PROVE ~On(toClient', l)
  <2>1. Len(toClient') = 0 BY <1>1
  <2>2. 1..0 = {} OBVIOUS
  <2> QED BY <2>1, <2>2, Zenon DEF On
<1> QED BY <1>2, <1>3

\* Lines are what they are called.
LEMMA LineNames ==
    /\ Line("CAP END").line = "CAP END" /\ Line("MECH").line = "MECH"
    /\ Line("PAYLOAD").line = "PAYLOAD" /\ Line("ABORT").line = "ABORT"
    /\ Line("PERSISTENCE").line = "PERSISTENCE"
BY DEF Line

\* The lengths of the queues.
LEMMA Lengths ==
    ASSUME TypeOK, TypeOK'
    PROVE  /\ Len(toServer) \in Nat /\ Len(toServer') \in Nat
           /\ Len(toClient) \in Nat /\ Len(toClient') \in Nat
           /\ serv \in Serv /\ serv' \in Serv /\ irc \in Irc /\ irc' \in Irc
<1>1. /\ toServer \in Seq(Asked) /\ toServer' \in Seq(Asked)
      /\ toClient \in Seq(Lines) /\ toClient' \in Seq(Lines)
  BY DEF TypeOK
<1> QED BY <1>1 DEF TypeOK

\* What is on the wire to the server stays there while the client sends, ...
LEMMA OnGrows ==
    ASSUME WireGrows, NEW l
    PROVE  On(toServer', l) <=> On(toServer, l) \/ \E i \in NewLines : toServer'[i].line = l
<1>1. ASSUME On(toServer, l) PROVE On(toServer', l) BY <1>1 DEF On, WireGrows
<1>2. ASSUME NEW i \in NewLines, toServer'[i].line = l PROVE On(toServer', l)
  <2>1. i \in 1..Len(toServer') BY DEF NewLines, WireGrows
  <2> QED BY <1>2, <2>1 DEF On
<1>3. ASSUME On(toServer', l)
      PROVE  On(toServer, l) \/ \E i \in NewLines : toServer'[i].line = l
  <2>1. PICK i \in 1..Len(toServer') : toServer'[i].line = l BY <1>3 DEF On
  <2>2. CASE i \in 1..Len(toServer) BY <2>1, <2>2 DEF On, WireGrows
  <2>3. CASE i \in NewLines BY <2>1, <2>3
  <2> QED BY <2>2, <2>3 DEF NewLines, WireGrows
<1> QED BY <1>1, <1>2, <1>3

\* ... and a line but the first while the server reads.
LEMMA OnRead ==
    ASSUME NEW q, NEW p, Read(q, p), Len(p) \in Nat, NEW l
    PROVE  /\ On(p, l) => On(q, l)
           /\ On(q, l) => On(p, l) \/ q[1].line = l
<1>1. ASSUME On(p, l) PROVE On(q, l)
  <2>1. PICK i \in 1..Len(p) : p[i].line = l BY <1>1 DEF On
  <2>2. i + 1 \in 1..Len(q) /\ p[i] = q[i + 1] BY DEF Read
  <2> QED BY <2>1, <2>2 DEF On
<1>2. ASSUME On(q, l), q[1].line # l PROVE On(p, l)
  <2>1. PICK i \in 1..Len(q) : q[i].line = l BY <1>2 DEF On
  <2>2. i # 1 BY <1>2, <2>1
  <2> DEFINE k == i - 1
  <2>3. k \in 1..Len(p) /\ i = k + 1 BY <2>2 DEF Read
  <2> HIDE DEF k
  <2>4. p[k] = q[i] BY <2>3 DEF Read
  <2> QED BY <2>1, <2>3, <2>4 DEF On
<1> QED BY <1>1, <1>2

\* The same for what is on its way to the client.
LEMMA OnReplies ==
    ASSUME RepliesGrow, NEW l
    PROVE  On(toClient', l) <=> On(toClient, l) \/ \E i \in Replies : toClient'[i].line = l
<1>1. ASSUME On(toClient, l) PROVE On(toClient', l) BY <1>1 DEF On, RepliesGrow
<1>2. ASSUME NEW i \in Replies, toClient'[i].line = l PROVE On(toClient', l)
  <2>1. i \in 1..Len(toClient') BY DEF Replies, RepliesGrow
  <2> QED BY <1>2, <2>1 DEF On
<1>3. ASSUME On(toClient', l)
      PROVE  On(toClient, l) \/ \E i \in Replies : toClient'[i].line = l
  <2>1. PICK i \in 1..Len(toClient') : toClient'[i].line = l BY <1>3 DEF On
  <2>2. CASE i \in 1..Len(toClient) BY <2>1, <2>2 DEF On, RepliesGrow
  <2>3. CASE i \in Replies BY <2>1, <2>3
  <2> QED BY <2>2, <2>3 DEF Replies, RepliesGrow
<1> QED BY <1>1, <1>2, <1>3

\* What the handlers have in common: CAP END is sent exactly when the flag is set.
LEMMA HandlerFacts ==
    ASSUME TypeOK, TypeOK', Handler
    PROVE  /\ serv.connected /\ serv'.connected /\ irc' = irc /\ Read(toClient, toClient')
           /\ Len(toClient') \in Nat /\ WireGrows
           /\ serv'.sent_capend <=>
                serv.sent_capend \/ \E i \in NewLines : toServer'[i].line = "CAP END"
           /\ serv'.welcomed = serv.welcomed \/ (Msg.line = "001" /\ ~serv'.attach_pending)
           /\ hist'.early = hist.early /\ hist'.stale = hist.stale
           /\ \A i \in NewLines : toServer'[i].line # "PERSISTENCE"
           /\ \/ /\ serv'.attached = serv.attached \/ (Msg.line = "FAIL" /\ ~serv'.attached)
                 /\ serv'.attach_pending => serv.attach_pending
                 /\ \A i \in NewLines : toServer'[i].line # "ATTACH"
              \/ Over(TRUE) /\ Msg.line = "903"
<1>0. /\ serv.connected /\ 1 \in 1..Len(toClient) /\ Len(toClient') \in Nat
      /\ Msg = toClient[1]
  BY DEF Handler
<1>1. /\ Len(toServer) \in Nat /\ Len(toServer') \in Nat /\ serv \in Serv
      /\ hist \in Hist
  BY Lengths DEF TypeOK, Hist
<1>2. CASE Negotiates /\ Msg.line = "LS"
  <2>1. PICK want \in SUBSET Caps, ends \in BOOLEAN : AsksFor(want, ends)
    BY <1>2 DEF Negotiates
  <2>2. hist'.early = hist.early /\ hist'.stale = hist.stale
    <3>1. hist' = Requested(want) BY <2>1 DEF AsksFor
    <3> QED BY <1>1, <3>1 DEF Requested, Hist
  <2>3. \A i \in NewLines : \/ toServer'[i].line = "REQ"
                            \/ toServer'[i].line = "CAP END" /\ ends
    <3> DEFINE req == [line |-> "REQ", caps |-> want]
    <3>1. req.line = "REQ" OBVIOUS
    <3>2. \A i \in NewLines : toServer'[i] = req \/ (toServer'[i] = Line("CAP END") /\ ends)
      BY <2>1 DEF AsksFor
    <3> HIDE DEF req
    <3> QED BY <3>1, <3>2, LineNames
  <2>4. ends => \E i \in NewLines : toServer'[i].line = "CAP END"
    BY <2>1, LineNames DEF AsksFor
  <2>5. /\ WireGrows /\ Read(toClient, toClient') /\ irc' = irc /\ SameFlags
        /\ serv'.sent_capend <=> serv.sent_capend \/ ends
    BY <2>1 DEF AsksFor
  <2> QED BY <1>0, <2>2, <2>3, <2>4, <2>5 DEF SameFlags
<1>3. CASE Toggles /\ Msg.line \in {"ACK", "DEL"}
  <2>1. \A i \in NewLines : toServer'[i].line = "MECH" BY <1>3, LineNames DEF Toggles
  <2> QED BY <1>0, <1>3, <2>1 DEF Toggles, SameFlags
<1>4. CASE Refused
  <2>1. PICK ends \in BOOLEAN : Naks(ends) BY <1>4 DEF Refused
  <2>2. \A i \in NewLines : toServer'[i].line = "CAP END" /\ ends
    BY <2>1, LineNames DEF Naks
  <2>3. ends => \E i \in NewLines : toServer'[i].line = "CAP END"
    BY <2>1, LineNames DEF Naks
  <2>5. /\ WireGrows /\ Read(toClient, toClient') /\ irc' = irc /\ SameFlags /\ hist' = hist
        /\ serv'.sent_capend <=> serv.sent_capend \/ ends
    BY <2>1 DEF Naks
  <2> QED BY <1>0, <2>2, <2>3, <2>5 DEF SameFlags
<1>5. CASE Answers
  <2>1. \A i \in NewLines : toServer'[i].line \in {"PAYLOAD", "ABORT"}
    BY <1>5, LineNames DEF Answers
  <2> QED BY <1>0, <1>5, <2>1 DEF Answers
<1>6. CASE Finishes
  <2>1. PICK ok \in BOOLEAN : Over(ok) /\ (ok => Msg.line = "903") BY <1>6 DEF Finishes
  <2>2. \A i \in NewLines :
            \/ toServer'[i].line = "ABORT"
            \/ toServer'[i].line = "CAP END" /\ ~serv.sent_capend
            \/ toServer'[i].line = "ATTACH" /\ ok
    <3> DEFINE att == [line |-> "ATTACH", cursor |-> serv'.cursor_sent]
    <3>1. att.line = "ATTACH" OBVIOUS
    <3>2. \A i \in NewLines :
            \/ toServer'[i] = Line("ABORT")
            \/ toServer'[i] = Line("CAP END") /\ ~serv.sent_capend
            \/ toServer'[i] = att /\ ok
      BY <2>1 DEF Over
    <3> HIDE DEF att
    <3> QED BY <3>1, <3>2, LineNames
  <2>3. ~serv.sent_capend => \E i \in NewLines : toServer'[i].line = "CAP END"
    BY <2>1, LineNames DEF Over
  <2>4. /\ WireGrows /\ Read(toClient, toClient') /\ irc' = irc /\ hist' = hist
        /\ serv'.sent_capend /\ serv'.connected = serv.connected
        /\ serv'.welcomed = serv.welcomed
    BY <2>1 DEF Over
  <2>5. ~ok => serv'.attached = serv.attached /\ serv'.attach_pending = serv.attach_pending
    BY <2>1 DEF Over
  <2> QED BY <1>0, <2>1, <2>2, <2>3, <2>4, <2>5
<1>7. CASE Refreshing /\ Msg.line = "904"
  <2>1. WireGrows /\ NewLines = {} BY <1>1, <1>7 DEF Refreshing, WireGrows, NewLines
  <2> QED BY <1>0, <1>7, <2>1 DEF Refreshing, SameFlags
<1>8. CASE /\ Flags
           /\ Welcome \/ persistence_handle_reply \/ persistence_handle_fail \/ ReplayBegins
  <2>1. WireGrows /\ NewLines = {} BY <1>1, <1>8 DEF Flags, WireGrows, NewLines
  <2>2. serv'.welcomed = serv.welcomed \/ (Msg.line = "001" /\ ~serv'.attach_pending)
    BY <1>1, <1>8 DEF Welcome, persistence_handle_reply, persistence_handle_fail, ReplayBegins,
                      Serv, Received, Msg
  <2>3. /\ serv'.attached = serv.attached \/ (Msg.line = "FAIL" /\ ~serv'.attached)
        /\ serv'.attach_pending => serv.attach_pending
    BY <1>1, <1>8 DEF Welcome, persistence_handle_reply, persistence_handle_fail, ReplayBegins,
                      Serv, Received, Msg
  <2> QED BY <1>0, <1>8, <2>1, <2>2, <2>3 DEF Flags
<1> QED BY <1>2, <1>3, <1>4, <1>5, <1>6, <1>7, <1>8 DEF Handler

\* What the steps of the server have in common.
LEMMA ServiceFacts ==
    ASSUME TypeOK, TypeOK', Service
    PROVE  /\ serv.connected /\ Read(toServer, toServer') /\ RepliesGrow
           /\ serv' = serv /\ refreshes' = refreshes /\ hist' = hist
           /\ 1 \in 1..Len(toServer) /\ Len(toServer') \in Nat
           /\ irc'.ended <=> irc.ended \/ toServer[1].line = "CAP END"
           /\ irc'.attach = irc.attach \/ (Takes /\ irc'.attach # "none")
           /\ irc.sasl = "done" => irc'.sasl = "done"
           /\ \A i \in Replies : /\ toClient'[i].line = "001" => irc'.ended
                                 /\ toClient'[i].line = "903" => irc'.sasl = "done"
           /\ ~Grants => irc'.granted = irc.granted
           /\ ~Exchanges => irc'.sasl = irc.sasl
<1>1. irc \in Irc BY DEF TypeOK
<1>2. /\ serv.connected /\ Serves /\ Len(toServer') \in Nat BY DEF Service
<1>3. CASE Lists
  <2>1. /\ irc'.ended = irc.ended /\ irc'.attach = irc.attach /\ irc'.sasl = irc.sasl
        /\ irc'.granted = irc.granted
    BY <1>1, <1>3 DEF Lists, Irc
  <2> QED BY <1>2, <1>3, <2>1 DEF Lists, Serves
<1>4. CASE Grants
  <2>1. irc'.ended = irc.ended /\ irc'.attach = irc.attach /\ irc'.sasl = irc.sasl
    BY <1>1, <1>4 DEF Grants, Irc
  <2> QED BY <1>2, <1>4, <2>1 DEF Grants, Serves
<1>5. CASE Exchanges
  <2>1. PICK n \in {"903", "904", "906", "907", "AUTHENTICATE"} : Exchanged(n)
    BY <1>5 DEF Exchanges
  <2>2. irc'.ended = irc.ended /\ irc'.attach = irc.attach /\ irc'.granted = irc.granted
    BY <1>1, <2>1 DEF Exchanged, Irc
  <2> QED BY <1>2, <1>5, <2>1, <2>2 DEF Exchanges, Exchanged, Serves
<1>6. CASE Takes
  <2>1. /\ irc'.ended = irc.ended /\ irc'.attach # "none" /\ irc'.sasl = irc.sasl
        /\ irc'.granted = irc.granted
    BY <1>1, <1>6 DEF Takes, Irc, Codes
  <2>2. \A i \in Replies : toClient'[i].line \in {"ATTACH", "FAIL"} BY <1>6 DEF Takes
  <2>3. toServer[1].line = "ATTACH" BY <1>6 DEF Takes
  <2> QED BY <1>2, <1>6, <2>1, <2>2, <2>3 DEF Serves
<1>7. CASE Welcomes
  <2>1. /\ irc'.ended /\ irc'.attach = irc.attach /\ irc'.sasl = irc.sasl
        /\ irc'.granted = irc.granted
    BY <1>1, <1>7 DEF Welcomes, Irc
  <2> QED BY <1>2, <1>7, <2>1 DEF Welcomes, Serves
<1>8. CASE Replied BY <1>2, <1>8 DEF Replied, Serves
<1> QED BY <1>3, <1>4, <1>5, <1>6, <1>7, <1>8 DEF Service

\* What cap-notify leaves alone.
LEMMA NotifyFacts ==
    ASSUME TypeOK, Notifies
    PROVE  /\ irc'.ended = irc.ended /\ irc'.attach = irc.attach /\ irc'.sasl = irc.sasl
           /\ irc'.granted = irc.granted
           /\ \A l : l \notin {"LS", "DEL"} => (On(toClient', l) <=> On(toClient, l))
<1>1. irc \in Irc BY DEF TypeOK
<1>2. irc' = [irc EXCEPT !.caps = irc'.caps] BY DEF Notifies
<1>3. RepliesGrow /\ \A i \in Replies : toClient'[i].line \in {"LS", "DEL"} BY DEF Notifies
<1> QED BY <1>1, <1>2, <1>3, OnReplies DEF Irc

\* Every step keeps the end of the negotiation.
LEMMA EndStep ==
    ASSUME TypeOK, TypeOK', EndInv, AttachInv, Step
    PROVE  EndInv'
<1> USE Lengths
<1>1. CASE Links
  <2>1. ~On(toServer', "CAP END") /\ ~On(toClient', "001") BY <1>1, LinkWire
  <2> QED BY <1>1, <2>1, LinkFacts DEF EndInv
<1>2. CASE Drops BY <1>2 DEF Drops, EndInv
<1>3. CASE Handler
  <2>1. /\ serv.connected /\ serv'.connected /\ irc' = irc /\ Read(toClient, toClient')
        /\ Len(toClient') \in Nat /\ WireGrows
        /\ serv'.sent_capend <=>
             serv.sent_capend \/ \E i \in NewLines : toServer'[i].line = "CAP END"
        /\ serv'.welcomed = serv.welcomed \/ Msg.line = "001"
        /\ \/ /\ serv'.attached = serv.attached \/ (Msg.line = "FAIL" /\ ~serv'.attached)
              /\ serv'.attach_pending => serv.attach_pending
           \/ Over(TRUE)
    BY <1>3, HandlerFacts
  <2>2. /\ serv.sent_capend <=> On(toServer, "CAP END") \/ irc.ended
        /\ On(toClient, "001") => irc.ended
        /\ serv.welcomed => irc.ended
        /\ ~serv.sent_capend => ~serv.attached /\ ~serv.attach_pending /\ irc.attach = "none"
    BY <2>1 DEF EndInv
  <2>3. On(toServer', "CAP END") <=>
            On(toServer, "CAP END") \/ \E i \in NewLines : toServer'[i].line = "CAP END"
    BY <2>1, OnGrows
  <2>4. On(toClient', "001") => On(toClient, "001") BY <2>1, OnRead
  <2>5. Msg.line = "001" => On(toClient, "001") BY <1>3 DEF Handler, On
  <2>6. Over(TRUE) => serv'.sent_capend BY DEF Over
  <2>7. ~serv'.sent_capend => ~serv'.attached /\ ~serv'.attach_pending /\ irc'.attach = "none"
    BY <2>1, <2>2, <2>6
  <2>8. serv'.sent_capend <=> On(toServer', "CAP END") \/ irc'.ended BY <2>1, <2>2, <2>3
  <2>9. (On(toClient', "001") => irc'.ended) /\ (serv'.welcomed => irc'.ended)
    BY <2>1, <2>2, <2>4, <2>5
  <2> QED BY <2>7, <2>8, <2>9 DEF EndInv
<1>4. CASE \E k \in 1..MaxConns + 1 : Retried(k)
  <2>1. PICK k \in 1..MaxConns + 1 : Retried(k) BY <1>4
  <2>2. SUFFICES ASSUME serv'.connected PROVE EndInv'
    BY DEF EndInv
  <2>3. serv.connected /\ WireGrows /\ toClient' = toClient /\ irc' = irc /\ SameFlags
    BY <2>1, <2>2 DEF Retried, SameFlags
  <2>4. \A i \in NewLines : toServer'[i].line = "CAP END" <=> toServer'[i] = Line("CAP END")
    BY <2>1, LineNames DEF Retried
  <2>5. serv'.sent_capend <=>
            serv.sent_capend \/ \E i \in NewLines : toServer'[i].line = "CAP END"
    BY <2>1, <2>3, <2>4 DEF Retried
  <2>6. On(toServer', "CAP END") <=>
            On(toServer, "CAP END") \/ \E i \in NewLines : toServer'[i].line = "CAP END"
    BY <2>3, OnGrows
  <2> QED BY <2>3, <2>5, <2>6 DEF EndInv, SameFlags
<1>5. CASE Commands /\ serv.connected
  <2>1. ~\E i \in NewLines : toServer'[i].line = "CAP END" BY <1>5, LineNames DEF Commands
  <2>2. On(toServer', "CAP END") <=> On(toServer, "CAP END")
    BY <1>5, <2>1, OnGrows DEF Commands
  <2> QED BY <1>5, <2>2 DEF Commands, EndInv
<1>6. CASE Service
  <2>1. /\ serv.connected /\ Read(toServer, toServer') /\ RepliesGrow /\ serv' = serv
        /\ 1 \in 1..Len(toServer) /\ Len(toServer') \in Nat
        /\ irc'.ended <=> irc.ended \/ toServer[1].line = "CAP END"
        /\ irc'.attach = irc.attach \/ Takes
        /\ \A i \in Replies : toClient'[i].line = "001" => irc'.ended
    BY <1>6, ServiceFacts
  <2>2. /\ On(toServer', "CAP END") => On(toServer, "CAP END")
        /\ On(toServer, "CAP END") => On(toServer', "CAP END") \/ toServer[1].line = "CAP END"
    BY <2>1, OnRead
  <2>3. toServer[1].line = "CAP END" => On(toServer, "CAP END") BY <2>1 DEF On
  <2>4. On(toClient', "001") => On(toClient, "001") \/ irc'.ended BY <2>1, OnReplies
  <2>5. Takes => On(toServer, "ATTACH") BY <2>1 DEF Takes, On
  <2>6. Takes => serv.sent_capend BY <2>1, <2>5 DEF AttachInv
  <2>7. serv'.sent_capend <=> On(toServer', "CAP END") \/ irc'.ended
    BY <2>1, <2>2, <2>3 DEF EndInv
  <2>8. (On(toClient', "001") => irc'.ended) /\ (serv'.welcomed => irc'.ended)
    BY <2>1, <2>4 DEF EndInv
  <2>9. ~serv'.sent_capend => ~serv'.attached /\ ~serv'.attach_pending /\ irc'.attach = "none"
    BY <2>1, <2>6 DEF EndInv
  <2> QED BY <2>7, <2>8, <2>9 DEF EndInv
<1>7. CASE Notifies
  <2>1. /\ irc'.ended = irc.ended /\ irc'.attach = irc.attach
        /\ On(toClient', "001") <=> On(toClient, "001")
    BY <1>7, NotifyFacts
  <2> QED BY <1>7, <2>1 DEF Notifies, EndInv
<1> QED BY <1>1, <1>2, <1>3, <1>4, <1>5, <1>6, <1>7 DEF Step

\* A line that is at a place of the queue is on it.
LEMMA IsOn ==
    ASSUME NEW q, NEW i \in 1..Len(q)
    PROVE  On(q, q[i].line)
BY DEF On

\* The places of a queue that was read, ...
LEMMA ReadPlaces ==
    ASSUME NEW q, NEW p, Read(q, p), Len(p) \in Nat
    PROVE  /\ \A i \in 1..Len(p) : i \in Nat /\ i + 1 \in 1..Len(q) /\ p[i] = q[i + 1]
           /\ \A i \in 1..Len(q) : i = 1 \/ (i - 1 \in 1..Len(p) /\ q[i] = p[i - 1])
           /\ Len(q) \in Nat
<1> DEFINE n == Len(p)
           m == Len(q)
<1>1. n \in Nat /\ m = n + 1 /\ \A i \in 1..n : p[i] = q[i + 1] BY DEF Read
<1> HIDE DEF n, m
<1>2. \A i \in 1..n : i \in Nat /\ i + 1 \in 1..m BY <1>1
<1>3. ASSUME NEW i \in 1..m, i # 1 PROVE i - 1 \in 1..n /\ q[i] = p[i - 1]
  <2> DEFINE k == i - 1
  <2>1. k \in 1..n /\ i = k + 1 BY <1>1, <1>3
  <2> HIDE DEF k
  <2>2. p[k] = q[i] BY <1>1, <2>1
  <2> QED BY <2>1, <2>2 DEF k
<1>4. m \in Nat BY <1>1
<1> QED BY <1>1, <1>2, <1>3, <1>4 DEF n, m

\* ... of the wire to the server that grew, ...
LEMMA WirePlaces ==
    ASSUME WireGrows
    PROVE  /\ \A i \in 1..Len(toServer') :
                \/ i \in 1..Len(toServer) /\ toServer'[i] = toServer[i]
                \/ i \in NewLines
           /\ \A i \in 1..Len(toServer) : i \in 1..Len(toServer') /\ toServer'[i] = toServer[i]
           /\ \A i \in NewLines : i \in 1..Len(toServer') /\ \A j \in 1..Len(toServer) : j < i
<1> DEFINE n == Len(toServer)
           m == Len(toServer')
<1>1. n \in Nat /\ m \in Nat /\ m >= n /\ \A i \in 1..n : toServer'[i] = toServer[i]
  BY DEF WireGrows
<1>2. NewLines = (n + 1)..m BY DEF NewLines
<1> HIDE DEF n, m
<1> QED BY <1>1, <1>2 DEF n, m

\* ... and of the wire to the client that grew.
LEMMA ReplyPlaces ==
    ASSUME RepliesGrow
    PROVE  /\ \A i \in 1..Len(toClient') :
                \/ i \in 1..Len(toClient) /\ toClient'[i] = toClient[i]
                \/ i \in Replies
           /\ \A i \in 1..Len(toClient) : i \in 1..Len(toClient') /\ toClient'[i] = toClient[i]
           /\ \A i \in Replies : i \in 1..Len(toClient') /\ \A j \in 1..Len(toClient) : j < i
<1> DEFINE n == Len(toClient)
           m == Len(toClient')
<1>1. n \in Nat /\ m \in Nat /\ m >= n /\ \A i \in 1..n : toClient'[i] = toClient[i]
  BY DEF RepliesGrow
<1>2. Replies = (n + 1)..m BY DEF Replies
<1> HIDE DEF n, m
<1> QED BY <1>1, <1>2 DEF n, m

\* Every step keeps the ATTACH in its place.
LEMMA AttachStep ==
    ASSUME TypeOK, TypeOK', EndInv, AttachInv, Step
    PROVE  AttachInv'
<1>0. /\ Len(toServer) \in Nat /\ Len(toServer') \in Nat /\ Len(toClient) \in Nat
      /\ Len(toClient') \in Nat
  BY Lengths
<1> DEFINE Order(q) ==
        \A i, j \in 1..Len(q) :
            /\ q[i].line = "ATTACH" /\ q[j].line = "CAP END" => i < j
            /\ q[i].line = "ATTACH" /\ q[j].line = "ATTACH" => i = j
<1> DEFINE Rest ==
        /\ On(toClient, "903") => irc.sasl = "done"
        /\ serv.attached => On(toServer, "ATTACH") \/ irc.attach # "none"
        /\ On(toServer, "ATTACH") =>
            ~irc.ended /\ irc.sasl = "done" /\ irc.attach = "none" /\ serv.sent_capend
        /\ serv.welcomed => ~serv.attach_pending
<1>a. serv.connected => Order(toServer) /\ Rest BY DEF AttachInv
<1>b. ASSUME serv'.connected => Order(toServer') /\ Rest' PROVE AttachInv'
  BY <1>b DEF AttachInv
<1>1. CASE Links
  <2>1. ~On(toServer', "ATTACH") /\ ~On(toClient', "903") BY <1>1, LinkWire
  <2>2. Order(toServer') BY <2>1, IsOn
  <2>3. ~serv'.attached /\ ~serv'.welcomed BY <1>1, LinkFacts
  <2> HIDE DEF Order
  <2> QED BY <1>b, <2>1, <2>2, <2>3
<1>2. CASE Drops BY <1>2 DEF Drops, AttachInv
<1>3. CASE Handler
  <2>1. /\ serv.connected /\ serv'.connected /\ irc' = irc /\ Read(toClient, toClient')
        /\ WireGrows
        /\ serv.sent_capend => serv'.sent_capend
        /\ serv'.welcomed = serv.welcomed \/ (Msg.line = "001" /\ ~serv'.attach_pending)
        /\ \/ /\ serv'.attached = serv.attached \/ (Msg.line = "FAIL" /\ ~serv'.attached)
              /\ serv'.attach_pending => serv.attach_pending
              /\ \A i \in NewLines : toServer'[i].line # "ATTACH"
           \/ Over(TRUE) /\ Msg.line = "903"
    BY <1>3, HandlerFacts
  <2>2. Order(toServer) /\ Rest BY <1>a, <2>1
  <2>3. On(toClient', "903") => On(toClient, "903") BY <1>0, <2>1, OnRead
  <2>4. On(toServer', "ATTACH") <=>
            On(toServer, "ATTACH") \/ \E i \in NewLines : toServer'[i].line = "ATTACH"
    BY <2>1, OnGrows
  <2>5. CASE /\ serv'.attached = serv.attached \/ (Msg.line = "FAIL" /\ ~serv'.attached)
             /\ serv'.attach_pending => serv.attach_pending
             /\ \A i \in NewLines : toServer'[i].line # "ATTACH"
    <3>1. Rest'
      <4> HIDE DEF Order
      <4> QED BY <2>1, <2>2, <2>3, <2>4, <2>5
    <3>2. Order(toServer')
      <4> SUFFICES ASSUME NEW i \in 1..Len(toServer'), NEW j \in 1..Len(toServer'),
                          toServer'[i].line = "ATTACH"
                   PROVE  /\ toServer'[j].line = "CAP END" => i < j
                          /\ toServer'[j].line = "ATTACH" => i = j
        OBVIOUS
      <4>1. i \in 1..Len(toServer) /\ toServer'[i] = toServer[i]
        BY <1>0, <2>1, <2>5 DEF NewLines, WireGrows
      <4>2. CASE j \in 1..Len(toServer)
        <5>1. toServer'[j] = toServer[j] BY <2>1, <4>2 DEF WireGrows
        <5> QED BY <2>2, <4>1, <4>2, <5>1
      <4>3. CASE j \in NewLines BY <2>1, <2>5, <4>1, <4>3, WirePlaces
      <4> QED BY <2>1, <4>2, <4>3, WirePlaces
    <3> HIDE DEF Order, Rest
    <3> QED BY <1>b, <3>1, <3>2
  <2>6. CASE Over(TRUE) /\ Msg.line = "903"
    <3>1. On(toClient, "903") BY <1>3, <2>6, IsOn DEF Handler
    <3>2. irc.sasl = "done" BY <2>2, <3>1
    <3>3. CASE serv.sent_capend
      <4>1. NewLines = {} BY <2>6, <3>3 DEF Over
      <4>2. serv'.attached = serv.attached /\ serv'.attach_pending = serv.attach_pending
        BY <2>6, <3>3 DEF Over
      <4> QED BY <2>5, <4>1, <4>2
    <3>4. CASE ~serv.sent_capend
      <4>1. /\ ~On(toServer, "CAP END") /\ ~irc.ended /\ ~serv.welcomed /\ irc.attach = "none"
            /\ ~serv.attached
        BY <2>1, <3>4 DEF EndInv
      <4>2. ~On(toServer, "ATTACH") BY <2>2, <3>4
      <4>3. serv'.welcomed = serv.welcomed /\ serv'.sent_capend BY <2>6 DEF Over
      <4>4. \A i \in NewLines :
                \/ toServer'[i].line = "CAP END" /\ i = Len(toServer')
                \/ toServer'[i].line = "ATTACH" /\ i = Len(toServer) + 1 /\ i < Len(toServer')
        <5> DEFINE att == [line |-> "ATTACH", cursor |-> serv'.cursor_sent]
        <5>1. att.line = "ATTACH" OBVIOUS
        <5>2. \A i \in NewLines :
                \/ toServer'[i] = Line("CAP END") /\ i = Len(toServer')
                \/ toServer'[i] = att /\ i = Len(toServer) + 1 /\ i < Len(toServer')
          BY <2>6 DEF Over
        <5> HIDE DEF att
        <5> QED BY <5>1, <5>2, LineNames
      <4>5. serv'.attached => On(toServer', "ATTACH")
        <5>1. serv'.attached => /\ Len(toServer) + 1 \in NewLines
                                /\ toServer'[Len(toServer) + 1].line = "ATTACH"
          BY <2>6, <4>1 DEF Over
        <5> QED BY <2>4, <5>1
      <4>6. Rest'
        <5> HIDE DEF Order
        <5> QED BY <2>1, <2>2, <2>3, <3>2, <4>1, <4>3, <4>5
      <4>7. Order(toServer')
        <5>1. ASSUME NEW i \in 1..Len(toServer'), toServer'[i].line \in {"ATTACH", "CAP END"}
              PROVE  i \in NewLines
          <6>1. CASE i \in 1..Len(toServer)
            <7>1. toServer'[i] = toServer[i] BY <2>1, <6>1 DEF WireGrows
            <7>2. On(toServer, "ATTACH") \/ On(toServer, "CAP END")
              BY <5>1, <6>1, <7>1, IsOn
            <7> QED BY <4>1, <4>2, <7>2
          <6> QED BY <1>0, <6>1 DEF NewLines
        <5> QED BY <1>0, <4>4, <5>1
      <4> HIDE DEF Order, Rest
      <4> QED BY <1>b, <4>6, <4>7
    <3> QED BY <3>3, <3>4
  <2> QED BY <2>1, <2>5, <2>6
<1>4. CASE \E k \in 1..MaxConns + 1 : Retried(k)
  <2>1. PICK k \in 1..MaxConns + 1 : Retried(k) BY <1>4
  <2>2. SUFFICES ASSUME serv'.connected PROVE AttachInv'
    BY DEF AttachInv
  <2>3. serv.connected /\ WireGrows /\ toClient' = toClient /\ irc' = irc /\ SameFlags
    BY <2>1, <2>2 DEF Retried, SameFlags
  <2>4. \A i \in NewLines : toServer'[i].line # "ATTACH" BY <2>1, LineNames DEF Retried
  <2>5. On(toServer', "ATTACH") <=> On(toServer, "ATTACH") BY <2>3, <2>4, OnGrows
  <2>6. serv.sent_capend => serv'.sent_capend BY <2>1 DEF Retried
  <2>7. Order(toServer) /\ Rest BY <1>a, <2>3
  <2>8. Rest'
    <3> HIDE DEF Order
    <3> QED BY <2>3, <2>5, <2>6, <2>7 DEF SameFlags
  <2>9. Order(toServer')
    <3> SUFFICES ASSUME NEW i \in 1..Len(toServer'), NEW j \in 1..Len(toServer'),
                        toServer'[i].line = "ATTACH"
                 PROVE  /\ toServer'[j].line = "CAP END" => i < j
                        /\ toServer'[j].line = "ATTACH" => i = j
      OBVIOUS
    <3>1. i \in 1..Len(toServer) /\ toServer'[i] = toServer[i] BY <2>3, <2>4, WirePlaces
    <3>2. CASE j \in 1..Len(toServer) /\ toServer'[j] = toServer[j] BY <2>7, <3>1, <3>2
    <3>3. CASE j \in NewLines BY <2>3, <2>4, <3>1, <3>3, WirePlaces
    <3> QED BY <2>3, <3>2, <3>3, WirePlaces
  <2> HIDE DEF Order, Rest
  <2> QED BY <1>b, <2>8, <2>9
<1>5. CASE Commands /\ serv.connected
  <2>1. \A i \in NewLines : toServer'[i].line = "PERSISTENCE"
    BY <1>5, LineNames DEF Commands
  <2>2. WireGrows /\ toClient' = toClient /\ serv' = serv /\ irc' = irc BY <1>5 DEF Commands
  <2>3. On(toServer', "ATTACH") <=> On(toServer, "ATTACH") BY <2>1, <2>2, OnGrows
  <2>4. Order(toServer) /\ Rest BY <1>a, <1>5
  <2>5. Order(toServer')
    <3> SUFFICES ASSUME NEW i \in 1..Len(toServer'), NEW j \in 1..Len(toServer'),
                        toServer'[i].line = "ATTACH",
                        toServer'[j].line \in {"CAP END", "ATTACH"}
                 PROVE  /\ toServer'[j].line = "CAP END" => i < j
                        /\ toServer'[j].line = "ATTACH" => i = j
      OBVIOUS
    <3>1. i \in 1..Len(toServer) /\ toServer'[i] = toServer[i] BY <2>1, <2>2, WirePlaces
    <3>2. j \in 1..Len(toServer) /\ toServer'[j] = toServer[j] BY <2>1, <2>2, WirePlaces
    <3> QED BY <2>4, <3>1, <3>2
  <2>6. Rest'
    <3> HIDE DEF Order
    <3> QED BY <2>2, <2>3, <2>4
  <2> HIDE DEF Order, Rest
  <2> QED BY <1>b, <2>5, <2>6
<1>6. CASE Service
  <2>1. /\ serv.connected /\ Read(toServer, toServer') /\ RepliesGrow /\ serv' = serv
        /\ 1 \in 1..Len(toServer)
        /\ irc'.ended <=> irc.ended \/ toServer[1].line = "CAP END"
        /\ irc'.attach = irc.attach \/ (Takes /\ irc'.attach # "none")
        /\ irc.sasl = "done" => irc'.sasl = "done"
        /\ \A i \in Replies : toClient'[i].line = "903" => irc'.sasl = "done"
    BY <1>6, ServiceFacts
  <2>2. Order(toServer) /\ Rest BY <1>a, <2>1
  <2>3. \A i \in 1..Len(toServer') : i + 1 \in 1..Len(toServer) /\ toServer'[i] = toServer[i + 1]
    <3>1. Read(toServer, toServer') /\ Len(toServer') \in Nat BY <1>0, <2>1
    <3> QED BY <3>1, ReadPlaces
  <2>4. Order(toServer')
    <3> SUFFICES ASSUME NEW i \in 1..Len(toServer'), NEW j \in 1..Len(toServer'),
                        toServer'[i].line = "ATTACH"
                 PROVE  /\ toServer'[j].line = "CAP END" => i < j
                        /\ toServer'[j].line = "ATTACH" => i = j
      OBVIOUS
    <3>1. /\ toServer[j + 1].line = "CAP END" => i + 1 < j + 1
          /\ toServer[j + 1].line = "ATTACH" => i + 1 = j + 1
      BY <2>2, <2>3
    <3>2. i \in Nat /\ j \in Nat BY <1>0
    <3>3. (i + 1 < j + 1 => i < j) /\ (i + 1 = j + 1 => i = j) BY <3>2
    <3>4. toServer'[j] = toServer[j + 1] BY <2>3
    <3> QED BY <3>1, <3>3, <3>4
  <2>5. On(toServer', "ATTACH") => /\ On(toServer, "ATTACH")
                                   /\ toServer[1].line \notin {"ATTACH", "CAP END"}
    <3> SUFFICES ASSUME NEW i \in 1..Len(toServer'), toServer'[i].line = "ATTACH"
                 PROVE  /\ On(toServer, "ATTACH")
                        /\ toServer[1].line \notin {"ATTACH", "CAP END"}
      BY DEF On
    <3>1. i + 1 \in 1..Len(toServer) /\ toServer[i + 1].line = "ATTACH" BY <2>3
    <3>2. On(toServer, "ATTACH") BY <3>1 DEF On
    <3>3. toServer[1].line = "ATTACH" => i + 1 = 1 BY <2>1, <2>2, <3>1
    <3>4. toServer[1].line = "CAP END" => i + 1 < 1 BY <2>1, <2>2, <3>1
    <3>5. i \in Nat /\ i >= 1 BY <1>0
    <3>6. i + 1 # 1 /\ ~(i + 1 < 1) BY <3>5
    <3>7. toServer[1].line # "ATTACH" /\ toServer[1].line # "CAP END" BY <3>3, <3>4, <3>6
    <3> QED BY <3>2, <3>7
  <2>6. Takes => toServer[1].line = "ATTACH" BY DEF Takes
  <2>7. On(toServer, "ATTACH") => On(toServer', "ATTACH") \/ toServer[1].line = "ATTACH"
    BY <1>0, <2>1, OnRead
  <2>8. toServer[1].line = "ATTACH" => Takes
    BY <1>6 DEF Service, Lists, Grants, Exchanges, Welcomes, Replied
  <2>9. On(toClient', "903") => On(toClient, "903") \/ irc'.sasl = "done"
    BY <2>1, OnReplies
  <2>10. Takes => irc'.attach # "none"
    <3>1. irc \in Irc BY DEF TypeOK
    <3> QED BY <3>1 DEF Takes, Irc, Codes
  <2>11. Rest'
    <3> HIDE DEF Order
    <3> QED BY <2>1, <2>2, <2>5, <2>6, <2>7, <2>8, <2>9, <2>10
  <2> HIDE DEF Order, Rest
  <2> QED BY <1>b, <2>4, <2>11
<1>7. CASE Notifies
  <2>1. /\ irc'.ended = irc.ended /\ irc'.attach = irc.attach /\ irc'.sasl = irc.sasl
        /\ On(toClient', "903") <=> On(toClient, "903")
    BY <1>7, NotifyFacts
  <2> QED BY <1>7, <2>1, ZenonT(30) DEF Notifies, AttachInv
<1> QED BY <1>1, <1>2, <1>3, <1>4, <1>5, <1>6, <1>7 DEF Step

-----------------------------------------------------------------------------
(***************************************************************************)
(* The replay gate.                                                        *)
(***************************************************************************)
\* Reading a line that is not the refusal keeps the refusal where it is.
LEMMA FailRead ==
    ASSUME NEW q, NEW p, Read(q, p), Len(p) \in Nat
    PROVE  /\ FailFirst(q) => FailFirst(p)
           /\ HasFail(p) => HasFail(q)
           /\ HasFail(q) => HasFail(p) \/ OwnFail(q[1])
           /\ FailFirst(q) /\ 1 \in 1..Len(q) /\ OwnFail(q[1]) => ~HasFail(p)
<1>1. /\ \A i \in 1..Len(p) : i \in Nat /\ i + 1 \in 1..Len(q) /\ p[i] = q[i + 1]
      /\ \A i \in 1..Len(q) : i = 1 \/ (i - 1 \in 1..Len(p) /\ q[i] = p[i - 1])
  BY ReadPlaces
<1>2. ASSUME FailFirst(q) PROVE FailFirst(p)
  <2> SUFFICES ASSUME NEW i \in 1..Len(p), NEW j \in 1..Len(p), OwnFail(p[i])
               PROVE  (p[j].line = "001" => i < j) /\ (OwnFail(p[j]) => i = j)
    BY DEF FailFirst
  <2>1. /\ q[j + 1].line = "001" => i + 1 < j + 1
        /\ OwnFail(q[j + 1]) => i + 1 = j + 1
    BY <1>1, <1>2 DEF FailFirst
  <2>2. i \in Nat /\ j \in Nat /\ p[j] = q[j + 1] BY <1>1
  <2>3. (i + 1 < j + 1 => i < j) /\ (i + 1 = j + 1 => i = j) BY <2>2
  <2> QED BY <2>1, <2>2, <2>3
<1>3. HasFail(p) => HasFail(q) BY <1>1 DEF HasFail
<1>4. HasFail(q) => HasFail(p) \/ OwnFail(q[1]) BY <1>1 DEF HasFail
<1>5. ASSUME FailFirst(q), 1 \in 1..Len(q), OwnFail(q[1]) PROVE ~HasFail(p)
  <2> SUFFICES ASSUME NEW i \in 1..Len(p), OwnFail(p[i]) PROVE FALSE
    BY DEF HasFail
  <2>1. OwnFail(q[i + 1]) /\ i + 1 \in 1..Len(q) BY <1>1
  <2>2. i + 1 = 1 BY <1>5, <2>1 DEF FailFirst
  <2>3. i \in Nat /\ i >= 1 OBVIOUS
  <2> QED BY <2>2, <2>3
<1> QED BY <1>2, <1>3, <1>4, <1>5

\* A refusal names one of the codes.
LEMMA FailTypes ==
    ASSUME TypeOK, NEW i \in 1..Len(toClient), toClient[i].line = "FAIL"
    PROVE  toClient[i].code \in Codes /\ toClient[i].own \in BOOLEAN
<1>1. toClient \in Seq(Lines) BY DEF TypeOK
<1>2. toClient[i] \in Lines BY <1>1
<1> QED BY <1>2 DEF Lines

\* The handlers, by what they do to the flags of the gate.
GateKeeps ==
    /\ serv'.welcomed = serv.welcomed /\ serv'.attached = serv.attached
    /\ serv'.cursor_sent = serv.cursor_sent /\ serv'.attach_pending = serv.attach_pending
GateHandler ==
    \/ /\ GateKeeps /\ Msg.line \notin {"FAIL", "001", "ATTACH"}
       /\ \A i \in NewLines : toServer'[i].line # "ATTACH"
    \/ /\ Msg.line = "903" /\ ~serv.sent_capend /\ serv'.welcomed = serv.welcomed
       /\ serv'.attached /\ serv'.attach_pending
       /\ \A i \in NewLines : toServer'[i].line = "ATTACH" =>
            (toServer'[i].cursor <=> serv'.cursor_sent)
    \/ /\ Msg.line = "001" /\ toServer' = toServer /\ serv'.welcomed /\ ~serv'.attach_pending
       /\ serv'.attached = serv.attached /\ serv'.cursor_sent = serv.cursor_sent
    \/ /\ Msg.line = "ATTACH" /\ toServer' = toServer /\ serv'.welcomed = serv.welcomed
       /\ ~serv'.attach_pending
       /\ serv'.attached = serv.attached /\ serv'.cursor_sent = serv.cursor_sent
    \/ /\ Msg.line = "FAIL" /\ toServer' = toServer
       /\ ~serv.attach_pending => GateKeeps
       /\ serv.attach_pending =>
            /\ serv'.welcomed = serv.welcomed /\ ~serv'.attach_pending
            /\ serv'.attached <=> serv.attached /\ Msg.code # "ACCOUNT_REQUIRED"
            /\ serv'.cursor_sent <=> serv.cursor_sent /\ Msg.code = "OTHER"

\* Every handler is one of these.
LEMMA GateHandles ==
    ASSUME TypeOK, TypeOK', Handler
    PROVE  GateHandler
<1>1. serv \in Serv /\ serv' \in Serv BY DEF TypeOK
<1>2. CASE Negotiates /\ Msg.line = "LS"
  <2>1. PICK want \in SUBSET Caps, ends \in BOOLEAN : AsksFor(want, ends)
    BY <1>2 DEF Negotiates
  <2> DEFINE req == [line |-> "REQ", caps |-> want]
  <2>2. req.line = "REQ" OBVIOUS
  <2>3. \A i \in NewLines : toServer'[i] = req \/ toServer'[i] = Line("CAP END")
    BY <2>1 DEF AsksFor
  <2>4. SameFlags BY <2>1 DEF AsksFor
  <2> HIDE DEF req
  <2>5. \A i \in NewLines : toServer'[i].line # "ATTACH" BY <2>2, <2>3, LineNames
  <2> QED BY <1>2, <2>4, <2>5 DEF GateHandler, GateKeeps, SameFlags
<1>3. CASE Toggles /\ Msg.line \in {"ACK", "DEL"}
  <2>1. \A i \in NewLines : toServer'[i].line # "ATTACH" BY <1>3, LineNames DEF Toggles
  <2>2. SameFlags BY <1>3 DEF Toggles
  <2> QED BY <1>3, <2>1, <2>2 DEF GateHandler, GateKeeps, SameFlags
<1>4. CASE Refused
  <2>1. \A i \in NewLines : toServer'[i].line # "ATTACH" BY <1>4, LineNames DEF Refused, Naks
  <2>2. SameFlags /\ Msg.line = "NAK" BY <1>4 DEF Refused, Naks
  <2> QED BY <2>1, <2>2 DEF GateHandler, GateKeeps, SameFlags
<1>5. CASE Answers
  <2>1. \A i \in NewLines : toServer'[i].line # "ATTACH" BY <1>5, LineNames DEF Answers
  <2>2. serv' = serv /\ Msg.line \in {"AUTHENTICATE", "MECHS"} BY <1>5 DEF Answers
  <2> QED BY <2>1, <2>2 DEF GateHandler, GateKeeps
<1>6. CASE Finishes
  <2>1. PICK ok \in BOOLEAN : Over(ok) /\ (ok => Msg.line = "903")
                              /\ Msg.line \in {"903", "904", "906", "907"}
    BY <1>6 DEF Finishes
  <2> DEFINE att == [line |-> "ATTACH", cursor |-> serv'.cursor_sent]
  <2>2. att.line = "ATTACH" /\ att.cursor = serv'.cursor_sent OBVIOUS
  <2>3. \A i \in NewLines :
            \/ toServer'[i] = Line("ABORT") \/ toServer'[i] = Line("CAP END")
            \/ toServer'[i] = att /\ ok /\ ~serv.sent_capend /\ serv'.attached
                 /\ serv'.attach_pending
    BY <2>1 DEF Over
  <2>4. serv'.welcomed = serv.welcomed BY <2>1 DEF Over
  <2>5. \/ serv'.attached = serv.attached /\ serv'.cursor_sent = serv.cursor_sent
             /\ serv'.attach_pending = serv.attach_pending
        \/ ok /\ ~serv.sent_capend /\ serv'.attached /\ serv'.attach_pending
    BY <2>1 DEF Over
  <2> HIDE DEF att
  <2>6. \A i \in NewLines : toServer'[i].line = "ATTACH" =>
            /\ ok /\ ~serv.sent_capend /\ serv'.attached /\ serv'.attach_pending
            /\ toServer'[i].cursor = serv'.cursor_sent
    BY <2>2, <2>3, LineNames
  <2>7. CASE \E i \in NewLines : toServer'[i].line = "ATTACH"
    BY <2>1, <2>4, <2>6, <2>7 DEF GateHandler
  <2>8. CASE ~\E i \in NewLines : toServer'[i].line = "ATTACH"
    BY <2>1, <2>4, <2>5, <2>8 DEF GateHandler, GateKeeps
  <2> QED BY <2>7, <2>8
<1>7. CASE Refreshing /\ Msg.line = "904"
  <2>1. SameFlags /\ toServer' = toServer BY <1>7 DEF Refreshing
  <2>2. NewLines = {}
    <3>1. Len(toServer) \in Nat BY Lengths
    <3> QED BY <2>1, <3>1 DEF NewLines
  <2> QED BY <1>7, <2>1, <2>2 DEF GateHandler, GateKeeps, SameFlags
<1>8. CASE /\ Flags
           /\ Welcome \/ persistence_handle_reply \/ persistence_handle_fail \/ ReplayBegins
  <2>1. toServer' = toServer BY <1>8 DEF Flags
  <2>2. NewLines = {}
    <3>1. Len(toServer) \in Nat BY Lengths
    <3> QED BY <2>1, <3>1 DEF NewLines
  <2>3. CASE Welcome
    <3>1. Msg.line = "001" BY <2>3 DEF Welcome, Received, Msg
    <3>2. serv' = [serv EXCEPT !.welcomed = TRUE, !.attach_pending = FALSE]
      BY <2>3 DEF Welcome
    <3>3. /\ serv'.welcomed /\ ~serv'.attach_pending
          /\ serv'.attached = serv.attached /\ serv'.cursor_sent = serv.cursor_sent
      BY <1>1, <3>2 DEF Serv
    <3> QED BY <2>1, <3>1, <3>3 DEF GateHandler
  <2>4. CASE persistence_handle_reply
    <3>1. Msg.line = "ATTACH" BY <2>4 DEF persistence_handle_reply, Received, Msg
    <3>2. serv' = [serv EXCEPT !.attach_pending = FALSE] BY <2>4 DEF persistence_handle_reply
    <3>3. /\ serv'.welcomed = serv.welcomed /\ ~serv'.attach_pending
          /\ serv'.attached = serv.attached /\ serv'.cursor_sent = serv.cursor_sent
      BY <1>1, <3>2 DEF Serv
    <3> QED BY <2>1, <3>1, <3>3 DEF GateHandler
  <2>5. CASE ReplayBegins
    <3>1. Msg.line = "BATCH" BY <2>5 DEF ReplayBegins, Received, Msg
    <3>2. serv' = [serv EXCEPT !.replay_seen = TRUE] BY <2>5 DEF ReplayBegins
    <3>3. GateKeeps BY <1>1, <3>2 DEF Serv, GateKeeps
    <3> QED BY <2>2, <3>1, <3>3 DEF GateHandler
  <2>6. CASE persistence_handle_fail
    <3>1. Msg.line = "FAIL" BY <2>6 DEF persistence_handle_fail, Received, Msg
    <3>2. ~serv.attach_pending => GateKeeps BY <2>6 DEF persistence_handle_fail, GateKeeps
    <3>3. ASSUME serv.attach_pending
          PROVE  /\ serv'.welcomed = serv.welcomed /\ ~serv'.attach_pending
                 /\ serv'.attached <=> serv.attached /\ Msg.code # "ACCOUNT_REQUIRED"
                 /\ serv'.cursor_sent <=> serv.cursor_sent /\ Msg.code = "OTHER"
      <4> DEFINE a == serv.attached /\ Msg.code # "ACCOUNT_REQUIRED"
                 c == serv.cursor_sent /\ Msg.code = "OTHER"
      <4>1. serv' = [serv EXCEPT !.attach_pending = FALSE, !.attached = a, !.cursor_sent = c]
        BY <1>1, <2>6, <3>3 DEF persistence_handle_fail, Serv
      <4> HIDE DEF a, c
      <4>2. /\ serv'.welcomed = serv.welcomed /\ ~serv'.attach_pending /\ serv'.attached = a
            /\ serv'.cursor_sent = c
        BY <1>1, <4>1 DEF Serv
      <4> QED BY <4>2 DEF a, c
    <3> QED BY <2>1, <3>1, <3>2, <3>3 DEF GateHandler
  <2> QED BY <1>8, <2>3, <2>4, <2>5, <2>6
<1> QED BY <1>2, <1>3, <1>4, <1>5, <1>6, <1>7, <1>8 DEF Handler

\* The parts of GateInv: what is on the way to the server, ...
GateOut ==
    /\ On(toServer, "PERSISTENCE") => serv.welcomed
    /\ \A i \in 1..Len(toServer) : toServer[i].line = "ATTACH" =>
        /\ serv.attached /\ serv.attach_pending
        /\ serv.cursor_sent <=> toServer[i].cursor
\* ... what is on the way to the client, ...
GateIn ==
    /\ On(toClient, "ATTACH") => irc.attach \in {"plain", "cursor"}
    /\ \A i \in 1..Len(toClient) :
        /\ toClient[i].line = "FAIL" /\ ~OwnFail(toClient[i]) => serv.welcomed
        /\ OwnFail(toClient[i]) =>
            toClient[i].code = irc.attach /\ serv.attach_pending /\ ~serv.welcomed
    /\ FailFirst(toClient)
\* ... and what has been decided.
GateNow ==
    /\ irc.attach = "cursor" => serv.attached /\ serv.cursor_sent
    /\ irc.attach = "plain" => ~serv.cursor_sent
    /\ irc.attach = "CURSOR_UNKNOWN" => ~serv.cursor_sent \/ HasFail(toClient)
    /\ irc.attach = "ACCOUNT_REQUIRED" => ~serv.attached \/ HasFail(toClient)

\* GateInv is its parts.
LEMMA GateParts ==
    /\ GateInv /\ serv.connected /\ ~hist.early => GateOut /\ GateIn /\ GateNow
    /\ (serv'.connected /\ ~hist'.early => GateOut' /\ GateIn' /\ GateNow') => GateInv'
<1>1. GateInv /\ serv.connected /\ ~hist.early => GateOut /\ GateIn /\ GateNow
  BY DEF GateInv, GateOut, GateIn, GateNow
<1>2. (serv'.connected /\ ~hist'.early => GateOut' /\ GateIn' /\ GateNow') => GateInv'
  BY DEF GateInv, GateOut, GateIn, GateNow
<1> QED BY <1>1, <1>2

\* While the client sends no ATTACH, and no command unless it is welcomed.
LEMMA OutGrows ==
    ASSUME GateOut, WireGrows, GateKeeps,
           \A i \in NewLines : toServer'[i].line # "ATTACH",
           (\E i \in NewLines : toServer'[i].line = "PERSISTENCE") => serv.welcomed
    PROVE  GateOut'
<1>1. On(toServer', "PERSISTENCE") => serv'.welcomed BY OnGrows DEF GateOut, GateKeeps
<1>2. ASSUME NEW i \in 1..Len(toServer'), toServer'[i].line = "ATTACH"
      PROVE  /\ serv'.attached /\ serv'.attach_pending
             /\ serv'.cursor_sent <=> toServer'[i].cursor
  <2>1. i \in 1..Len(toServer) /\ toServer'[i] = toServer[i] BY <1>2, WirePlaces
  <2> QED BY <1>2, <2>1 DEF GateOut, GateKeeps
<1> QED BY <1>1, <1>2 DEF GateOut

\* Reading a line that is no refusal of this connection's ATTACH.
LEMMA InReads ==
    ASSUME GateIn, Read(toClient, toClient'), Len(toClient') \in Nat, irc' = irc, GateKeeps
    PROVE  GateIn'
<1>1. \A i \in 1..Len(toClient') : i + 1 \in 1..Len(toClient) /\ toClient'[i] = toClient[i + 1]
  BY ReadPlaces
<1>2. FailFirst(toClient') BY FailRead DEF GateIn
<1>3. On(toClient', "ATTACH") => On(toClient, "ATTACH") BY OnRead
<1>4. ASSUME NEW i \in 1..Len(toClient')
      PROVE  /\ toClient'[i].line = "FAIL" /\ ~OwnFail(toClient'[i]) => serv'.welcomed
             /\ OwnFail(toClient'[i]) =>
                    /\ toClient'[i].code = irc'.attach
                    /\ serv'.attach_pending /\ ~serv'.welcomed
  <2>1. i + 1 \in 1..Len(toClient) /\ toClient'[i] = toClient[i + 1] BY <1>1
  <2> QED BY <2>1 DEF GateIn, GateKeeps
<1> QED BY <1>2, <1>3, <1>4 DEF GateIn

\* Answers of the server that are no refusals.
LEMMA InGrows ==
    ASSUME GateIn, RepliesGrow, serv' = serv, irc'.attach = irc.attach,
           \A i \in Replies : toClient'[i].line \notin {"FAIL", "ATTACH"}
    PROVE  GateIn' /\ (HasFail(toClient) => HasFail(toClient'))
<1>1. /\ \A i \in 1..Len(toClient') :
            \/ i \in 1..Len(toClient) /\ toClient'[i] = toClient[i]
            \/ i \in Replies
      /\ \A i \in 1..Len(toClient) : i \in 1..Len(toClient') /\ toClient'[i] = toClient[i]
      /\ \A i \in Replies : \A j \in 1..Len(toClient) : j < i
  BY ReplyPlaces
<1>2. On(toClient', "ATTACH") => On(toClient, "ATTACH") BY OnReplies
<1>3. ASSUME NEW i \in 1..Len(toClient'), toClient'[i].line = "FAIL"
      PROVE  i \in 1..Len(toClient) /\ toClient'[i] = toClient[i]
  BY <1>1, <1>3
<1>4. FailFirst(toClient')
  <2> SUFFICES ASSUME NEW i \in 1..Len(toClient'), NEW j \in 1..Len(toClient'),
                      OwnFail(toClient'[i])
               PROVE  /\ toClient'[j].line = "001" => i < j
                      /\ OwnFail(toClient'[j]) => i = j
    BY DEF FailFirst
  <2>1. i \in 1..Len(toClient) /\ toClient'[i] = toClient[i] BY <1>3 DEF OwnFail
  <2>2. CASE j \in 1..Len(toClient) /\ toClient'[j] = toClient[j]
    BY <2>1, <2>2 DEF GateIn, FailFirst
  <2>3. CASE j \in Replies BY <1>1, <2>1, <2>3 DEF OwnFail
  <2> QED BY <1>1, <2>2, <2>3
<1>5. HasFail(toClient) => HasFail(toClient') BY <1>1 DEF HasFail
<1>6. ASSUME NEW i \in 1..Len(toClient')
      PROVE  /\ toClient'[i].line = "FAIL" /\ ~OwnFail(toClient'[i]) => serv'.welcomed
             /\ OwnFail(toClient'[i]) =>
                    /\ toClient'[i].code = irc'.attach
                    /\ serv'.attach_pending /\ ~serv'.welcomed
  <2>1. CASE toClient'[i].line = "FAIL"
    <3>1. i \in 1..Len(toClient) /\ toClient'[i] = toClient[i] BY <1>3, <2>1
    <3> QED BY <3>1 DEF GateIn
  <2>2. CASE toClient'[i].line # "FAIL" BY <2>2 DEF OwnFail
  <2> QED BY <2>1, <2>2
<1> QED BY <1>2, <1>4, <1>5, <1>6 DEF GateIn

\* Before the ATTACH was read nothing answers it.
LEMMA NoAnswerYet ==
    ASSUME TypeOK, GateIn, irc.attach = "none"
    PROVE  ~On(toClient, "ATTACH") /\ ~HasFail(toClient)
<1>1. ~On(toClient, "ATTACH") BY DEF GateIn
<1>2. ASSUME NEW i \in 1..Len(toClient), OwnFail(toClient[i]) PROVE FALSE
  <2>1. toClient[i].code \in Codes BY <1>2, FailTypes DEF OwnFail
  <2>2. toClient[i].code = "none" BY <1>2 DEF GateIn
  <2> QED BY <2>1, <2>2 DEF Codes
<1> QED BY <1>1, <1>2 DEF HasFail

\* The handlers of the client keep the gate.
LEMMA GateHandlerStep ==
    ASSUME TypeOK, TypeOK', EndInv, AttachInv, GateInv, Handler
    PROVE  GateInv'
<1>1. /\ serv.connected /\ serv'.connected /\ irc' = irc /\ Read(toClient, toClient')
      /\ Len(toClient') \in Nat /\ WireGrows /\ hist'.early = hist.early
      /\ \A i \in NewLines : toServer'[i].line # "PERSISTENCE"
  BY HandlerFacts
<1>2. 1 \in 1..Len(toClient) /\ Msg = toClient[1] BY DEF Handler
<1> SUFFICES ASSUME ~hist.early, GateOut, GateIn, GateNow PROVE GateOut' /\ GateIn' /\ GateNow'
  BY <1>1, GateParts
<1>3. /\ FailFirst(toClient) => FailFirst(toClient')
      /\ HasFail(toClient') => HasFail(toClient)
      /\ HasFail(toClient) => HasFail(toClient') \/ OwnFail(toClient[1])
      /\ FailFirst(toClient) /\ OwnFail(toClient[1]) => ~HasFail(toClient')
  BY <1>1, <1>2, FailRead
<1>4. FailFirst(toClient) BY DEF GateIn
<1>5. On(toClient', "ATTACH") => On(toClient, "ATTACH") BY <1>1, OnRead
\* No refusal is left to be read.
<1>6. ASSUME ~HasFail(toClient') , serv.welcomed => serv'.welcomed PROVE GateIn'
  <2>1. \A i \in 1..Len(toClient') : ~OwnFail(toClient'[i]) BY <1>6 DEF HasFail
  <2>2. ASSUME NEW i \in 1..Len(toClient'), toClient'[i].line = "FAIL"
        PROVE  serv'.welcomed
    <3>1. i + 1 \in 1..Len(toClient) /\ toClient'[i] = toClient[i + 1] BY <1>1, ReadPlaces
    <3>2. ~OwnFail(toClient[i + 1]) BY <2>1, <3>1
    <3> QED BY <1>6, <2>2, <3>1, <3>2 DEF GateIn
  <2> QED BY <1>1, <1>3, <1>4, <1>5, <2>1, <2>2 DEF GateIn
\* No ATTACH is on the wire.
<1>7. ASSUME toServer' = toServer, ~On(toServer, "ATTACH"), serv.welcomed => serv'.welcomed
      PROVE  GateOut'
  <2>1. \A i \in 1..Len(toServer') : toServer'[i].line # "ATTACH" BY <1>7 DEF On
  <2> QED BY <1>7, <2>1 DEF GateOut
<1>8. GateHandler BY GateHandles
<1>9. CASE /\ GateKeeps /\ Msg.line \notin {"FAIL", "001", "ATTACH"}
           /\ \A i \in NewLines : toServer'[i].line # "ATTACH"
  <2>1. GateOut' BY <1>1, <1>9, OutGrows
  <2>2. GateIn' BY <1>1, <1>9, InReads
  <2>3. ~OwnFail(toClient[1]) BY <1>2, <1>9 DEF OwnFail
  <2>4. GateNow' BY <1>1, <1>3, <1>9, <2>3 DEF GateNow, GateKeeps
  <2> QED BY <2>1, <2>2, <2>4
<1>10. CASE /\ Msg.line = "903" /\ ~serv.sent_capend /\ serv'.welcomed = serv.welcomed
            /\ serv'.attached /\ serv'.attach_pending
            /\ \A i \in NewLines : toServer'[i].line = "ATTACH" =>
                (toServer'[i].cursor <=> serv'.cursor_sent)
  <2>1. irc.attach = "none" /\ ~On(toServer, "ATTACH")
    BY <1>1, <1>10 DEF EndInv, AttachInv
  <2>2. ~HasFail(toClient) BY <2>1, NoAnswerYet
  <2>3. GateIn' BY <1>3, <1>6, <1>10, <2>2
  <2>4. GateNow' BY <1>1, <2>1 DEF GateNow
  <2>5. On(toServer', "PERSISTENCE") => serv'.welcomed
    BY <1>1, <1>10, OnGrows DEF GateOut
  <2>6. ASSUME NEW i \in 1..Len(toServer'), toServer'[i].line = "ATTACH"
        PROVE  serv'.cursor_sent <=> toServer'[i].cursor
    <3>1. CASE i \in 1..Len(toServer) /\ toServer'[i] = toServer[i]
      BY <2>1, <2>6, <3>1 DEF On
    <3>2. CASE i \in NewLines BY <1>10, <2>6, <3>2
    <3> QED BY <1>1, <3>1, <3>2, WirePlaces
  <2>7. GateOut' BY <1>10, <2>5, <2>6 DEF GateOut
  <2> QED BY <2>3, <2>4, <2>7
<1>11. CASE /\ Msg.line = "001" /\ toServer' = toServer /\ serv'.welcomed
            /\ ~serv'.attach_pending
            /\ serv'.attached = serv.attached /\ serv'.cursor_sent = serv.cursor_sent
  <2>1. On(toClient, "001") BY <1>2, <1>11 DEF On
  <2>2. ~On(toServer, "ATTACH") BY <1>1, <2>1 DEF EndInv, AttachInv
  <2>3. ASSUME NEW i \in 1..Len(toClient), OwnFail(toClient[i]) PROVE FALSE
    <3>1. toClient[1].line = "001" => i < 1 BY <1>2, <1>4, <2>3 DEF FailFirst
    <3>2. i < 1 BY <1>2, <1>11, <3>1
    <3>3. Len(toClient) \in Nat BY Lengths
    <3>4. i >= 1 /\ i \in Nat BY <3>3
    <3> QED BY <3>2, <3>4
  <2>4. ~HasFail(toClient) BY <2>3 DEF HasFail
  <2>5. GateIn' BY <1>3, <1>6, <1>11, <2>4
  <2>6. GateOut' BY <1>7, <1>11, <2>2
  <2>7. GateNow' BY <1>1, <1>11, <2>4 DEF GateNow
  <2> QED BY <2>5, <2>6, <2>7
<1>12. CASE /\ Msg.line = "ATTACH" /\ toServer' = toServer /\ serv'.welcomed = serv.welcomed
            /\ ~serv'.attach_pending
            /\ serv'.attached = serv.attached /\ serv'.cursor_sent = serv.cursor_sent
  <2>1. On(toClient, "ATTACH") BY <1>2, <1>12 DEF On
  <2>2. irc.attach \in {"plain", "cursor"} BY <2>1 DEF GateIn
  <2>3. ~On(toServer, "ATTACH") BY <1>1, <2>2 DEF AttachInv
  <2>4. ASSUME NEW i \in 1..Len(toClient), OwnFail(toClient[i]) PROVE FALSE
    <3>1. toClient[i].code \in Codes BY <2>4, FailTypes DEF OwnFail
    <3>2. toClient[i].code = irc.attach BY <2>4 DEF GateIn
    <3> QED BY <2>2, <3>1, <3>2 DEF Codes
  <2>5. ~HasFail(toClient) BY <2>4 DEF HasFail
  <2>6. GateIn' BY <1>3, <1>6, <1>12, <2>5
  <2>7. GateOut' BY <1>7, <1>12, <2>3
  <2>8. GateNow' BY <1>1, <1>12, <2>2 DEF GateNow
  <2> QED BY <2>6, <2>7, <2>8
<1>13. CASE /\ Msg.line = "FAIL" /\ toServer' = toServer
            /\ ~serv.attach_pending => GateKeeps
            /\ serv.attach_pending =>
                /\ serv'.welcomed = serv.welcomed /\ ~serv'.attach_pending
                /\ serv'.attached <=> serv.attached /\ Msg.code # "ACCOUNT_REQUIRED"
                /\ serv'.cursor_sent <=> serv.cursor_sent /\ Msg.code = "OTHER"
  <2>1. CASE OwnFail(toClient[1])
    <3>1. toClient[1].code = irc.attach /\ serv.attach_pending /\ ~serv.welcomed
      BY <1>2, <2>1 DEF GateIn
    <3>2. irc.attach \in Codes BY <1>2, <2>1, <3>1, FailTypes DEF OwnFail
    <3>3. ~On(toServer, "ATTACH") BY <1>1, <3>2 DEF AttachInv, Codes
    <3>4. ~HasFail(toClient') BY <1>3, <1>4, <2>1
    <3>5. GateIn' BY <1>6, <1>13, <3>1, <3>4
    <3>6. GateOut' BY <1>7, <1>13, <3>1, <3>3
    <3>7. GateNow' BY <1>1, <1>2, <1>13, <3>1, <3>2 DEF GateNow, Codes
    <3> QED BY <3>5, <3>6, <3>7
  <2>2. CASE ~OwnFail(toClient[1])
    <3>1. serv.welcomed BY <1>2, <1>13, <2>2 DEF GateIn
    <3>2. ~serv.attach_pending BY <1>1, <3>1 DEF AttachInv
    <3>3. GateKeeps BY <1>13, <3>2
    <3>4. GateIn' BY <1>1, <3>3, InReads
    <3>5. GateOut' BY <1>13, <3>3 DEF GateOut, GateKeeps
    <3>6. GateNow' BY <1>1, <1>3, <2>2, <3>3 DEF GateNow, GateKeeps
    <3> QED BY <3>4, <3>5, <3>6
  <2> QED BY <2>1, <2>2
<1> QED BY <1>8, <1>9, <1>10, <1>11, <1>12, <1>13 DEF GateHandler

\* The steps of the server keep the gate.
LEMMA GateServiceStep ==
    ASSUME TypeOK, TypeOK', EndInv, AttachInv, GateInv, Service
    PROVE  GateInv'
<1>1. /\ serv.connected /\ Read(toServer, toServer') /\ RepliesGrow
      /\ serv' = serv /\ hist' = hist /\ 1 \in 1..Len(toServer) /\ Len(toServer') \in Nat
      /\ irc'.attach = irc.attach \/ Takes
  BY ServiceFacts
<1> SUFFICES ASSUME ~hist.early, GateOut, GateIn, GateNow PROVE GateOut' /\ GateIn' /\ GateNow'
  BY <1>1, GateParts
<1>2. GateOut'
  <2>1. On(toServer', "PERSISTENCE") => serv'.welcomed BY <1>1, OnRead DEF GateOut
  <2>2. ASSUME NEW i \in 1..Len(toServer'), toServer'[i].line = "ATTACH"
        PROVE  /\ serv'.attached /\ serv'.attach_pending
               /\ serv'.cursor_sent <=> toServer'[i].cursor
    <3>1. i + 1 \in 1..Len(toServer) /\ toServer'[i] = toServer[i + 1] BY <1>1, ReadPlaces
    <3> QED BY <1>1, <2>2, <3>1 DEF GateOut
  <2> QED BY <2>1, <2>2 DEF GateOut
<1>3. CASE /\ irc'.attach = irc.attach
           /\ \A i \in Replies : toClient'[i].line \notin {"FAIL", "ATTACH"}
  <2>1. GateIn' /\ (HasFail(toClient) => HasFail(toClient')) BY <1>1, <1>3, InGrows
  <2>2. GateNow' BY <1>1, <1>3, <2>1 DEF GateNow
  <2> QED BY <1>2, <2>1, <2>2
<1>4. CASE Lists \/ Grants \/ Exchanges \/ Welcomes
  <2>1. \A i \in Replies : toClient'[i].line \notin {"FAIL", "ATTACH"}
    BY <1>4 DEF Lists, Grants, Exchanges, Exchanged, Welcomes
  <2>2. toServer[1].line # "ATTACH" BY <1>4 DEF Lists, Grants, Exchanges, Welcomes
  <2>3. ~Takes BY <2>2 DEF Takes
  <2> QED BY <1>1, <1>3, <2>1, <2>3
<1>5. CASE Replied
  <2>1. toServer[1].line = "PERSISTENCE" /\ irc' = irc
          /\ \A i \in Replies : toClient'[i].line = "FAIL" /\ ~OwnFail(toClient'[i])
    BY <1>5 DEF Replied, OwnFail
  <2>2. serv.welcomed BY <1>1, <2>1 DEF GateOut, On
  <2>3. /\ \A i \in 1..Len(toClient') :
            \/ i \in 1..Len(toClient) /\ toClient'[i] = toClient[i]
            \/ i \in Replies
        /\ \A i \in 1..Len(toClient) : i \in 1..Len(toClient') /\ toClient'[i] = toClient[i]
        /\ \A i \in Replies : \A j \in 1..Len(toClient) : j < i
    BY <1>1, ReplyPlaces
  <2>4. ~HasFail(toClient) BY <2>2 DEF GateIn, HasFail
  <2>5. \A i \in 1..Len(toClient') : ~OwnFail(toClient'[i]) BY <2>1, <2>3, <2>4 DEF HasFail
  <2>6. On(toClient', "ATTACH") => On(toClient, "ATTACH") BY <1>1, <2>1, OnReplies
  <2>7. GateIn' BY <1>1, <2>1, <2>2, <2>5, <2>6 DEF GateIn, FailFirst
  <2>8. GateNow' BY <1>1, <2>1, <2>4 DEF GateNow
  <2> QED BY <1>2, <2>7, <2>8
<1>6. CASE Takes
  <2>1. toServer[1].line = "ATTACH" /\ toServer[1].cursor \in BOOLEAN BY <1>6 DEF Takes
  <2>2. On(toServer, "ATTACH") BY <1>1, <2>1 DEF On
  <2>3. irc.attach = "none" /\ ~irc.ended BY <1>1, <2>2 DEF AttachInv
  <2>4. ~On(toClient, "ATTACH") /\ ~HasFail(toClient) BY <2>3, NoAnswerYet
  <2>5. ~On(toClient, "001") /\ ~serv.welcomed BY <1>1, <2>3 DEF EndInv
  <2>6. /\ serv.attached /\ serv.attach_pending /\ (serv.cursor_sent <=> toServer[1].cursor)
    BY <1>1, <2>1 DEF GateOut
  <2>7. /\ \A i \in 1..Len(toClient') :
            \/ i \in 1..Len(toClient) /\ toClient'[i] = toClient[i]
            \/ i \in Replies
        /\ \A i \in 1..Len(toClient) : i \in 1..Len(toClient') /\ toClient'[i] = toClient[i]
        /\ \A i \in Replies : i \in 1..Len(toClient') /\ \A j \in 1..Len(toClient) : j < i
    BY <1>1, ReplyPlaces
  <2>8. \A i \in 1..Len(toClient) : toClient[i].line # "FAIL"
    BY <2>4, <2>5 DEF GateIn, HasFail
  <2>9. irc \in Irc BY DEF TypeOK
  <2>10. CASE /\ irc' = [irc EXCEPT !.attach =
                            IF toServer[1].cursor THEN "cursor" ELSE "plain"]
              /\ \A i \in Replies : toClient'[i].line = "ATTACH"
    <3>1. irc'.attach = IF toServer[1].cursor THEN "cursor" ELSE "plain"
      BY <2>9, <2>10 DEF Irc
    <3>2. \A i \in 1..Len(toClient') : toClient'[i].line # "FAIL" BY <2>7, <2>8, <2>10
    <3>3. GateIn' BY <3>1, <3>2 DEF GateIn, FailFirst, OwnFail
    <3>4. GateNow' BY <1>1, <2>6, <3>1 DEF GateNow
    <3> QED BY <1>2, <3>3, <3>4
  <2>11. CASE \E code \in Codes :
                /\ irc' = [irc EXCEPT !.attach = code]
                /\ \A i \in Replies :
                    /\ toClient'[i].line = "FAIL" /\ toClient'[i].own
                    /\ toClient'[i].code = code /\ i = Len(toClient')
                /\ Len(toClient') \in Replies
    <3>1. PICK code \in Codes :
                /\ irc' = [irc EXCEPT !.attach = code]
                /\ \A i \in Replies :
                    /\ toClient'[i].line = "FAIL" /\ toClient'[i].own
                    /\ toClient'[i].code = code /\ i = Len(toClient')
                /\ Len(toClient') \in Replies
      BY <2>11
    <3>2. irc'.attach = code BY <2>9, <3>1 DEF Irc
    <3>3. \A i \in 1..Len(toClient') : toClient'[i].line = "FAIL" =>
            i \in Replies /\ OwnFail(toClient'[i]) /\ toClient'[i].code = code
              /\ i = Len(toClient')
      BY <2>7, <2>8, <3>1 DEF OwnFail
    <3>4. \A i \in 1..Len(toClient') : toClient'[i].line # "001"
      BY <2>5, <2>7, <3>1 DEF On
    <3>5. FailFirst(toClient') BY <3>3, <3>4 DEF FailFirst, OwnFail
    <3>6. ~On(toClient', "ATTACH") BY <1>1, <2>4, <3>1, OnReplies
    <3>7. ASSUME NEW i \in 1..Len(toClient')
          PROVE  /\ toClient'[i].line = "FAIL" /\ ~OwnFail(toClient'[i]) => serv'.welcomed
                 /\ OwnFail(toClient'[i]) =>
                        /\ toClient'[i].code = irc'.attach
                        /\ serv'.attach_pending /\ ~serv'.welcomed
      <4>1. OwnFail(toClient'[i]) => toClient'[i].line = "FAIL" BY DEF OwnFail
      <4> QED BY <1>1, <2>5, <2>6, <3>2, <3>3, <4>1
    <3>8. GateIn' BY <3>5, <3>6, <3>7 DEF GateIn
    <3>9. HasFail(toClient') BY <2>7, <3>1 DEF HasFail, OwnFail
    <3>10. GateNow' BY <3>2, <3>9 DEF GateNow, Codes
    <3> QED BY <1>2, <3>8, <3>10
  <2> QED BY <1>6, <2>10, <2>11 DEF Takes
<1> QED BY <1>4, <1>5, <1>6 DEF Service

\* Every step keeps the gate.
LEMMA GateStep ==
    ASSUME TypeOK, TypeOK', EndInv, AttachInv, GateInv, Step
    PROVE  GateInv'
<1>1. CASE Links
  <2>1. \A l : (On(toServer', l) => l = "CAP LS") /\ ~On(toClient', l) BY <1>1, LinkWire
  <2>2. irc'.attach = "none" BY <1>1, LinkFacts
  <2>3. GateOut' BY <2>1, IsOn DEF GateOut
  <2>4. GateIn' BY <2>1, IsOn DEF GateIn, FailFirst
  <2>5. GateNow' BY <2>2 DEF GateNow
  <2> QED BY <2>3, <2>4, <2>5, GateParts
<1>2. CASE Drops BY <1>2 DEF Drops, GateInv
<1>3. CASE Handler BY <1>3, GateHandlerStep
<1>4. CASE \E k \in 1..MaxConns + 1 : Retried(k)
  <2>1. PICK k \in 1..MaxConns + 1 : Retried(k) BY <1>4
  <2>2. SUFFICES ASSUME serv'.connected, ~hist'.early PROVE GateOut' /\ GateIn' /\ GateNow'
    BY GateParts
  <2>3. /\ serv.connected /\ ~hist.early /\ WireGrows /\ toClient' = toClient /\ irc' = irc
        /\ SameFlags
    BY <2>1, <2>2 DEF Retried, SameFlags
  <2>4. \A i \in NewLines : toServer'[i].line \notin {"ATTACH", "PERSISTENCE"}
    BY <2>1, LineNames DEF Retried
  <2>5. GateKeeps BY <2>3 DEF SameFlags, GateKeeps
  <2>6. GateOut /\ GateIn /\ GateNow BY <2>3, GateParts
  <2>7. GateOut' BY <2>3, <2>4, <2>5, <2>6, OutGrows
  <2>8. GateIn' /\ GateNow' BY <2>3, <2>5, <2>6 DEF GateIn, GateNow, GateKeeps
  <2> QED BY <2>7, <2>8
<1>5. CASE Commands /\ serv.connected
  <2>1. SUFFICES ASSUME ~hist'.early PROVE GateOut' /\ GateIn' /\ GateNow'
    BY GateParts
  <2>2. /\ ~hist.early /\ serv.welcomed /\ WireGrows /\ toClient' = toClient /\ serv' = serv
        /\ irc' = irc
    BY <1>5, <2>1 DEF Commands
  <2>3. \A i \in NewLines : toServer'[i].line # "ATTACH" BY <1>5, LineNames DEF Commands
  <2>4. GateOut /\ GateIn /\ GateNow BY <1>5, <2>2, GateParts
  <2>5. GateKeeps BY <2>2 DEF GateKeeps
  <2>6. GateOut' BY <2>2, <2>3, <2>4, <2>5, OutGrows
  <2>7. GateIn' /\ GateNow' BY <2>2, <2>4 DEF GateIn, GateNow
  <2> QED BY <2>6, <2>7
<1>6. CASE Service BY <1>6, GateServiceStep
<1>7. CASE Notifies
  <2>1. /\ RepliesGrow /\ serv.connected /\ toServer' = toServer /\ serv' = serv
        /\ hist'.early = hist.early
        /\ \A i \in Replies : toClient'[i].line \notin {"FAIL", "ATTACH"}
    BY <1>7 DEF Notifies
  <2>2. irc'.attach = irc.attach BY <1>7, NotifyFacts
  <2>3. SUFFICES ASSUME ~hist.early PROVE GateOut' /\ GateIn' /\ GateNow'
    BY <2>1, GateParts
  <2>4. GateOut /\ GateIn /\ GateNow BY <2>1, <2>3, GateParts
  <2>5. GateIn' /\ (HasFail(toClient) => HasFail(toClient')) BY <2>1, <2>2, <2>4, InGrows
  <2>6. GateOut' BY <2>1, <2>4 DEF GateOut
  <2>7. GateNow' BY <2>1, <2>2, <2>4, <2>5 DEF GateNow
  <2> QED BY <2>5, <2>6, <2>7
<1> QED BY <1>1, <1>2, <1>3, <1>4, <1>5, <1>6, <1>7 DEF Step

-----------------------------------------------------------------------------
(***************************************************************************)
(* The login and CAP END.                                                  *)
(***************************************************************************)
\* A queue that grew by the lines at the places of new has these and the ones it had; a line
\* stays the only one of its kind if at most one joins it and it was not there.
LEMMA HasGrows ==
    ASSUME NEW q, NEW p, NEW new, NEW l,
           \A i \in 1..Len(p) : (i \in 1..Len(q) /\ p[i] = q[i]) \/ i \in new,
           \A i \in 1..Len(q) : i \in 1..Len(p) /\ p[i] = q[i],
           \A i \in new : i \in 1..Len(p)
    PROVE  /\ Has(p, l) <=> Has(q, l) \/ \E i \in new : Sasl(p[i], l)
           /\ /\ Once(q, l)
              /\ \A i, j \in new : Sasl(p[i], l) /\ Sasl(p[j], l) => i = j
              /\ Has(q, l) => \A i \in new : ~Sasl(p[i], l)
              => Once(p, l)
<1>1. Has(p, l) <=> Has(q, l) \/ \E i \in new : Sasl(p[i], l)
  <2>1. ASSUME NEW i \in 1..Len(p), Sasl(p[i], l)
        PROVE  Has(q, l) \/ \E j \in new : Sasl(p[j], l)
    BY <2>1 DEF Has
  <2>2. ASSUME NEW i \in 1..Len(q), Sasl(q[i], l) PROVE Has(p, l) BY <2>2 DEF Has
  <2>3. ASSUME NEW i \in new, Sasl(p[i], l) PROVE Has(p, l) BY <2>3 DEF Has
  <2> QED BY <2>1, <2>2, <2>3 DEF Has
<1>2. ASSUME Once(q, l), \A i, j \in new : Sasl(p[i], l) /\ Sasl(p[j], l) => i = j,
             Has(q, l) => \A i \in new : ~Sasl(p[i], l)
      PROVE  Once(p, l)
  <2> SUFFICES ASSUME NEW i \in 1..Len(p), NEW j \in 1..Len(p), Sasl(p[i], l), Sasl(p[j], l)
               PROVE  i = j
    BY DEF Once
  <2>1. CASE i \in 1..Len(q) /\ p[i] = q[i]
    <3>1. Has(q, l) BY <2>1 DEF Has
    <3>2. j \in 1..Len(q) /\ p[j] = q[j] BY <1>2, <3>1
    <3> QED BY <1>2, <2>1, <3>2 DEF Once
  <2>2. CASE i \in new
    <3>1. ~Has(q, l) BY <1>2, <2>2
    <3>2. j \in new BY <3>1 DEF Has
    <3> QED BY <1>2, <2>2, <3>2
  <2> QED BY <2>1, <2>2
<1> QED BY <1>1, <1>2

\* A queue that was read has what it had but the first line.
LEMMA HasRead ==
    ASSUME NEW q, NEW p, Read(q, p), Len(p) \in Nat, NEW l
    PROVE  /\ Has(p, l) => Has(q, l)
           /\ Once(q, l) => Once(p, l)
           /\ Once(q, l) /\ 1 \in 1..Len(q) /\ Sasl(q[1], l) => ~Has(p, l)
<1>1. \A i \in 1..Len(p) : i \in Nat /\ i + 1 \in 1..Len(q) /\ p[i] = q[i + 1] BY ReadPlaces
<1>2. Has(p, l) => Has(q, l) BY <1>1 DEF Has
<1>3. ASSUME Once(q, l) PROVE Once(p, l)
  <2> SUFFICES ASSUME NEW i \in 1..Len(p), NEW j \in 1..Len(p), Sasl(p[i], l), Sasl(p[j], l)
               PROVE  i = j
    BY DEF Once
  <2>1. Sasl(q[i + 1], l) /\ Sasl(q[j + 1], l) BY <1>1
  <2>2. i + 1 = j + 1 BY <1>1, <1>3, <2>1 DEF Once
  <2>3. i \in Nat /\ j \in Nat BY <1>1
  <2> QED BY <2>2, <2>3
<1>4. ASSUME Once(q, l), 1 \in 1..Len(q), Sasl(q[1], l), NEW i \in 1..Len(p), Sasl(p[i], l)
      PROVE  FALSE
  <2>1. Sasl(q[i + 1], l) /\ i + 1 \in 1..Len(q) BY <1>1, <1>4
  <2>2. i + 1 = 1 BY <1>4, <2>1 DEF Once
  <2>3. i \in Nat /\ i >= 1 OBVIOUS
  <2> QED BY <2>2, <2>3
<1> QED BY <1>2, <1>3, <1>4 DEF Has

\* The two queues.
LEMMA HasWire ==
    ASSUME WireGrows, NEW l
    PROVE  /\ Has(toServer', l) <=> Has(toServer, l) \/ \E i \in NewLines : Sasl(toServer'[i], l)
           /\ /\ Once(toServer, l)
              /\ \A i, j \in NewLines : Sasl(toServer'[i], l) /\ Sasl(toServer'[j], l) => i = j
              /\ Has(toServer, l) => \A i \in NewLines : ~Sasl(toServer'[i], l)
              => Once(toServer', l)
<1> DEFINE new == NewLines
<1>1. /\ \A i \in 1..Len(toServer') :
            (i \in 1..Len(toServer) /\ toServer'[i] = toServer[i]) \/ i \in new
      /\ \A i \in 1..Len(toServer) : i \in 1..Len(toServer') /\ toServer'[i] = toServer[i]
      /\ \A i \in new : i \in 1..Len(toServer')
  BY WirePlaces
<1> HIDE DEF new
<1>2. /\ Has(toServer', l) <=> Has(toServer, l) \/ \E i \in new : Sasl(toServer'[i], l)
      /\ /\ Once(toServer, l)
         /\ \A i, j \in new : Sasl(toServer'[i], l) /\ Sasl(toServer'[j], l) => i = j
         /\ Has(toServer, l) => \A i \in new : ~Sasl(toServer'[i], l)
         => Once(toServer', l)
  BY <1>1, HasGrows
<1> QED BY <1>2 DEF new

\* The same for the wire to the client.
LEMMA HasReplies ==
    ASSUME RepliesGrow, NEW l
    PROVE  /\ Has(toClient', l) <=> Has(toClient, l) \/ \E i \in Replies : Sasl(toClient'[i], l)
           /\ /\ Once(toClient, l)
              /\ \A i, j \in Replies : Sasl(toClient'[i], l) /\ Sasl(toClient'[j], l) => i = j
              /\ Has(toClient, l) => \A i \in Replies : ~Sasl(toClient'[i], l)
              => Once(toClient', l)
<1> DEFINE new == Replies
<1>1. /\ \A i \in 1..Len(toClient') :
            (i \in 1..Len(toClient) /\ toClient'[i] = toClient[i]) \/ i \in new
      /\ \A i \in 1..Len(toClient) : i \in 1..Len(toClient') /\ toClient'[i] = toClient[i]
      /\ \A i \in new : i \in 1..Len(toClient')
  BY ReplyPlaces
<1> HIDE DEF new
<1>2. /\ Has(toClient', l) <=> Has(toClient, l) \/ \E i \in new : Sasl(toClient'[i], l)
      /\ /\ Once(toClient, l)
         /\ \A i, j \in new : Sasl(toClient'[i], l) /\ Sasl(toClient'[j], l) => i = j
         /\ Has(toClient, l) => \A i \in new : ~Sasl(toClient'[i], l)
         => Once(toClient', l)
  BY <1>1, HasGrows
<1> QED BY <1>2 DEF new

\* A line that names no capability.
LEMMA SaslIs ==
    ASSUME NEW m, NEW l
    PROVE  Sasl(m, l) => m.line = l
BY DEF Sasl
\* A line that is at a place of the queue is one it has.
LEMMA IsHad ==
    ASSUME NEW q, NEW i \in 1..Len(q), NEW l, Sasl(q[i], l)
    PROVE  Has(q, l)
BY DEF Has

\* Steps that neither send a REQ or a mechanism nor answer one.
LEMMA RequestKeeps ==
    ASSUME RequestNow, hist'.asked = hist.asked,
           irc'.sasl = irc.sasl, irc'.granted = irc.granted,
           \A l \in {"REQ", "MECH"} :
                /\ Has(toServer', l) => Has(toServer, l)
                /\ Once(toServer, l) => Once(toServer', l),
           \A l \in {"PAYLOAD", "ABORT"} :
                Has(toServer', l) => Has(toServer, l) \/ irc.sasl # "idle",
           \A l \in {"ACK", "NAK", "AUTHENTICATE", "903", "904", "906", "907"} :
                Has(toClient', l) => Has(toClient, l),
           Once(toClient, "ACK") => Once(toClient', "ACK"),
           serv'.conn \in refreshes' =>
                serv.conn \in refreshes \/ irc.sasl \in {"failed", "done"}
    PROVE  RequestNow'
BY DEF RequestNow

\* Steps of the client that do not give up the wait and send no REQ for sasl.
LEMMA WaitKeeps ==
    ASSUME WaitNow, WireGrows, irc' = irc,
           \A i \in NewLines : ~Sasl(toServer'[i], "REQ"),
           serv.waiting_on_sasl /\ ~serv.sent_capend =>
                serv'.waiting_on_sasl /\ ~serv'.sent_capend
    PROVE  WaitNow'
<1>1. ASSUME NEW i \in 1..Len(toServer'), Sasl(toServer'[i], "REQ")
      PROVE  \/ ~serv'.sent_capend /\ serv'.waiting_on_sasl
             \/ irc'.ended
             \/ \E j \in 1..Len(toServer') : j < i /\ toServer'[j].line = "CAP END"
  <2>1. i \in 1..Len(toServer) /\ toServer'[i] = toServer[i] BY <1>1, WirePlaces
  <2>2. \/ ~serv.sent_capend /\ serv.waiting_on_sasl
        \/ irc.ended
        \/ \E j \in 1..Len(toServer) : j < i /\ toServer[j].line = "CAP END"
    BY <1>1, <2>1 DEF WaitNow
  <2>3. \A j \in 1..Len(toServer) : j \in 1..Len(toServer') /\ toServer'[j] = toServer[j]
    BY WirePlaces
  <2> QED BY <2>2, <2>3
<1> QED BY <1>1 DEF WaitNow

\* Steps after which nothing is waited for.
LEMMA WaitOver ==
    ASSUME ~Has(toServer', "REQ"), irc'.granted => irc'.sasl \notin {"idle", "selected"}
    PROVE  WaitNow'
BY DEF WaitNow, Has

\* A place before the next one is before this one when the queue moves up.
LEMMA Before ==
    ASSUME NEW n \in Nat, NEW j \in 1..n, NEW i \in Nat, j < i + 1
    PROVE  j - 1 < i
OBVIOUS

\* Steps of the server.
LEMMA WaitReads ==
    ASSUME WaitNow, Read(toServer, toServer'), Len(toServer') \in Nat, serv' = serv,
           irc'.ended <=> irc.ended \/ toServer[1].line = "CAP END",
           irc'.granted /\ ~irc'.ended /\ irc'.sasl \in {"idle", "selected"} =>
                serv.waiting_on_sasl /\ ~serv.sent_capend
    PROVE  WaitNow'
<1>0. /\ \A i \in 1..Len(toServer') :
            i \in Nat /\ i + 1 \in 1..Len(toServer) /\ toServer'[i] = toServer[i + 1]
      /\ \A i \in 1..Len(toServer) :
            i = 1 \/ (i - 1 \in 1..Len(toServer') /\ toServer[i] = toServer'[i - 1])
      /\ Len(toServer) \in Nat
  BY ReadPlaces
<1>1. ASSUME NEW i \in 1..Len(toServer'), Sasl(toServer'[i], "REQ")
      PROVE  \/ ~serv'.sent_capend /\ serv'.waiting_on_sasl
             \/ irc'.ended
             \/ \E j \in 1..Len(toServer') : j < i /\ toServer'[j].line = "CAP END"
  <2>1. i + 1 \in 1..Len(toServer) /\ toServer'[i] = toServer[i + 1] /\ i \in Nat BY <1>0
  <2>2. \/ ~serv.sent_capend /\ serv.waiting_on_sasl
        \/ irc.ended
        \/ \E j \in 1..Len(toServer) : j < i + 1 /\ toServer[j].line = "CAP END"
    BY <1>1, <2>1 DEF WaitNow
  <2>3. ASSUME NEW j \in 1..Len(toServer), j < i + 1, toServer[j].line = "CAP END"
        PROVE  irc'.ended \/ \E k \in 1..Len(toServer') : k < i /\ toServer'[k].line = "CAP END"
    <3>1. CASE j = 1 BY <2>3, <3>1
    <3>2. CASE j # 1
      <4> DEFINE k == j - 1
      <4>1. k \in 1..Len(toServer') /\ toServer[j] = toServer'[k] BY <1>0, <3>2
      <4>2. k < i
        <5> QED BY <1>0, <2>1, <2>3, Before
      <4> HIDE DEF k
      <4> QED BY <2>3, <4>1, <4>2
    <3> QED BY <3>1, <3>2
  <2> QED BY <2>2, <2>3
<1> QED BY <1>1 DEF WaitNow

\* What no line of a given kind is.
LEMMA NotSasl ==
    ASSUME NEW m, NEW l, m.line # l
    PROVE  ~Sasl(m, l)
BY DEF Sasl

\* CAP LS or CAP NEW: the first request for sasl finds nothing of another one.
LEMMA AskStep ==
    ASSUME TypeOK, EndInv, serv.connected, RequestNow, WaitNow, hist'.asked < 2,
           Len(toClient') \in Nat,
           NEW want \in SUBSET Caps, NEW ends \in BOOLEAN, AsksFor(want, ends)
    PROVE  RequestNow' /\ WaitNow'
<1> DEFINE req == [line |-> "REQ", caps |-> want]
           end == Line("CAP END")
<1>1. /\ req.line = "REQ" /\ end.line = "CAP END" /\ (Sasl(req, "REQ") <=> "sasl" \in want)
  BY LineNames DEF Sasl
<1>2. /\ WireGrows /\ Read(toClient, toClient') /\ irc' = irc /\ refreshes' = refreshes
      /\ \A i \in NewLines : (toServer'[i] = req /\ i = Len(toServer) + 1)
                             \/ (toServer'[i] = end /\ ends)
      /\ ends => ~serv'.waiting_on_sasl
      /\ serv'.waiting_on_sasl <=> serv.waiting_on_sasl \/ "sasl" \in want
      /\ serv'.sent_capend <=> serv.sent_capend \/ ends
      /\ serv'.conn = serv.conn
  BY DEF AsksFor, SameFlags
<1>3. /\ "sasl" \in want => hist.asked = 0 /\ hist'.asked = 1
      /\ "sasl" \notin want => hist'.asked = hist.asked
  <2>1. hist' = Requested(want) BY DEF AsksFor
  <2>2. hist \in Hist /\ hist.asked \in 0..2 BY DEF TypeOK, Hist
  <2>3. hist'.asked = IF "sasl" \in want /\ hist.asked < 2 THEN hist.asked + 1 ELSE hist.asked
    BY <2>1, <2>2 DEF Requested, Hist
  <2> QED BY <2>2, <2>3
<1> HIDE DEF req, end
<1>4. \A i \in NewLines : \A l : Sasl(toServer'[i], l) =>
        \/ l = "REQ" /\ "sasl" \in want /\ i = Len(toServer) + 1
        \/ l = "CAP END"
  BY <1>1, <1>2 DEF Sasl
<1>5. \A l : (Has(toClient', l) => Has(toClient, l)) /\ (Once(toClient, l) => Once(toClient', l))
  BY <1>2, HasRead
<1>6. \A l \in {"MECH", "PAYLOAD", "ABORT"} :
        (Has(toServer', l) => Has(toServer, l)) /\ (Once(toServer, l) => Once(toServer', l))
  BY <1>2, <1>4, HasWire
<1>7. CASE "sasl" \notin want
  <2>1. \A i \in NewLines : ~Sasl(toServer'[i], "REQ") BY <1>4, <1>7
  <2>2. /\ Has(toServer', "REQ") => Has(toServer, "REQ")
        /\ Once(toServer, "REQ") => Once(toServer', "REQ")
    BY <1>2, <2>1, HasWire
  <2>3. RequestNow' BY <1>2, <1>3, <1>5, <1>6, <1>7, <2>2, RequestKeeps
  <2>4. WaitNow' BY <1>2, <2>1, WaitKeeps
  <2> QED BY <2>3, <2>4
<1>8. CASE "sasl" \in want
  <2>1. /\ irc.sasl = "idle" /\ ~irc.granted /\ ~Has(toServer, "REQ") /\ ~Has(toServer, "MECH")
        /\ ~Has(toClient, "ACK") /\ ~Has(toClient, "NAK") /\ hist'.asked = 1
    BY <1>3, <1>8 DEF RequestNow
  <2>2. Once(toServer', "REQ")
    <3>1. Once(toServer, "REQ") BY DEF RequestNow
    <3>2. \A i, j \in NewLines : Sasl(toServer'[i], "REQ") /\ Sasl(toServer'[j], "REQ") => i = j
      BY <1>4
    <3> QED BY <1>2, <2>1, <3>1, <3>2, HasWire
  <2>3. RequestNow'
    <3>1. hist'.asked # 0 BY <2>1
    <3> QED BY <1>2, <1>5, <1>6, <2>1, <2>2, <3>1 DEF RequestNow
  <2>4. ~ends /\ serv'.waiting_on_sasl BY <1>2, <1>8
  <2>5. ASSUME NEW i \in 1..Len(toServer'), Sasl(toServer'[i], "REQ")
        PROVE  \/ ~serv'.sent_capend /\ serv'.waiting_on_sasl
               \/ irc'.ended
               \/ \E j \in 1..Len(toServer') : j < i /\ toServer'[j].line = "CAP END"
    <3>1. i \in NewLines BY <1>2, <2>1, <2>5, WirePlaces DEF Has
    <3>2. CASE ~serv.sent_capend BY <1>2, <2>4, <3>2
    <3>3. CASE serv.sent_capend
      <4>1. On(toServer, "CAP END") \/ irc.ended BY <3>3 DEF EndInv
      <4>2. ASSUME NEW j \in 1..Len(toServer), toServer[j].line = "CAP END"
            PROVE  j \in 1..Len(toServer') /\ j < i /\ toServer'[j].line = "CAP END"
        BY <1>2, <3>1, <4>2, WirePlaces
      <4> QED BY <1>2, <4>1, <4>2 DEF On
    <3> QED BY <3>2, <3>3
  <2>6. WaitNow' BY <1>2, <2>1, <2>5 DEF WaitNow
  <2> QED BY <2>3, <2>6
<1> QED BY <1>7, <1>8

\* CAP ACK: the mechanism takes the place of the acknowledgement.
LEMMA ToggleStep ==
    ASSUME RequestNow, WaitNow, Len(toClient') \in Nat, 1 \in 1..Len(toClient),
           Msg = toClient[1], Toggles
    PROVE  RequestNow' /\ WaitNow'
<1>1. /\ WireGrows /\ Read(toClient, toClient') /\ irc' = irc /\ refreshes' = refreshes
      /\ hist' = hist /\ serv'.conn = serv.conn
      /\ serv'.waiting_on_sasl = serv.waiting_on_sasl
      /\ serv'.sent_capend = serv.sent_capend
      /\ \A i \in NewLines : /\ toServer'[i].line = "MECH" /\ i = Len(toServer')
                             /\ Sasl(toClient[1], "ACK")
  BY LineNames DEF Toggles, SameFlags
<1>2. \A i \in NewLines : \A l : Sasl(toServer'[i], l) => l = "MECH" BY <1>1, SaslIs
<1>3. WaitNow' BY <1>1, <1>2, WaitKeeps
<1>4. \A l : (Has(toClient', l) => Has(toClient, l)) /\ (Once(toClient, l) => Once(toClient', l))
  BY <1>1, HasRead
<1>5. \A l \in {"REQ", "PAYLOAD", "ABORT"} :
        (Has(toServer', l) => Has(toServer, l)) /\ (Once(toServer, l) => Once(toServer', l))
  BY <1>1, <1>2, HasWire
<1>6. CASE Sasl(toClient[1], "ACK")
  <2>1. Has(toClient, "ACK") BY <1>6, IsHad
  <2>2. /\ irc.sasl = "idle" /\ ~Has(toServer, "REQ") /\ ~Has(toServer, "MECH")
        /\ hist.asked # 0 /\ Once(toClient, "ACK") /\ Once(toServer, "MECH")
    BY <2>1 DEF RequestNow
  <2>3. ~Has(toClient', "ACK") BY <1>1, <1>6, <2>2, HasRead
  <2>4. Once(toServer', "MECH") BY <1>1, <2>2, HasWire
  <2> QED BY <1>1, <1>3, <1>4, <1>5, <2>2, <2>3, <2>4 DEF RequestNow
<1>7. CASE ~Sasl(toClient[1], "ACK")
  <2>1. (Has(toServer', "MECH") => Has(toServer, "MECH"))
          /\ (Once(toServer, "MECH") => Once(toServer', "MECH"))
    BY <1>1, <1>7, HasWire
  <2>2. RequestNow' BY <1>1, <1>4, <1>5, <2>1, RequestKeeps
  <2> QED BY <1>3, <2>2
<1> QED BY <1>6, <1>7

\* The other handlers of the client.
LEMMA RequestHandlerStep ==
    ASSUME TypeOK, TypeOK', EndInv, OneRequest, WaitInv, Handler, Watched'
    PROVE  RequestNow' /\ WaitNow'
<1>0. /\ serv.connected /\ 1 \in 1..Len(toClient) /\ Len(toClient') \in Nat
      /\ Msg = toClient[1] /\ Len(toServer) \in Nat /\ hist'.asked < 2 /\ ~hist'.stale
      /\ hist \in Hist
  BY Lengths DEF Handler, Watched, TypeOK, Hist
<1>1. /\ irc' = irc /\ Read(toClient, toClient') /\ WireGrows /\ hist'.stale = hist.stale
      /\ serv'.connected
  BY HandlerFacts
<1>a. hist'.asked >= hist.asked /\ hist.asked \in 0..2
  <2>1. hist.asked \in 0..2 BY <1>0 DEF Hist
  <2>2. hist' = hist \/ \E want : hist' = Requested(want)
    BY DEF Handler, Negotiates, AsksFor, Toggles, Refused, Naks, Answers, Finishes, Over,
           Refreshing, Flags
  <2>3. ASSUME NEW want PROVE Requested(want).asked >= hist.asked
    <3>1. Requested(want).asked =
            IF "sasl" \in want /\ hist.asked < 2 THEN hist.asked + 1 ELSE hist.asked
      BY <1>0 DEF Requested, Hist
    <3> QED BY <2>1, <3>1
  <2> QED BY <2>1, <2>2, <2>3
<1>b. RequestNow /\ WaitNow
  <2>1. hist.asked < 2
    <3>1. hist'.asked \in 0..2 BY DEF TypeOK
    <3> QED BY <1>0, <1>a, <3>1
  <2> QED BY <1>0, <1>1, <2>1 DEF OneRequest, WaitInv, Watched
<1>2. \A l : (Has(toClient', l) => Has(toClient, l)) /\ (Once(toClient, l) => Once(toClient', l))
  BY <1>0, <1>1, HasRead
<1>3. \A l : Sasl(toClient[1], l) => Has(toClient, l) BY <1>0, IsHad
\* Without a REQ or a mechanism on the wire.
<1>4. ASSUME \A i \in NewLines : toServer'[i].line \notin {"REQ", "MECH"},
             \A i \in NewLines : toServer'[i].line \in {"PAYLOAD", "ABORT"} => irc.sasl # "idle",
             hist' = hist, serv'.conn = serv.conn,
             serv.conn \in refreshes' =>
                serv.conn \in refreshes \/ irc.sasl \in {"failed", "done"}
      PROVE  RequestNow' /\ \A i \in NewLines : ~Sasl(toServer'[i], "REQ")
  <2>1. \A l \in {"REQ", "MECH"} : \A i \in NewLines : ~Sasl(toServer'[i], l)
    BY <1>4, NotSasl
  <2>2. \A l \in {"REQ", "MECH"} :
            (Has(toServer', l) => Has(toServer, l)) /\ (Once(toServer, l) => Once(toServer', l))
    BY <1>1, <2>1, HasWire
  <2>3. \A l \in {"PAYLOAD", "ABORT"} : Has(toServer', l) => Has(toServer, l) \/ irc.sasl # "idle"
    BY <1>1, <1>4, HasWire, SaslIs
  <2> QED BY <1>1, <1>2, <1>4, <1>b, <2>1, <2>2, <2>3, RequestKeeps
<1>5. CASE Negotiates /\ Msg.line = "LS"
  BY <1>0, <1>5, <1>b, AskStep DEF Negotiates
<1>6. CASE Toggles /\ Msg.line \in {"ACK", "DEL"} BY <1>0, <1>6, <1>b, ToggleStep
<1>7. CASE Refused
  <2>1. PICK ends \in BOOLEAN : Naks(ends) BY <1>7 DEF Refused
  <2>2. Msg.line = "NAK" /\ serv'.conn = serv.conn /\ refreshes' = refreshes /\ hist' = hist
    BY <1>7, <2>1 DEF Refused, Naks, SameFlags
  <2>3. \A i \in NewLines : toServer'[i].line = "CAP END" BY <2>1, LineNames DEF Naks
  <2>4. RequestNow' /\ \A i \in NewLines : ~Sasl(toServer'[i], "REQ") BY <1>4, <2>2, <2>3
  <2>5. CASE "sasl" \in Msg.caps
    <3>1. Has(toClient, "NAK") BY <1>0, <1>3, <2>2, <2>5 DEF Sasl
    <3>2. ~irc.granted /\ ~Has(toServer, "REQ") BY <1>b, <3>1 DEF RequestNow
    <3>3. ~Has(toServer', "REQ") BY <1>1, <2>4, <3>2, HasWire
    <3>4. WaitNow' BY <1>1, <3>2, <3>3, WaitOver
    <3> QED BY <2>4, <3>4
  <2>6. CASE "sasl" \notin Msg.caps
    <3>1. serv.waiting_on_sasl /\ ~serv.sent_capend =>
            serv'.waiting_on_sasl /\ ~serv'.sent_capend
      BY <2>1, <2>6 DEF Naks
    <3>2. WaitNow' BY <1>1, <1>b, <2>4, <3>1, WaitKeeps
    <3> QED BY <2>4, <3>2
  <2> QED BY <2>5, <2>6
<1>8. CASE Answers
  <2>1. Msg.line = "AUTHENTICATE" => Has(toClient, "AUTHENTICATE") BY <1>0, <1>3 DEF Sasl
  <2>2. NewLines # {} => irc.sasl # "idle" BY <1>8, <1>b, <2>1 DEF Answers, RequestNow
  <2>3. \A i \in NewLines : toServer'[i].line \in {"PAYLOAD", "ABORT"}
    BY <1>8, LineNames DEF Answers
  <2>4. serv' = serv /\ refreshes' = refreshes /\ hist' = hist BY <1>8 DEF Answers
  <2>5. RequestNow' /\ \A i \in NewLines : ~Sasl(toServer'[i], "REQ")
    BY <1>4, <2>2, <2>3, <2>4
  <2>6. WaitNow' BY <1>1, <1>b, <2>4, <2>5, WaitKeeps
  <2> QED BY <2>5, <2>6
<1>9. CASE Finishes
  <2>1. PICK ok \in BOOLEAN : Over(ok) /\ Msg.line \in {"903", "904", "906", "907"}
    BY <1>9 DEF Finishes
  <2>2. \E l \in {"903", "904", "906", "907"} : Has(toClient, l)
    BY <1>0, <1>3, <2>1 DEF Sasl
  <2>3. irc.sasl \in {"failed", "done"} BY <1>b, <2>2 DEF RequestNow
  <2> DEFINE att == [line |-> "ATTACH", cursor |-> serv'.cursor_sent]
  <2>4. att.line = "ATTACH" OBVIOUS
  <2>5. \A i \in NewLines : \/ toServer'[i] = Line("ABORT") \/ toServer'[i] = Line("CAP END")
                            \/ toServer'[i] = att
    BY <2>1 DEF Over
  <2> HIDE DEF att
  <2>6. \A i \in NewLines : toServer'[i].line \in {"ABORT", "CAP END", "ATTACH"}
    BY <2>4, <2>5, LineNames
  <2>7. serv'.conn = serv.conn /\ refreshes' = refreshes /\ hist' = hist BY <2>1 DEF Over
  <2>8. RequestNow' /\ \A i \in NewLines : ~Sasl(toServer'[i], "REQ")
    BY <1>4, <2>3, <2>6, <2>7
  <2>9. ~Has(toServer, "REQ") BY <1>b, <2>3 DEF RequestNow
  <2>10. ~Has(toServer', "REQ") BY <1>1, <2>8, <2>9, HasWire
  <2>11. WaitNow' BY <1>1, <2>3, <2>10, WaitOver
  <2> QED BY <2>8, <2>11
<1>10. CASE Refreshing /\ Msg.line = "904"
  <2>1. Has(toClient, "904") BY <1>0, <1>3, <1>10 DEF Sasl
  <2>2. irc.sasl \in {"failed", "done"} BY <1>b, <2>1 DEF RequestNow
  <2>3. NewLines = {} BY <1>0, <1>10 DEF Refreshing, NewLines
  <2>4. /\ serv'.conn = serv.conn /\ hist' = hist
        /\ serv'.waiting_on_sasl = serv.waiting_on_sasl /\ serv'.sent_capend = serv.sent_capend
    BY <1>10 DEF Refreshing, SameFlags
  <2>5. RequestNow' /\ \A i \in NewLines : ~Sasl(toServer'[i], "REQ")
    BY <1>4, <2>2, <2>3, <2>4
  <2>6. WaitNow' BY <1>1, <1>b, <2>4, <2>5, WaitKeeps
  <2> QED BY <2>5, <2>6
<1>11. CASE Flags
  <2>1. NewLines = {} BY <1>0, <1>11 DEF Flags, NewLines
  <2>2. /\ serv'.conn = serv.conn /\ hist' = hist /\ refreshes' = refreshes
        /\ serv'.waiting_on_sasl = serv.waiting_on_sasl /\ serv'.sent_capend = serv.sent_capend
    BY <1>11 DEF Flags
  <2>3. RequestNow' /\ \A i \in NewLines : ~Sasl(toServer'[i], "REQ")
    BY <1>4, <2>1, <2>2
  <2>4. WaitNow' BY <1>1, <1>b, <2>2, <2>3, WaitKeeps
  <2> QED BY <2>3, <2>4
<1> QED BY <1>5, <1>6, <1>7, <1>8, <1>9, <1>10, <1>11 DEF Handler

\* The server answers a request for sasl: the answer takes the place of the REQ.
LEMMA GrantStep ==
    ASSUME TypeOK, TypeOK', RequestNow, WaitNow, Service, Grants
    PROVE  RequestNow' /\ WaitNow'
<1>1. /\ Read(toServer, toServer') /\ RepliesGrow /\ serv' = serv /\ refreshes' = refreshes
      /\ hist' = hist /\ 1 \in 1..Len(toServer) /\ Len(toServer') \in Nat
      /\ irc'.ended <=> irc.ended \/ toServer[1].line = "CAP END"
  BY ServiceFacts
<1>2. irc'.sasl = irc.sasl /\ irc'.ended = irc.ended /\ toServer[1].line = "REQ"
  BY Lengths DEF Grants, Irc
<1>3. /\ \A i \in Replies : i = Len(toClient')
      /\ \/ /\ irc'.granted <=> irc.granted \/ (~irc.ended /\ "sasl" \in toServer[1].caps)
            /\ \A i \in Replies : toClient'[i].line = "ACK"
                                  /\ toClient'[i].caps = toServer[1].caps
         \/ /\ irc'.granted = irc.granted
            /\ \A i \in Replies : toClient'[i].line = "NAK"
                                  /\ toClient'[i].caps = toServer[1].caps
  BY DEF Grants
<1>4. \A l : (Has(toServer', l) => Has(toServer, l)) /\ (Once(toServer, l) => Once(toServer', l))
  BY <1>1, HasRead
<1>5. \A i \in Replies : \A l : Sasl(toClient'[i], l) =>
            l \in {"ACK", "NAK"} /\ "sasl" \in toServer[1].caps
  BY <1>3 DEF Sasl
<1>6. \A l \in {"AUTHENTICATE", "903", "904", "906", "907"} : Has(toClient', l) => Has(toClient, l)
  BY <1>1, <1>5, HasReplies
<1>7. CASE "sasl" \notin toServer[1].caps
  <2>1. \A l \in {"ACK", "NAK"} : (Has(toClient', l) => Has(toClient, l))
                                  /\ (Once(toClient, l) => Once(toClient', l))
    BY <1>1, <1>5, <1>7, HasReplies
  <2>2. irc'.granted <=> irc.granted BY <1>3, <1>7
  <2>3. irc.granted \in BOOLEAN /\ irc'.granted \in BOOLEAN BY Lengths DEF Irc
  <2>4. RequestNow' BY <1>1, <1>2, <1>4, <1>6, <2>1, <2>2, <2>3, RequestKeeps
  <2>5. WaitNow'
    <3>1. irc'.granted /\ ~irc'.ended /\ irc'.sasl \in {"idle", "selected"} =>
            serv.waiting_on_sasl /\ ~serv.sent_capend
      BY <1>2, <2>2 DEF WaitNow
    <3> QED BY <1>1, <3>1, WaitReads
  <2> QED BY <2>4, <2>5
<1>8. CASE "sasl" \in toServer[1].caps
  <2>1. Sasl(toServer[1], "REQ") BY <1>2, <1>8 DEF Sasl
  <2>2. Has(toServer, "REQ") BY <1>1, <2>1, IsHad
  <2>3. /\ irc.sasl = "idle" /\ ~irc.granted /\ ~Has(toServer, "MECH")
        /\ ~Has(toClient, "ACK") /\ ~Has(toClient, "NAK") /\ hist.asked # 0
        /\ Once(toServer, "REQ") /\ Once(toServer, "MECH") /\ Once(toClient, "ACK")
    BY <2>2 DEF RequestNow
  <2>4. ~Has(toServer', "REQ") BY <1>1, <2>1, <2>3, HasRead
  <2>5. Once(toClient', "ACK")
    <3>1. \A i, j \in Replies : i = j BY <1>3
    <3>2. RepliesGrow BY <1>1
    <3> QED BY <2>3, <3>1, <3>2, HasReplies
  <2>6. Has(toClient', "NAK") => ~irc'.granted
    <3>1. Has(toClient', "NAK") => \E i \in Replies : Sasl(toClient'[i], "NAK")
      <4>1. RepliesGrow BY <1>1
      <4> QED BY <2>3, <4>1, HasReplies
    <3>2. Has(toClient', "NAK") => \E i \in Replies : toClient'[i].line = "NAK"
      BY <3>1, SaslIs
    <3> QED BY <1>3, <2>3, <3>2
  <2>7. RequestNow'
    BY <1>1, <1>2, <1>4, <1>6, <2>3, <2>4, <2>5, <2>6 DEF RequestNow
  <2>8. ~irc.ended => serv.waiting_on_sasl /\ ~serv.sent_capend
    <3>1. \/ ~serv.sent_capend /\ serv.waiting_on_sasl
          \/ irc.ended
          \/ \E j \in 1..Len(toServer) : j < 1 /\ toServer[j].line = "CAP END"
      BY <1>1, <2>1 DEF WaitNow
    <3>2. \A j \in 1..Len(toServer) : ~(j < 1) BY Lengths
    <3> QED BY <3>1, <3>2
  <2>9. WaitNow' BY <1>1, <1>2, <2>8, WaitReads
  <2> QED BY <2>7, <2>9
<1> QED BY <1>7, <1>8

\* A step of the exchange: the mechanism begins it, what follows finds it begun.
LEMMA ExchangeStep ==
    ASSUME TypeOK, TypeOK', RequestNow, WaitNow, Service, Exchanges
    PROVE  RequestNow' /\ WaitNow'
<1>1. /\ Read(toServer, toServer') /\ RepliesGrow /\ serv' = serv /\ refreshes' = refreshes
      /\ hist' = hist /\ 1 \in 1..Len(toServer) /\ Len(toServer') \in Nat
      /\ irc'.ended <=> irc.ended \/ toServer[1].line = "CAP END"
  BY ServiceFacts
<1>2. PICK n \in {"903", "904", "906", "907", "AUTHENTICATE"} : Exchanged(n)
  BY DEF Exchanges
<1>3. toServer[1].line \in {"MECH", "PAYLOAD", "ABORT"} BY DEF Exchanges
<1>4. irc'.granted = irc.granted /\ irc'.ended = irc.ended
  BY <1>2, Lengths DEF Exchanged, Irc
<1>5. /\ \A i \in Replies : toClient'[i].line \in {n, "MECHS"}
      /\ irc.sasl # "idle" \/ toServer[1].line = "MECH" => irc'.sasl # "idle"
      /\ n = "AUTHENTICATE" =>
            (toServer[1].line = "MECH" \/ irc.sasl = "selected") /\ irc'.sasl = "selected"
      /\ n # "AUTHENTICATE" =>
            irc'.sasl \in {"failed", "done"} \/ (irc.sasl = "idle" /\ irc'.sasl = "idle")
      /\ irc'.sasl \in {"idle", "selected"} =>
            irc.sasl \in {"idle", "selected"} \/ toServer[1].line = "MECH"
  BY <1>2 DEF Exchanged
<1>6. \A l : (Has(toServer', l) => Has(toServer, l)) /\ (Once(toServer, l) => Once(toServer', l))
  BY <1>1, HasRead
<1>7. Has(toServer, toServer[1].line)
  <2>1. Sasl(toServer[1], toServer[1].line) BY <1>3 DEF Sasl
  <2> QED BY <1>1, <2>1, IsHad
<1>a. RepliesGrow /\ \A l : l \notin {n, "MECHS"} => \A i \in Replies : ~Sasl(toClient'[i], l)
  BY <1>1, <1>5, NotSasl
<1>8. \A l : l \notin {n, "MECHS"} => (Has(toClient', l) => Has(toClient, l))
  BY <1>a, HasReplies
<1>9. Once(toClient, "ACK") => Once(toClient', "ACK")
  <2>1. \A i \in Replies : ~Sasl(toClient'[i], "ACK") BY <1>a
  <2> QED BY <1>a, <2>1, HasReplies
<1>10. CASE toServer[1].line = "MECH"
  <2>1. /\ irc.sasl = "idle" /\ ~Has(toServer, "REQ") /\ ~Has(toClient, "ACK")
        /\ Once(toServer, "MECH") /\ hist.asked # 0 /\ serv.conn \notin refreshes
        /\ \A l \in {"903", "904", "906", "907"} : ~Has(toClient, l)
    BY <1>7, <1>10 DEF RequestNow
  <2>2. ~Has(toServer', "MECH")
    <3>1. Sasl(toServer[1], "MECH") BY <1>10 DEF Sasl
    <3> QED BY <1>1, <2>1, <3>1, HasRead
  <2>3. (\E l \in {"903", "904", "906", "907"} : Has(toClient', l)) =>
            irc'.sasl \in {"failed", "done"}
    BY <1>5, <1>8, <1>10, <2>1
  <2>4. irc'.sasl # "idle" BY <1>5, <1>10
  <2>5. Has(toClient', "NAK") => ~irc'.granted BY <1>4, <1>8 DEF RequestNow
  <2>6. ~Has(toServer', "REQ") /\ ~Has(toClient', "ACK") BY <1>6, <1>8, <2>1
  <2>7. Once(toServer', "REQ") /\ Once(toServer', "MECH") /\ Once(toClient', "ACK")
    BY <1>6, <1>9 DEF RequestNow
  <2>8. RequestNow' BY <1>1, <2>1, <2>2, <2>3, <2>4, <2>5, <2>6, <2>7 DEF RequestNow
  <2>9. WaitNow'
    <3>1. irc'.granted /\ ~irc'.ended => serv.waiting_on_sasl /\ ~serv.sent_capend
      BY <1>4, <2>1 DEF WaitNow
    <3> QED BY <1>1, <3>1, WaitReads
  <2> QED BY <2>8, <2>9
<1>11. CASE toServer[1].line # "MECH"
  <2>1. irc.sasl # "idle" BY <1>3, <1>7, <1>11 DEF RequestNow
  <2>2. ~Has(toServer, "REQ") /\ ~Has(toServer, "MECH") /\ ~Has(toClient, "ACK")
        /\ hist.asked # 0
    BY <2>1 DEF RequestNow
  <2>3. \/ irc'.sasl \in {"failed", "done"}
        \/ n = "AUTHENTICATE" /\ irc.sasl = "selected" /\ irc'.sasl = "selected"
    BY <1>5, <1>11, <2>1
  <2>4. Has(toClient', "NAK") => ~irc'.granted BY <1>4, <1>8 DEF RequestNow
  <2>5. ~Has(toServer', "REQ") /\ ~Has(toServer', "MECH") /\ ~Has(toClient', "ACK")
    BY <1>6, <1>8, <2>2
  <2>6. Once(toServer', "REQ") /\ Once(toServer', "MECH") /\ Once(toClient', "ACK")
    BY <1>6, <1>9 DEF RequestNow
  <2>9. (\E l \in {"903", "904", "906", "907"} : Has(toClient', l)) \/ serv.conn \in refreshes =>
            irc'.sasl \in {"failed", "done"}
    BY <1>8, <2>3 DEF RequestNow
  <2>7. RequestNow' BY <1>1, <2>2, <2>3, <2>4, <2>5, <2>6, <2>9 DEF RequestNow
  <2>8. WaitNow'
    <3>1. irc'.granted /\ ~irc'.ended /\ irc'.sasl \in {"idle", "selected"} =>
            serv.waiting_on_sasl /\ ~serv.sent_capend
      BY <1>4, <2>3 DEF WaitNow
    <3> QED BY <1>1, <3>1, WaitReads
  <2> QED BY <2>7, <2>8
<1> QED BY <1>10, <1>11

\* The lines of the exchange and of the requests.
LEMMA RequestServiceStep ==
    ASSUME TypeOK, TypeOK', RequestNow, WaitNow, Service
    PROVE  RequestNow' /\ WaitNow'
<1>1. /\ Read(toServer, toServer') /\ RepliesGrow /\ serv' = serv /\ refreshes' = refreshes
      /\ hist' = hist /\ 1 \in 1..Len(toServer) /\ Len(toServer') \in Nat
      /\ irc'.ended <=> irc.ended \/ toServer[1].line = "CAP END"
      /\ ~Grants => irc'.granted = irc.granted
      /\ ~Exchanges => irc'.sasl = irc.sasl
  BY ServiceFacts
<1>2. CASE Grants BY <1>2, GrantStep
<1>3. CASE Exchanges BY <1>3, ExchangeStep
<1>4. CASE ~Grants /\ ~Exchanges
  <2>1. \A i \in Replies : toClient'[i].line \in {"LS", "ATTACH", "FAIL", "001", "BATCH"}
    BY <1>4 DEF Service, Lists, Takes, Welcomes, Replied
  <2>2. \A l : (Has(toServer', l) => Has(toServer, l)) /\ (Once(toServer, l) => Once(toServer', l))
    BY <1>1, HasRead
  <2>3. \A l \in {"ACK", "NAK", "AUTHENTICATE", "903", "904", "906", "907"} :
            (Has(toClient', l) => Has(toClient, l)) /\ (Once(toClient, l) => Once(toClient', l))
    <3>1. /\ RepliesGrow
          /\ \A l \in {"ACK", "NAK", "AUTHENTICATE", "903", "904", "906", "907"} :
                \A i \in Replies : ~Sasl(toClient'[i], l)
      BY <1>1, <2>1, NotSasl
    <3> QED BY <3>1, HasReplies
  <2>4. RequestNow' BY <1>1, <1>4, <2>2, <2>3, RequestKeeps
  <2>5. irc'.granted /\ ~irc'.ended /\ irc'.sasl \in {"idle", "selected"} =>
            serv.waiting_on_sasl /\ ~serv.sent_capend
    BY <1>1, <1>4 DEF WaitNow
  <2>6. WaitNow' BY <1>1, <2>5, WaitReads
  <2> QED BY <2>4, <2>6
<1> QED BY <1>2, <1>3, <1>4

\* Every step keeps the request and the wait for it.
LEMMA RequestStep ==
    ASSUME TypeOK, TypeOK', Counted, EndInv, OneRequest, WaitInv, Step
    PROVE  OneRequest' /\ WaitInv'
<1> SUFFICES ASSUME Watched' PROVE RequestNow' /\ WaitNow'
  BY DEF OneRequest, WaitInv
<1>1. CASE Links
  <2>1. /\ Len(toServer') = 1 /\ toServer'[1].line = "CAP LS" /\ Len(toClient') = 0
        /\ irc'.sasl = "idle" /\ ~irc'.granted
        /\ serv'.conn = serv.conn + 1 /\ refreshes' = refreshes
    BY <1>1, LinkFacts
  <2>2. 1..1 = {1} /\ 1..0 = {} OBVIOUS
  <2>3. \A l : Has(toServer', l) => l = "CAP LS" BY <2>1, <2>2, SaslIs, Zenon DEF Has
  <2>4. \A l : ~Has(toClient', l) BY <2>1, <2>2, Zenon DEF Has
  <2>5. serv'.conn \notin refreshes'
    <3>1. serv.conn \in Nat /\ refreshes \subseteq 1..serv.conn BY DEF TypeOK, Serv, Counted
    <3>2. \A n \in Nat : n + 1 \notin 1..n OBVIOUS
    <3> QED BY <2>1, <3>1, <3>2
  <2>6. \A l : Once(toServer', l) /\ Once(toClient', l)
    <3>1. \A i, j \in 1..Len(toServer') : i = j
      <4>1. 1..Len(toServer') = {1} BY <2>1, <2>2, Zenon
      <4> QED BY <4>1
    <3>2. \A i, j \in 1..Len(toClient') : i = j BY <2>1, <2>2, Zenon
    <3> QED BY <3>1, <3>2 DEF Once
  <2>7. RequestNow' BY <2>1, <2>3, <2>4, <2>5, <2>6 DEF RequestNow
  <2>8. WaitNow' BY <2>1, <2>3, WaitOver
  <2> QED BY <2>7, <2>8
<1>2. CASE Drops BY <1>2 DEF Drops, Watched
<1>3. CASE Handler BY <1>3, RequestHandlerStep
<1>4. CASE \E k \in 1..MaxConns + 1 : Retried(k)
  <2>1. PICK k \in 1..MaxConns + 1 : Retried(k) BY <1>4
  <2>2. /\ serv.connected /\ ~hist.stale /\ hist.asked < 2 /\ hist'.asked = hist.asked
        /\ k = serv.conn /\ k \in refreshes /\ refreshes' = refreshes \ {k}
        /\ serv'.conn = serv.conn /\ WireGrows /\ toClient' = toClient /\ irc' = irc
    BY <2>1 DEF Watched, Retried, SameFlags
  <2>3. RequestNow /\ WaitNow BY <2>2 DEF OneRequest, WaitInv, Watched
  <2>4. irc.sasl \in {"failed", "done"} BY <2>2, <2>3 DEF RequestNow
  <2>5. \A i \in NewLines : toServer'[i].line \in {"PAYLOAD", "ABORT", "CAP END"}
    BY <2>1, LineNames DEF Retried
  <2>6. \A l \in {"REQ", "MECH"} :
            (Has(toServer', l) => Has(toServer, l)) /\ (Once(toServer, l) => Once(toServer', l))
    <3>1. /\ WireGrows
          /\ \A l \in {"REQ", "MECH"} : \A i \in NewLines : ~Sasl(toServer'[i], l)
      BY <2>2, <2>5, NotSasl
    <3> QED BY <3>1, HasWire
  <2>7. RequestNow' BY <2>2, <2>3, <2>4, <2>6, RequestKeeps
  <2>8. ~Has(toServer', "REQ") BY <2>3, <2>4, <2>6 DEF RequestNow
  <2>9. WaitNow' BY <2>2, <2>4, <2>8, WaitOver
  <2> QED BY <2>7, <2>9
<1>5. CASE Commands /\ serv.connected
  <2>1. /\ serv' = serv /\ irc' = irc /\ refreshes' = refreshes /\ toClient' = toClient
        /\ WireGrows /\ hist'.asked = hist.asked /\ hist'.stale = hist.stale
    BY <1>5 DEF Commands
  <2>2. RequestNow /\ WaitNow BY <1>5, <2>1 DEF OneRequest, WaitInv, Watched
  <2>3. \A i \in NewLines : toServer'[i].line = "PERSISTENCE" BY <1>5, LineNames DEF Commands
  <2>4. \A l \in {"REQ", "MECH", "PAYLOAD", "ABORT"} :
            (Has(toServer', l) => Has(toServer, l)) /\ (Once(toServer, l) => Once(toServer', l))
    BY <2>1, <2>3, HasWire, SaslIs
  <2>5. RequestNow' BY <2>1, <2>2, <2>4, RequestKeeps
  <2>6. WaitNow' BY <2>1, <2>2, <2>3, WaitKeeps, SaslIs
  <2> QED BY <2>5, <2>6
<1>6. CASE Service
  <2>1. RequestNow /\ WaitNow BY <1>6, ServiceFacts DEF OneRequest, WaitInv, Watched
  <2> QED BY <1>6, <2>1, RequestServiceStep
<1>7. CASE Notifies
  <2>1. /\ RepliesGrow /\ serv.connected /\ toServer' = toServer /\ serv' = serv
        /\ refreshes' = refreshes /\ hist'.stale = hist.stale /\ hist'.asked = hist.asked
        /\ \A i \in Replies : toClient'[i].line \in {"LS", "DEL"}
    BY <1>7 DEF Notifies
  <2>2. RequestNow /\ WaitNow BY <2>1 DEF OneRequest, WaitInv, Watched
  <2>3. irc'.ended = irc.ended /\ irc'.sasl = irc.sasl /\ irc'.granted = irc.granted
    BY <1>7, NotifyFacts
  <2>4. \A l \in {"ACK", "NAK", "AUTHENTICATE", "903", "904", "906", "907"} :
            (Has(toClient', l) => Has(toClient, l)) /\ (Once(toClient, l) => Once(toClient', l))
    BY <2>1, HasReplies, SaslIs
  <2>5. RequestNow' BY <2>1, <2>2, <2>3, <2>4, RequestKeeps
  <2>6. WaitNow' BY <2>1, <2>2, <2>3 DEF WaitNow
  <2> QED BY <2>5, <2>6
<1> QED BY <1>1, <1>2, <1>3, <1>4, <1>5, <1>6, <1>7 DEF Step

-----------------------------------------------------------------------------
(***************************************************************************)
(* The theorems.                                                           *)
(***************************************************************************)
LEMMA InitInv == Init => IInv
<1> SUFFICES ASSUME Init PROVE IInv
  OBVIOUS
<1>1. TypeOK /\ Quiet /\ Counted BY InitTypes
<1>2. ~serv.connected BY DEF Init
<1> QED BY <1>1, <1>2 DEF IInv, EndInv, AttachInv, GateInv, OneRequest, WaitInv, Watched

\* The invariant is inductive.
LEMMA StepInv == IInv /\ [Next]_vars => IInv'
<1> SUFFICES ASSUME IInv, [Next]_vars PROVE IInv'
  OBVIOUS
<1>1. /\ TypeOK /\ Quiet /\ Counted /\ EndInv /\ AttachInv /\ GateInv /\ OneRequest /\ WaitInv
  BY DEF IInv
<1>2. CASE Next
  <2>1. TypeOK' /\ Step BY <1>1, <1>2, StepCases
  <2>2. Quiet' /\ Counted' BY <1>1, <2>1, BaseStep
  <2>3. EndInv' BY <1>1, <2>1, EndStep
  <2>4. AttachInv' BY <1>1, <2>1, AttachStep
  <2>5. GateInv' BY <1>1, <2>1, GateStep
  <2>6. OneRequest' /\ WaitInv' BY <1>1, <2>1, RequestStep
  <2> QED BY <2>1, <2>2, <2>3, <2>4, <2>5, <2>6 DEF IInv
<1>3. CASE UNCHANGED vars BY <1>1, <1>3, Stutter DEF IInv
<1> QED BY <1>2, <1>3

\* The inductive invariant holds of every state.
LEMMA Invariant == Spec => []IInv
BY InitInv, StepInv, PTL DEF Spec

\* Who replays is decided by what was said on this connection: the flags of an ATTACH, of CAP
\* END and of the welcome stand for lines this server has read or will read.  After 001 the
\* gate is shut while the server has the cursor and has not begun, and otherwise only when the
\* server refused the ATTACH with a code that persistence_handle_fail does not know, although
\* the refusal, the welcome and the user's own commands share the wire.
THEOREM Deciding == Spec => []ReplayDecided
<1>1. IInv => ReplayDecided
  <2> SUFFICES ASSUME IInv PROVE ReplayDecided
    OBVIOUS
  <2>1. TypeOK /\ EndInv /\ AttachInv /\ GateInv BY DEF IInv
  <2>2. FlagsAreOfThisConnection
    <3>1. \A l : OnWire(l) <=> On(toServer, l) BY DEF OnWire, On
    <3> QED BY <2>1, <3>1 DEF FlagsAreOfThisConnection, EndInv, AttachInv
  <2>3. GateIsTrue
    <3> SUFFICES ASSUME serv.connected, serv.welcomed, ~hist.early
                 PROVE  /\ persistence_server_drives_replay => irc.attach \in {"cursor", "OTHER"}
                        /\ irc.attach = "cursor" /\ ~serv.replay_seen =>
                            persistence_server_drives_replay
      BY DEF GateIsTrue
    <3>1. GateIn /\ GateNow BY <2>1, GateParts
    <3>2. ~HasFail(toClient) BY <3>1 DEF GateIn, HasFail
    <3>3. serv.attached => irc.attach # "none" BY <2>1 DEF EndInv, AttachInv
    <3>4. irc.attach \in {"none", "plain", "cursor"} \cup Codes BY <2>1 DEF TypeOK, Irc
    <3> QED BY <3>1, <3>2, <3>3, <3>4 DEF GateNow, persistence_server_drives_replay, Codes
  <2> QED BY <2>2, <2>3 DEF ReplayDecided
<1> QED BY <1>1, Invariant, PTL

\* The server reads an ATTACH only after SASL succeeded and before CAP END, for it is sent
\* once, by the handler of the 903 and in front of the CAP END that handler sends.
THEOREM Window == Spec => AttachInWindow
<1>1. IInv /\ [Next]_vars => [TakeAttach => irc.sasl = "done" /\ ~irc.ended]_vars
  <2> SUFFICES ASSUME IInv, TakeAttach PROVE irc.sasl = "done" /\ ~irc.ended
    OBVIOUS
  <2>1. TypeOK /\ Quiet /\ AttachInv BY DEF IInv
  <2>2. Asks("ATTACH") BY DEF TakeAttach
  <2>3. toServer # <<>> /\ 1 \in 1..Len(toServer) /\ toServer[1].line = "ATTACH"
    BY <2>1, <2>2, HasAsked
  <2>4. serv.connected /\ On(toServer, "ATTACH") BY <2>1, <2>3 DEF Quiet, On
  <2> QED BY <2>1, <2>4 DEF AttachInv
<1> QED BY <1>1, Invariant, PTL DEF Spec, AttachInWindow

\* CAP END does not overtake the login: a connection that requested sasl once, and on which no
\* refresh of an earlier connection was answered, ends its negotiation after the exchange.
THEOREM Login == Spec => LoginBeforeEnd
<1>1. IInv /\ [Next]_vars =>
        [EndCaps /\ ~irc.ended /\ irc.granted /\ ~hist.stale /\ hist.asked < 2
            => irc.sasl \in {"done", "failed"}]_vars
  <2> SUFFICES ASSUME IInv, EndCaps, ~irc.ended, irc.granted, ~hist.stale, hist.asked < 2
               PROVE  irc.sasl \in {"done", "failed"}
    OBVIOUS
  <2>1. TypeOK /\ Quiet /\ EndInv /\ WaitInv BY DEF IInv
  <2>2. Asks("CAP END") BY DEF EndCaps
  <2>3. toServer # <<>> /\ 1 \in 1..Len(toServer) /\ toServer[1].line = "CAP END"
    BY <2>1, <2>2, HasAsked
  <2>4. serv.connected /\ On(toServer, "CAP END") BY <2>1, <2>3 DEF Quiet, On
  <2>5. serv.sent_capend BY <2>1, <2>4 DEF EndInv
  <2>6. irc.sasl \notin {"idle", "selected"} BY <2>1, <2>4, <2>5 DEF WaitInv, Watched, WaitNow
  <2>7. irc.sasl \in {"idle", "selected", "failed", "done"} BY <2>1 DEF TypeOK, Irc
  <2> QED BY <2>6, <2>7
<1> QED BY <1>1, Invariant, PTL DEF Spec, LoginBeforeEnd
=============================================================================
