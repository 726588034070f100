------------------------- MODULE ServerLink_proofs -------------------------
(***************************************************************************)
(* Proofs about the life of a connection, for any set of timer ids, any    *)
(* number of overlapping commands and any number of failed forks.          *)
(*                                                                         *)
(* The functions of server.c map a server record to the next one, so the   *)
(* invariants are restated here for a record, and there is one lemma per   *)
(* function; the actions then follow from what they call.                  *)
(***************************************************************************)
EXTENDS ServerLink, TLAPS

Own(s) ==
    /\ ~(s.connected /\ s.connecting)
    /\ s.iotag = "sok" <=> s.connected
    /\ s.iotag = "child" => s.connecting
    /\ s.ssl_do_connect_tag => s.iotag = "child"
    /\ s.end_of_motd => s.connected

Reaped(s, f) ==
    /\ s.childpid = "live" => s.connecting
    /\ s.iotag = "child" => s.childpid = "live"
    /\ s.stray => f > 0
    /\ s.connecting /\ s.iotag = "none" => f > 0

\* GLib hands out no id twice, and nothing is open for a server that is gone.
Aside(s) ==
    /\ \A t, u \in s.timers : t.id = u.id => t = u
    /\ s.alive \/ (~s.connected /\ ~s.connecting)

Sound(s, f) == s \in Serv /\ Own(s) /\ Reaped(s, f) /\ Aside(s)

Tagged(s) ==
    /\ \A t \in s.timers : t.id = s.recondelay_tag
    /\ s.timers # {} => s.alive /\ ~s.connecting /\ ~s.connected /\ s.refresh = 0
    /\ s.refresh > 0 => s.refresh = 1 /\ s.oauth_connect_host /\ ~s.connecting /\ ~s.connected

Quiet(s) == ~s.connecting /\ ~s.connected

\* The inductive invariant.
Inv ==
    /\ TypeOK
    /\ Sound(serv, faults)
    /\ overlaps = 0 => Tagged(serv)
    /\ down /\ overlaps = 0 => Quiet(serv) /\ serv.timers = {} /\ serv.refresh = 0

(***************************************************************************)
(* Closing down.                                                           *)
(***************************************************************************)
LEMMA Stopped ==
    ASSUME NEW s \in Serv, NEW f \in Nat, Sound(s, f), s.connecting
    PROVE  /\ Sound(server_stopconnecting(s), f) /\ Quiet(server_stopconnecting(s))
           /\ server_stopconnecting(s).timers = s.timers
           /\ server_stopconnecting(s).recondelay_tag = s.recondelay_tag
           /\ server_stopconnecting(s).refresh = s.refresh
           /\ server_stopconnecting(s).oauth_connect_host = s.oauth_connect_host
           /\ server_stopconnecting(s).alive = s.alive
           /\ server_stopconnecting(s).ssl_do_connect_tag = FALSE
BY DEF Sound, Serv, Own, Reaped, Aside, Quiet, server_stopconnecting

\* After server_cleanup nothing is connected or connecting, and a delay is over unless it
\* ran beside an attempt or a connection.
LEMMA Cleaned ==
    ASSUME NEW s \in Serv, NEW f \in Nat, Sound(s, f)
    PROVE  /\ Sound(server_cleanup(s), f) /\ Quiet(server_cleanup(s))
           /\ server_cleanup(s).timers \subseteq s.timers
           /\ Tagged(s) => server_cleanup(s).timers = {}
           /\ server_cleanup(s).refresh = s.refresh
           /\ server_cleanup(s).oauth_connect_host = s.oauth_connect_host
           /\ server_cleanup(s).alive = s.alive
           /\ server_cleanup(s).ssl_do_connect_tag = FALSE
<1>1. CASE s.connecting
  <2>1. server_cleanup(s) = server_stopconnecting(s)
    BY <1>1 DEF server_cleanup
  <2> QED BY <1>1, <2>1, Stopped DEF Tagged
<1>2. CASE s.connected /\ ~s.connecting
  <2>1. server_cleanup(s) = [s EXCEPT !.iotag = "none", !.connected = FALSE,
                                      !.end_of_motd = FALSE]
    BY <1>2 DEF server_cleanup
  <2> QED BY <1>2, <2>1 DEF Sound, Serv, Own, Reaped, Aside, Quiet, Tagged
<1>3. CASE ~s.connecting /\ ~s.connected
  <2>1. server_cleanup(s) = [s EXCEPT !.iotag = "none", !.recondelay_tag = 0,
                                      !.timers = Without(s, s.recondelay_tag)]
    BY <1>3 DEF server_cleanup
  <2>2. /\ Without(s, s.recondelay_tag) \subseteq s.timers
        /\ Tagged(s) => Without(s, s.recondelay_tag) = {}
    BY DEF Without, Tagged
  <2> DEFINE e == server_cleanup(s)
  <2>3. /\ e \in Serv /\ e.timers = Without(s, s.recondelay_tag) /\ e.iotag = "none"
        /\ e.connected = s.connected /\ e.connecting = s.connecting /\ e.alive = s.alive
        /\ e.ssl_do_connect_tag = s.ssl_do_connect_tag /\ e.end_of_motd = s.end_of_motd
        /\ e.childpid = s.childpid /\ e.stray = s.stray /\ e.refresh = s.refresh
        /\ e.oauth_connect_host = s.oauth_connect_host
    BY <2>1, <2>2, ZenonT(30) DEF Serv
  <2> HIDE DEF e
  <2>4. Own(e) /\ Quiet(e) /\ e.ssl_do_connect_tag = FALSE
    BY <1>3, <2>3 DEF Sound, Own, Quiet, Serv
  <2>5. Reaped(e, f)
    BY <1>3, <2>3 DEF Sound, Own, Reaped
  <2>6. Aside(e)
    BY <1>3, <2>2, <2>3 DEF Sound, Aside
  <2> QED BY <2>2, <2>3, <2>4, <2>5, <2>6 DEF Sound, e
<1> QED BY <1>1, <1>2, <1>3 DEF Serv

(***************************************************************************)
(* Connecting.                                                             *)
(***************************************************************************)
\* server_connect leaves an attempt under way, whatever it found.
LEMMA ConnectSound ==
    ASSUME NEW s \in Serv, NEW f \in Nat, Sound(s, f), s.alive,
           NEW ok \in BOOLEAN, NEW g \in Nat, f <= g, ~ok => f < g
    PROVE  /\ Sound(server_connect(s, TRUE, ok), g)
           /\ server_connect(s, TRUE, ok).connecting
           /\ ok => server_connect(s, TRUE, ok).childpid = "live"
           /\ server_connect(s, TRUE, ok).refresh = s.refresh
           /\ server_connect(s, TRUE, ok).alive
           /\ ~server_connect(s, TRUE, ok).end_of_motd
           /\ Tagged(s) /\ s.refresh = 0 => Tagged(server_connect(s, TRUE, ok))
<1> DEFINE d == IF s.connected \/ s.connecting \/ s.recondelay_tag # 0
                THEN server_disconnect(s) ELSE s
           c == [d EXCEPT !.connecting = TRUE, !.end_of_motd = FALSE, !.hostname = TRUE]
<1>1. /\ d \in Serv /\ Sound(d, f) /\ Quiet(d) /\ d.alive /\ d.refresh = s.refresh
      /\ Tagged(s) => d.timers = {}
  <2>1. CASE s.connected \/ s.connecting \/ s.recondelay_tag # 0
    BY <2>1, Cleaned DEF server_disconnect, Sound
  <2>2. CASE ~(s.connected \/ s.connecting \/ s.recondelay_tag # 0)
    <3>1. Tagged(s) => s.timers = {}
      BY <2>2, LinkAssumption DEF Tagged, Serv, Timers
    <3> QED BY <2>2, <3>1 DEF Quiet
  <2> QED BY <2>1, <2>2
<1>2. server_connect(s, TRUE, ok) =
         IF ok THEN [c EXCEPT !.childpid = "live", !.iotag = "child"] ELSE c
  BY DEF server_connect
<1> HIDE DEF d
<1>3. CASE ok
  <2>1. server_connect(s, TRUE, ok) = [d EXCEPT !.connecting = TRUE, !.end_of_motd = FALSE,
                                          !.hostname = TRUE, !.childpid = "live", !.iotag = "child"]
    BY <1>1, <1>2, <1>3 DEF Serv
  <2>2. Sound(server_connect(s, TRUE, ok), g)
    <3> DEFINE e == server_connect(s, TRUE, ok)
    <3>4. d \in Serv /\ e = [d EXCEPT !.connecting = TRUE, !.end_of_motd = FALSE,
                                      !.hostname = TRUE, !.childpid = "live", !.iotag = "child"]
      BY <1>1, <2>1
    <3> HIDE DEF e
    <3>5. e \in Serv
      BY <3>4 DEF Serv
    <3>1. /\ e \in Serv /\ e.timers = d.timers /\ e.iotag = "child" /\ e.childpid = "live"
          /\ e.connected = d.connected /\ e.connecting = TRUE /\ e.alive = d.alive
          /\ e.ssl_do_connect_tag = d.ssl_do_connect_tag /\ e.end_of_motd = FALSE
          /\ e.stray = d.stray
      BY <3>4, <3>5 DEF Serv
    <3>2. Own(e) /\ Reaped(e, g)
      BY <1>1, <3>1 DEF Sound, Own, Reaped, Quiet
    <3>3. Aside(e)
      BY <1>1, <3>1 DEF Sound, Aside
    <3> QED BY <3>1, <3>2, <3>3 DEF Sound, e
  <2>3. Tagged(s) /\ s.refresh = 0 => Tagged(server_connect(s, TRUE, ok))
    <3> DEFINE e == server_connect(s, TRUE, ok)
    <3>1. e.timers = d.timers /\ e.refresh = d.refresh
      BY <1>1, <2>1, ZenonT(30) DEF Serv
    <3> HIDE DEF e
    <3>2. Tagged(s) /\ s.refresh = 0 => e.timers = {} /\ e.refresh = 0
      BY <1>1, <3>1
    <3>3. Tagged(s) /\ s.refresh = 0 => Tagged(e)
      BY <3>2 DEF Tagged
    <3> QED BY <3>3 DEF e
  <2>4. /\ server_connect(s, TRUE, ok).connecting /\ ~server_connect(s, TRUE, ok).end_of_motd
        /\ server_connect(s, TRUE, ok).childpid = "live"
        /\ server_connect(s, TRUE, ok).refresh = d.refresh
        /\ server_connect(s, TRUE, ok).alive = d.alive
    BY <1>1, <2>1, ZenonT(30) DEF Serv
  <2> QED BY <1>1, <2>2, <2>3, <2>4
<1>4. CASE ~ok
  <2>1. server_connect(s, TRUE, ok) = [d EXCEPT !.connecting = TRUE, !.end_of_motd = FALSE,
                                                !.hostname = TRUE]
    BY <1>2, <1>4
  <2>2. Sound(server_connect(s, TRUE, ok), g)
    <3> DEFINE e == server_connect(s, TRUE, ok)
    <3>6. d \in Serv /\ e = [d EXCEPT !.connecting = TRUE, !.end_of_motd = FALSE,
                                      !.hostname = TRUE]
      BY <1>1, <2>1
    <3> HIDE DEF e
    <3>7. e \in Serv
      BY <3>6 DEF Serv
    <3>1. /\ e \in Serv /\ e.timers = d.timers /\ e.iotag = d.iotag
          /\ e.childpid = d.childpid /\ e.stray = d.stray
          /\ e.connected = d.connected /\ e.connecting = TRUE /\ e.alive = d.alive
          /\ e.ssl_do_connect_tag = d.ssl_do_connect_tag /\ e.end_of_motd = FALSE
      BY <3>6, <3>7, ZenonT(30) DEF Serv
    <3>2. Own(e)
      <4>1. Own(d) /\ ~d.connected /\ d.iotag # "sok"
        BY <1>1 DEF Sound, Own, Quiet
      <4> QED BY <3>1, <4>1 DEF Own
    <3>4. g > 0
      BY <1>4
    <3>5. Reaped(e, g)
      BY <1>1, <3>1, <3>4 DEF Sound, Reaped
    <3>3. Aside(e)
      BY <1>1, <3>1 DEF Sound, Aside
    <3> QED BY <3>1, <3>2, <3>3, <3>5 DEF Sound, e
  <2>3. Tagged(s) /\ s.refresh = 0 => Tagged(server_connect(s, TRUE, ok))
    <3> DEFINE e == server_connect(s, TRUE, ok)
    <3>1. e.timers = d.timers /\ e.refresh = d.refresh
      BY <1>1, <2>1, ZenonT(30) DEF Serv
    <3> HIDE DEF e
    <3>2. Tagged(s) /\ s.refresh = 0 => e.timers = {} /\ e.refresh = 0
      BY <1>1, <3>1
    <3>3. Tagged(s) /\ s.refresh = 0 => Tagged(e)
      BY <3>2 DEF Tagged
    <3> QED BY <3>3 DEF e
  <2>4. /\ server_connect(s, TRUE, ok).connecting /\ ~server_connect(s, TRUE, ok).end_of_motd
        /\ server_connect(s, TRUE, ok).refresh = d.refresh
        /\ server_connect(s, TRUE, ok).alive = d.alive
    BY <1>1, <2>1, ZenonT(30) DEF Serv
  <2> QED BY <1>1, <1>4, <2>2, <2>3, <2>4
<1> QED BY <1>3, <1>4

LEMMA ConnectSoundOk ==
    ASSUME NEW s \in Serv, NEW f \in Nat, Sound(s, f), s.alive
    PROVE  /\ Sound(server_connect(s, TRUE, TRUE), f)
           /\ server_connect(s, TRUE, TRUE).refresh = s.refresh
           /\ server_connect(s, TRUE, TRUE).alive
           /\ ~server_connect(s, TRUE, TRUE).end_of_motd
           /\ Tagged(s) /\ s.refresh = 0 => Tagged(server_connect(s, TRUE, TRUE))
<1>1. f <= f /\ TRUE \in BOOLEAN /\ (~TRUE => f < f)
  OBVIOUS
<1> QED BY ONLY <1>1, ConnectSound, s \in Serv, f \in Nat, Sound(s, f), s.alive

LEMMA ConnectedSound ==
    ASSUME NEW s \in Serv, NEW f \in Nat, Sound(s, f), s.connecting
    PROVE  LET c == server_connected(server_stopconnecting(s))
           IN /\ Sound(c, f) /\ (Tagged(s) => Tagged(c))
              /\ c.refresh = s.refresh /\ c.timers = s.timers
<1> DEFINE d == server_stopconnecting(s)
<1>1. /\ d \in Serv /\ Sound(d, f) /\ Quiet(d) /\ d.timers = s.timers /\ d.alive
      /\ d.refresh = s.refresh /\ d.ssl_do_connect_tag = FALSE
  BY Stopped DEF Sound, Aside, Serv
<1> HIDE DEF d
<1>2. Tagged(s) => s.timers = {} /\ ~(s.refresh > 0)
  BY DEF Tagged
<1> SUFFICES LET c == server_connected(d)
             IN /\ Sound(c, f) /\ (Tagged(s) => Tagged(c))
                /\ c.refresh = s.refresh /\ c.timers = s.timers
  BY DEF d
<1> QED BY <1>1, <1>2 DEF server_connected, Sound, Serv, Own, Reaped, Aside, Quiet, Tagged

(***************************************************************************)
(* Arming a timer.  An id is fresh: GLib gives it to no other source.      *)
(***************************************************************************)
Core(s, e) ==
    /\ e.connected = s.connected /\ e.connecting = s.connecting /\ e.alive = s.alive
    /\ e.iotag = s.iotag /\ e.ssl_do_connect_tag = s.ssl_do_connect_tag
    /\ e.end_of_motd = s.end_of_motd /\ e.childpid = s.childpid /\ e.stray = s.stray
Same(s, e) ==
    Core(s, e) /\ e.refresh = s.refresh /\ e.oauth_connect_host = s.oauth_connect_host

\* Dropping timers, and whatever happens to the tag and the refresh, keeps a record sound.
LEMMA CoreSound ==
    ASSUME NEW s \in Serv, NEW f \in Nat, Sound(s, f), NEW e \in Serv, Core(s, e),
           e.timers \subseteq s.timers
    PROVE  Sound(e, f)
<1>1. Own(e) /\ Reaped(e, f)
  BY DEF Sound, Own, Reaped, Core
<1>2. Aside(e)
  BY DEF Sound, Aside, Core
<1> QED BY <1>1, <1>2 DEF Sound

LEMMA SameSound ==
    ASSUME NEW s \in Serv, NEW f \in Nat, Sound(s, f), NEW e \in Serv, Same(s, e),
           NEW new, NEW K, K \subseteq s.timers, e.timers = K \cup {new},
           \A t \in s.timers : t.id # new.id
    PROVE  Sound(e, f)
<1>1. Own(e) /\ Reaped(e, f)
  BY DEF Sound, Own, Reaped, Same, Core
<1>2. Aside(e)
  BY DEF Sound, Aside, Same, Core
<1> QED BY <1>1, <1>2 DEF Sound

LEMMA ReconnectSound ==
    ASSUME NEW s \in Serv, NEW f \in Nat, Sound(s, f), NEW id \in Fresh(s)
    PROVE  /\ Sound(auto_reconnect(s, id), f)
           /\ auto_reconnect(s, id).refresh = s.refresh
           /\ Tagged(s) /\ s.alive /\ s.refresh = 0 /\ ~s.connecting
                => Tagged(auto_reconnect(s, id))
<1> DEFINE d == IF s.connected THEN server_disconnect(s) ELSE s
<1>1. /\ d \in Serv /\ Sound(d, f) /\ d.alive = s.alive /\ d.refresh = s.refresh
      /\ d.timers \subseteq s.timers /\ ~d.connected
      /\ ~s.connecting => Quiet(d)
      /\ Tagged(s) => \A t \in d.timers : t.id = d.recondelay_tag
  <2>1. CASE s.connected
    BY <2>1, Cleaned DEF server_disconnect, Sound, Quiet
  <2>2. CASE ~s.connected
    BY <2>2 DEF Quiet, Tagged
  <2> QED BY <2>1, <2>2
<1>2. id \in TimerIds /\ id # 0 /\ \A t \in d.timers : t.id # id
  BY <1>1, LinkAssumption DEF Fresh
<1>3. auto_reconnect(s, id) =
        [d EXCEPT !.recondelay_tag = id,
                  !.timers = Without(d, d.recondelay_tag) \cup {[id |-> id, kind |-> "auto"]}]
  BY DEF auto_reconnect
<1> HIDE DEF d
<1>4. Without(d, d.recondelay_tag) \subseteq d.timers
  BY DEF Without
<1>5. Tagged(s) => Without(d, d.recondelay_tag) = {}
  BY <1>1 DEF Without
<1> DEFINE new == [id |-> id, kind |-> "auto"]
           e == auto_reconnect(s, id)
<1>6. new \in Timers /\ new.id = id
  BY <1>2 DEF Timers, Kinds
<1> HIDE DEF new
<1> DEFINE T == Without(d, d.recondelay_tag) \cup {new}
<1>10. T \in SUBSET Timers
  BY <1>1, <1>4, <1>6 DEF Serv
<1>11. e = [d EXCEPT !.recondelay_tag = id, !.timers = T]
  BY <1>3 DEF new
<1> HIDE DEF e, T
<1>7. e \in Serv /\ e.timers = T /\ e.recondelay_tag = id /\ Same(d, e)
  BY <1>1, <1>2, <1>10, <1>11 DEF Serv, Same, Core
<1>8. Sound(e, f)
  BY <1>1, <1>2, <1>4, <1>6, <1>7, SameSound, SMTT(30) DEF T
<1>9. ASSUME Tagged(s), s.alive, s.refresh = 0, ~s.connecting PROVE Tagged(e)
  <2>1. e.timers = {new}
    BY <1>5, <1>7, <1>9 DEF T
  <2>2. e.alive /\ ~e.connecting /\ ~e.connected /\ e.refresh = 0
    BY <1>1, <1>7, <1>9 DEF Same, Core, Quiet
  <2> QED BY <1>6, <1>7, <2>1, <2>2 DEF Tagged
<1> QED BY <1>1, <1>7, <1>8, <1>9 DEF e, Same, Core

LEMMA CycleSound ==
    ASSUME NEW s \in Serv, NEW f \in Nat, Sound(s, f), NEW id \in Fresh(s)
    PROVE  /\ Sound(servlist_cycle(s, id), f)
           /\ servlist_cycle(s, id).refresh = s.refresh
           /\ s.timers = {} /\ s.alive /\ s.refresh = 0 /\ Quiet(s)
                => Tagged(servlist_cycle(s, id))
<1>1. id \in TimerIds /\ id # 0 /\ \A t \in s.timers : t.id # id
  BY LinkAssumption DEF Fresh
<1> DEFINE new == [id |-> id, kind |-> "cycle"]
           e == servlist_cycle(s, id)
<1>2. new \in Timers /\ new.id = id
  BY <1>1 DEF Timers, Kinds
<1> HIDE DEF new
<1>3. /\ e \in Serv /\ e.timers = s.timers \cup {new}
      /\ e.recondelay_tag = id /\ Same(s, e)
  BY <1>1, <1>2 DEF servlist_cycle, Serv, Same, Core, new
<1> HIDE DEF e
<1>4. Sound(e, f)
  BY <1>1, <1>2, <1>3, SameSound
<1>5. ASSUME s.timers = {}, s.alive, s.refresh = 0, Quiet(s) PROVE Tagged(e)
  <2>1. e.timers = {new}
    BY <1>3, <1>5
  <2>2. e.alive /\ ~e.connecting /\ ~e.connected /\ e.refresh = 0
    BY <1>3, <1>5 DEF Same, Core, Quiet
  <2> QED BY <1>2, <1>3, <2>1, <2>2 DEF Tagged
<1> QED BY <1>3, <1>4, <1>5 DEF e, Same, Core

\* What follows a failure.
LEMMA FallbackSound ==
    ASSUME NEW s \in Serv, NEW f \in Nat, Sound(s, f), NEW id \in Fresh(s), NEW wanted \in BOOLEAN
    PROVE  /\ Sound(Fallback(s, wanted, id), f) /\ Sound(Retry(s, wanted, id), f)
           /\ s.timers = {} /\ s.alive /\ s.refresh = 0 /\ Quiet(s)
                => Tagged(Fallback(s, wanted, id)) /\ Tagged(Retry(s, wanted, id))
<1>1. s.timers = {} /\ s.alive /\ s.refresh = 0 /\ Quiet(s) => Tagged(s) /\ ~s.connecting
  BY DEF Tagged, Quiet
<1>2. Fallback(s, wanted, id) \in {s, servlist_cycle(s, id), auto_reconnect(s, id)}
  BY DEF Fallback
<1>3. Retry(s, wanted, id) \in {s, auto_reconnect(s, id)}
  BY DEF Retry
<1> QED BY <1>1, <1>2, <1>3, CycleSound, ReconnectSound

\* How a handler ends that may call server_connect.
LEMMA ConnectsSound ==
    ASSUME TypeOK, NEW s \in Serv, Sound(s, faults), s.alive, NEW named, Connects(s, named)
    PROVE  /\ faults' \in 0..MaxFaults /\ Sound(serv', faults')
           /\ Tagged(s) /\ s.refresh = 0 => Tagged(serv')
<1>1. faults \in Nat /\ MaxFaults \in Nat
  BY LinkAssumption DEF TypeOK
<1>2. CASE serv' = server_connect(s, TRUE, TRUE) /\ UNCHANGED faults
  <2>1. /\ Sound(server_connect(s, TRUE, TRUE), faults)
        /\ Tagged(s) /\ s.refresh = 0 => Tagged(server_connect(s, TRUE, TRUE))
    BY <1>1, ConnectSoundOk
  <2> QED BY <1>2, <2>1 DEF TypeOK
<1>3. CASE serv' = s /\ UNCHANGED faults
  BY <1>3 DEF TypeOK
<1>4. CASE faults < MaxFaults /\ serv' = server_connect(s, TRUE, FALSE) /\ faults' = faults + 1
  <2>1. faults + 1 \in Nat /\ faults <= faults + 1 /\ faults < faults + 1
    BY <1>1
  <2>2. /\ Sound(server_connect(s, TRUE, FALSE), faults + 1)
        /\ Tagged(s) /\ s.refresh = 0 => Tagged(server_connect(s, TRUE, FALSE))
    BY <1>1, <2>1, ConnectSound
  <2>3. faults + 1 \in 0..MaxFaults
    BY <1>1, <1>4 DEF TypeOK
  <2> QED BY <1>4, <2>2, <2>3
<1>5. CASE named
  <2>1. server_connect(s, named, TRUE) = server_connect(s, TRUE, TRUE)
        /\ server_connect(s, named, FALSE) = server_connect(s, TRUE, FALSE)
    BY <1>5 DEF server_connect
  <2> QED BY <1>2, <1>4, <1>5, <2>1 DEF Connects
<1>6. CASE ~named
  <2>1. server_connect(s, named, TRUE) = s
    BY <1>6 DEF server_connect
  <2> QED BY <1>3, <1>6, <2>1 DEF Connects
<1> QED BY <1>5, <1>6

(***************************************************************************)
(* What every action keeps.  The history variables are those of the        *)
(* action; what has to be shown is that the record stays sound and, as     *)
(* long as no command has overlapped, that the timers stay tagged and a    *)
(* disconnected server stays down.                                         *)
(***************************************************************************)
Kept ==
    /\ Sound(serv', faults') /\ faults' \in 0..MaxFaults
    /\ overlaps' = 0 => Tagged(serv')
    /\ down' /\ overlaps' = 0 => Quiet(serv') /\ serv'.timers = {} /\ serv'.refresh = 0

Settings == [net : BOOLEAN, ssl : BOOLEAN, oauth : BOOLEAN, retry : BOOLEAN, retryfail : BOOLEAN]

\* Facts used in every step.
LEMMA InvFacts ==
    ASSUME Inv
    PROVE  /\ serv \in Serv /\ faults \in Nat /\ cfg \in Settings
           /\ Sound(serv, faults) /\ overlaps \in Nat
           /\ serv.connected \in BOOLEAN /\ serv.connecting \in BOOLEAN
           /\ overlaps = 0 /\ (serv.connected \/ serv.connecting)
                => Tagged(serv) /\ serv.timers = {} /\ serv.refresh = 0 /\ serv.alive /\ ~down
           /\ serv.iotag = "child" => serv.connecting
           /\ serv.iotag = "sok" => serv.connected
<1>1. /\ serv \in Serv /\ faults \in Nat /\ cfg \in Settings
      /\ Sound(serv, faults) /\ overlaps \in Nat
  BY LinkAssumption DEF Inv, TypeOK, Settings
<1>2. serv.connected \in BOOLEAN /\ serv.connecting \in BOOLEAN /\ serv.refresh \in Nat
  BY <1>1, LinkAssumption DEF Serv
<1>3. ASSUME overlaps = 0, serv.connected \/ serv.connecting
      PROVE  Tagged(serv) /\ serv.timers = {} /\ serv.refresh = 0 /\ serv.alive /\ ~down
  <2>1. Tagged(serv)
    BY <1>3 DEF Inv
  <2>2. serv.timers = {} /\ serv.refresh = 0
    BY <1>2, <1>3, <2>1 DEF Tagged
  <2>3. serv.alive
    BY <1>1, <1>3 DEF Sound, Aside
  <2>4. ~down
    BY <1>3 DEF Inv, Quiet
  <2> QED BY <2>1, <2>2, <2>3, <2>4
<1> QED BY <1>1, <1>2, <1>3 DEF Sound, Own

LEMMA ChildFailsKeeps == ASSUME Inv, ChildFails PROVE Kept
<1>1. serv.connecting /\ UNCHANGED <<down, overlaps, faults>>
  BY InvFacts DEF ChildFails, Reporting
<1> DEFINE d == server_stopconnecting(serv)
<1>2. /\ d \in Serv /\ Sound(d, faults) /\ Quiet(d) /\ d.timers = serv.timers
      /\ d.refresh = serv.refresh /\ d.alive = serv.alive
      /\ d.recondelay_tag = serv.recondelay_tag
  BY <1>1, InvFacts, Stopped DEF Sound
<1>3. Fresh(serv) = Fresh(d)
  BY <1>2 DEF Fresh
<1> HIDE DEF d
<1>4. PICK id \in Fresh(d) : serv' = Fallback(d, cfg.retryfail, id)
  BY <1>3 DEF ChildFails, d
<1>5. cfg.retryfail \in BOOLEAN
  BY InvFacts DEF Settings
<1>6. Sound(serv', faults)
  BY <1>2, <1>4, <1>5, InvFacts, FallbackSound
<1>7. overlaps = 0 => Tagged(serv')
  BY <1>1, <1>2, <1>4, <1>5, InvFacts, FallbackSound
<1> QED BY <1>1, <1>6, <1>7, InvFacts DEF Kept, Inv, TypeOK

LEMMA ProxyFailsKeeps == ASSUME Inv, ProxyFails PROVE Kept
<1>1. serv.connecting /\ UNCHANGED <<down, overlaps, faults>> /\ serv' = server_cleanup(serv)
  BY InvFacts DEF ProxyFails, Reporting, server_disconnect
<1>2. Sound(serv', faults) /\ Quiet(serv') /\ serv'.refresh = serv.refresh
  BY <1>1, InvFacts, Cleaned
<1>3. overlaps = 0 => serv'.timers = {}
  BY <1>1, InvFacts, Cleaned
<1>4. overlaps = 0 => Tagged(serv')
  BY <1>1, <1>2, <1>3, InvFacts DEF Tagged
<1> QED BY <1>1, <1>2, <1>4, InvFacts DEF Kept, Inv, TypeOK

LEMMA SuccessKeeps == ASSUME Inv, server_connect_success PROVE Kept
<1>1. /\ serv.connecting /\ UNCHANGED <<down, overlaps, faults>>
      /\ serv.iotag = "child" /\ ~serv.ssl_do_connect_tag
  BY InvFacts DEF server_connect_success, Reporting
<1>2. CASE serv' = [serv EXCEPT !.ssl_do_connect_tag = TRUE]
  <2>1. serv' \in Serv
    BY <1>2, InvFacts DEF Serv
  <2>2. Own(serv') /\ Reaped(serv', faults)
    BY <1>1, <1>2, InvFacts DEF Sound, Own, Reaped, Serv
  <2>3. Aside(serv')
    BY <1>2, InvFacts DEF Sound, Aside, Serv
  <2>4. Tagged(serv) => Tagged(serv')
    BY <1>2, InvFacts DEF Tagged, Serv
  <2> QED BY <1>1, <2>1, <2>2, <2>3, <2>4, InvFacts DEF Kept, Inv, TypeOK, Sound
<1>3. CASE serv' = server_cleanup(serv)
  <2>1. Sound(serv', faults) /\ Quiet(serv') /\ serv'.refresh = serv.refresh
    BY <1>3, InvFacts, Cleaned
  <2>2. overlaps = 0 => serv'.timers = {}
    BY <1>1, <1>3, InvFacts, Cleaned
  <2>3. overlaps = 0 => Tagged(serv')
    BY <1>1, <2>1, <2>2, InvFacts DEF Tagged
  <2> QED BY <1>1, <2>1, <2>3, InvFacts DEF Kept, Inv, TypeOK
<1>4. CASE serv' = server_connected(server_stopconnecting(serv))
  <2>1. Sound(serv', faults) /\ (Tagged(serv) => Tagged(serv'))
    BY <1>1, <1>4, InvFacts, ConnectedSound
  <2> QED BY <1>1, <2>1, InvFacts DEF Kept, Inv, TypeOK
<1> QED BY <1>2, <1>3, <1>4 DEF server_connect_success

LEMMA HandshakeKeeps == ASSUME Inv, ssl_do_connect PROVE Kept
<1>1. /\ serv.connecting /\ UNCHANGED <<down, overlaps, faults>>
      /\ serv.ssl_do_connect_tag
  BY InvFacts DEF ssl_do_connect, Sound, Own
<1> DEFINE d == [server_cleanup(serv) EXCEPT !.ssl_do_connect_tag = FALSE]
<1>2. /\ d = server_cleanup(serv) /\ d \in Serv /\ Sound(d, faults) /\ Quiet(d)
      /\ d.refresh = serv.refresh /\ d.alive = serv.alive /\ d.timers \subseteq serv.timers
      /\ Tagged(serv) => d.timers = {}
  <2>1. /\ server_cleanup(serv) \in Serv /\ server_cleanup(serv).ssl_do_connect_tag = FALSE
    BY InvFacts, Cleaned DEF Sound
  <2>2. d = server_cleanup(serv)
    BY <2>1 DEF Serv
  <2>3. serv \in Serv /\ faults \in Nat /\ Sound(serv, faults)
    BY InvFacts
  <2> HIDE DEF d
  <2> QED BY <2>1, <2>2, <2>3, Cleaned
<1>3. d.recondelay_tag = serv.recondelay_tag
  BY <1>1, <1>2, InvFacts, Stopped DEF server_cleanup
<1>4. Fresh(serv) \subseteq Fresh(d)
  BY <1>2, <1>3 DEF Fresh
<1>5. overlaps = 0 => Tagged(d)
  BY <1>1, <1>2, InvFacts DEF Tagged
<1> HIDE DEF d
<1>6. CASE serv' = server_connected(server_stopconnecting(serv))
  <2>1. Sound(serv', faults) /\ (Tagged(serv) => Tagged(serv'))
    BY <1>1, <1>6, InvFacts, ConnectedSound
  <2> QED BY <1>1, <2>1, InvFacts DEF Kept, Inv, TypeOK
<1>7. CASE \E id \in Fresh(serv) : serv' = Retry(d, cfg.retryfail, id)
  <2>1. PICK id \in Fresh(d) : serv' = Retry(d, cfg.retryfail, id)
    BY <1>4, <1>7
  <2>2. cfg.retryfail \in BOOLEAN
    BY InvFacts DEF Settings
  <2>3. Sound(serv', faults)
    BY <1>2, <2>1, <2>2, InvFacts, FallbackSound
  <2>4. overlaps = 0 => Tagged(serv')
    BY <1>1, <1>2, <2>1, <2>2, InvFacts, FallbackSound
  <2> QED BY <1>1, <2>3, <2>4, InvFacts DEF Kept, Inv, TypeOK
<1>8. CASE serv' = d
  BY <1>1, <1>2, <1>5, <1>8, InvFacts DEF Kept, Inv, TypeOK
<1> QED BY <1>6, <1>7, <1>8 DEF ssl_do_connect, d

LEMMA LoginKeeps == ASSUME Inv, LoginDone PROVE Kept
<1>1. /\ serv.connected /\ UNCHANGED <<down, overlaps, faults>>
      /\ serv' = [serv EXCEPT !.end_of_motd = TRUE]
  BY DEF LoginDone
<1>2. serv' \in Serv
  BY <1>1, InvFacts DEF Serv
<1>3. Own(serv') /\ Reaped(serv', faults)
  BY <1>1, InvFacts DEF Sound, Own, Reaped, Serv
<1>4. Aside(serv')
  BY <1>1, InvFacts DEF Sound, Aside, Serv
<1>5. Tagged(serv) => Tagged(serv')
  BY <1>1, InvFacts DEF Tagged, Serv
<1> QED BY <1>1, <1>2, <1>3, <1>4, <1>5, InvFacts DEF Kept, Inv, TypeOK, Sound

\* Whatever a connection or an attempt is when its stream ends.
LEMMA ReadFailsSound ==
    ASSUME cfg \in Settings, NEW s \in Serv, NEW f \in Nat, Sound(s, f), NEW id \in Fresh(s)
    PROVE  /\ Sound(ReadFails(s, id), f)
           /\ Tagged(s) /\ s.alive /\ s.refresh = 0 => Tagged(ReadFails(s, id))
<1> DEFINE d == server_disconnect(s)
<1>1. /\ d \in Serv /\ Sound(d, f) /\ Quiet(d) /\ d.refresh = s.refresh
      /\ d.alive = s.alive /\ d.timers \subseteq s.timers /\ (Tagged(s) => d.timers = {})
  BY Cleaned DEF server_disconnect, Sound
<1>2. d.recondelay_tag \in {s.recondelay_tag, 0}
  BY DEF server_disconnect, server_cleanup, server_stopconnecting, Serv
<1>3. id \in Fresh(d)
  BY <1>1, <1>2, LinkAssumption DEF Fresh
<1>4. cfg.retry \in BOOLEAN
  BY DEF Settings
<1>5. ReadFails(s, id) \in {Fallback(d, cfg.retry, id), auto_reconnect(s, id), d}
  BY DEF ReadFails
<1> HIDE DEF d
<1>7. Sound(Fallback(d, cfg.retry, id), f) /\ Sound(auto_reconnect(s, id), f) /\ Sound(d, f)
  BY <1>1, <1>3, <1>4, FallbackSound, ReconnectSound
<1>8. ASSUME Tagged(s), s.alive, s.refresh = 0 PROVE Tagged(ReadFails(s, id))
  <2>1. Tagged(d)
    BY <1>1, <1>8 DEF Tagged
  <2>4. Tagged(Fallback(d, cfg.retry, id))
    BY <1>1, <1>3, <1>4, <1>8, FallbackSound
  <2>2. CASE s.end_of_motd
    <3>1. s.connected /\ ~s.connecting
      BY <2>2 DEF Sound, Own
    <3>2. Tagged(auto_reconnect(s, id))
      BY <1>8, <3>1, ReconnectSound
    <3> QED BY <1>5, <2>1, <2>4, <3>2
  <2>3. CASE ~s.end_of_motd
    BY <2>3, <2>4 DEF ReadFails, d
  <2> QED BY <2>2, <2>3
<1> QED BY <1>5, <1>7, <1>8

LEMMA ReadKeeps == ASSUME Inv, server_read PROVE Kept
<1>1. serv.connected /\ UNCHANGED <<down, overlaps, faults>>
  BY InvFacts DEF server_read
<1>2. PICK id \in Fresh(serv) : serv' = ReadFails(serv, id)
  BY DEF server_read
<1>3. Sound(serv', faults)
  BY <1>1, <1>2, InvFacts, ReadFailsSound
<1>4. overlaps = 0 => Tagged(serv')
  BY <1>1, <1>2, InvFacts, ReadFailsSound
<1> QED BY <1>1, <1>3, <1>4, InvFacts DEF Kept, Inv, TypeOK

LEMMA StsKeeps == ASSUME Inv, StsUpgrade PROVE Kept
<1>1. serv.connected /\ UNCHANGED <<down, overlaps, faults>>
  BY DEF StsUpgrade
<1> DEFINE d == server_disconnect(serv)
           s == server_connect(d, TRUE, TRUE)
<1>2. /\ d \in Serv /\ Sound(d, faults) /\ d.alive = serv.alive /\ d.refresh = serv.refresh
      /\ Quiet(d) /\ (Tagged(serv) => d.timers = {})
  BY InvFacts, Cleaned DEF server_disconnect, Sound
<1>3. serv.alive /\ d.alive
  BY <1>1, <1>2, InvFacts DEF Sound, Aside
<1>4. overlaps = 0 => Tagged(d) /\ d.refresh = 0
  BY <1>1, <1>2, InvFacts DEF Tagged
<1> HIDE DEF d
<1>5. /\ s \in Serv /\ Sound(s, faults) /\ ~s.end_of_motd /\ s.alive /\ s.refresh = d.refresh
      /\ Tagged(d) /\ d.refresh = 0 => Tagged(s)
  BY <1>2, <1>3, InvFacts, ConnectSoundOk DEF Sound
<1> HIDE DEF s
<1>6. serv' = s \/ \E id \in Fresh(s) : serv' = ReadFails(s, id)
  BY DEF StsUpgrade, d, s
<1>7. CASE serv' = s
  BY <1>1, <1>4, <1>5, <1>7, InvFacts DEF Kept, Inv, TypeOK
<1>8. CASE \E id \in Fresh(s) : serv' = ReadFails(s, id)
  <2>1. PICK id \in Fresh(s) : serv' = ReadFails(s, id)
    BY <1>8
  <2>2. Sound(serv', faults)
    BY <1>5, <2>1, InvFacts, ReadFailsSound
  <2>3. overlaps = 0 => Tagged(serv')
    BY <1>4, <1>5, <2>1, InvFacts, ReadFailsSound
  <2> QED BY <1>1, <2>2, <2>3, InvFacts DEF Kept, Inv, TypeOK
<1> QED BY <1>6, <1>7, <1>8

LEMMA LagKeeps == ASSUME Inv, lag_check PROVE Kept
<1>1. serv.connected /\ ~serv.connecting /\ UNCHANGED <<down, overlaps, faults>>
  BY InvFacts DEF lag_check, Sound, Own
<1>2. PICK id \in Fresh(serv) : serv' = auto_reconnect(serv, id)
  BY DEF lag_check
<1>3. Sound(serv', faults)
  BY <1>2, InvFacts, ReconnectSound
<1>4. overlaps = 0 => Tagged(serv')
  BY <1>1, <1>2, InvFacts, ReconnectSound
<1> QED BY <1>1, <1>3, <1>4, InvFacts DEF Kept, Inv, TypeOK

(***************************************************************************)
(* The timers and the token refresh.                                       *)
(***************************************************************************)
\* A tagged timer that fires was the only one, and nothing ran beside it.
LEMMA FiredSound ==
    ASSUME Inv, NEW t \in serv.timers
    PROVE  /\ Fired(t) \in Serv /\ Sound(Fired(t), faults) /\ Same(serv, Fired(t))
           /\ overlaps = 0 => /\ Tagged(Fired(t)) /\ Fired(t).timers = {} /\ ~down
                              /\ Quiet(serv) /\ serv.refresh = 0 /\ serv.alive
<1> DEFINE e == Fired(t)
<1>1. serv.timers \ {t} \in SUBSET Timers
  BY InvFacts DEF Serv
<1>2. e \in Serv /\ e.timers = serv.timers \ {t} /\ Same(serv, e)
  BY <1>1, InvFacts DEF Fired, Serv, Same, Core
<1> HIDE DEF e
<1>3. Sound(e, faults)
  BY <1>2, InvFacts, CoreSound DEF Same
<1>4. ASSUME overlaps = 0
      PROVE  /\ Tagged(e) /\ e.timers = {} /\ ~down
             /\ Quiet(serv) /\ serv.refresh = 0 /\ serv.alive
  <2>1. Tagged(serv) /\ ~down
    BY <1>4 DEF Inv
  <2>2. \A u \in serv.timers : u = t
    BY <2>1, InvFacts DEF Tagged, Sound, Aside
  <2>3. e.timers = {}
    BY <1>2, <2>2
  <2>4. Quiet(serv) /\ serv.refresh = 0 /\ serv.alive
    BY <2>1 DEF Tagged, Quiet
  <2>5. Tagged(e)
    BY <1>2, <2>3, <2>4 DEF Tagged, Same
  <2> QED BY <2>1, <2>3, <2>4, <2>5
<1> QED BY <1>2, <1>3, <1>4 DEF e

LEMMA AutoKeeps ==
    ASSUME Inv, NEW t \in Timers, timeout_auto_reconnect(t)
    PROVE  Kept
<1>1. t \in serv.timers /\ UNCHANGED <<down, overlaps>>
  BY DEF timeout_auto_reconnect
<1> DEFINE g == Fired(t)
           s == [g EXCEPT !.recondelay_tag = 0]
<1>2. /\ g \in Serv /\ Sound(g, faults) /\ Same(serv, g)
      /\ overlaps = 0 => /\ Tagged(g) /\ g.timers = {} /\ ~down
                         /\ Quiet(serv) /\ serv.refresh = 0 /\ serv.alive
  BY <1>1, FiredSound
<1> HIDE DEF g
<1>3. s \in Serv /\ Same(g, s) /\ s.timers = g.timers
  BY <1>2 DEF Serv, Same, Core
<1>4. Sound(s, faults)
  BY <1>2, <1>3, InvFacts, CoreSound DEF Same
<1>5. overlaps = 0 => Tagged(s) /\ s.refresh = 0
  BY <1>2, <1>3 DEF Tagged, Same, Core
<1>6. s.alive = serv.alive
  BY <1>2, <1>3 DEF Same, Core
<1> HIDE DEF s
<1>7. \/ serv.alive /\ Connects(s, serv.hostname)
      \/ serv' \in {s, g} /\ UNCHANGED faults
  BY DEF timeout_auto_reconnect, g, s
<1>8. CASE serv.alive /\ Connects(s, serv.hostname)
  <2>1. TypeOK
    BY DEF Inv
  <2>2. /\ faults' \in 0..MaxFaults /\ Sound(serv', faults')
        /\ Tagged(s) /\ s.refresh = 0 => Tagged(serv')
    BY <1>3, <1>4, <1>6, <1>8, <2>1, ConnectsSound
  <2> QED BY <1>1, <1>2, <1>5, <2>2 DEF Kept
<1>9. CASE serv' \in {s, g} /\ UNCHANGED faults
  BY <1>1, <1>2, <1>4, <1>5, <1>9, InvFacts DEF Kept, Inv, TypeOK
<1> QED BY <1>7, <1>8, <1>9

\* By way of a refresh or at once; a second refresh under way is an overlap.
LEMMA ServlistSound ==
    ASSUME Inv, NEW s \in Serv, Sound(s, faults), s.alive, servlist_connect(s)
    PROVE  /\ faults' \in 0..MaxFaults /\ Sound(serv', faults')
           /\ Tagged(s) /\ s.refresh = 0 /\ (serv'.refresh > 0 => Quiet(s) /\ s.timers = {})
                => Tagged(serv')
<1>1. CASE \E named \in BOOLEAN : Connects(s, named)
  <2>1. TypeOK
    BY DEF Inv
  <2> QED BY <1>1, <2>1, ConnectsSound
<1>2. CASE /\ s.refresh <= MaxOverlaps
           /\ serv' = [s EXCEPT !.refresh = @ + 1, !.oauth_connect_host = TRUE]
           /\ UNCHANGED faults
  <2>1. s.refresh \in 0..MaxOverlaps + 1 /\ MaxOverlaps \in Nat
    BY LinkAssumption DEF Serv
  <2>2. s.refresh + 1 \in 0..MaxOverlaps + 1
    BY <1>2, <2>1
  <2>3. /\ serv' \in Serv /\ Core(s, serv') /\ serv'.timers = s.timers
        /\ serv'.refresh = s.refresh + 1 /\ serv'.oauth_connect_host
    BY <1>2, <2>2 DEF Serv, Core
  <2>4. Sound(serv', faults)
    BY <2>3, InvFacts, CoreSound
  <2>5. ASSUME s.refresh = 0, Quiet(s), s.timers = {} PROVE Tagged(serv')
    BY <2>3, <2>5 DEF Tagged, Core, Quiet
  <2>6. s.refresh = 0 => serv'.refresh > 0
    BY <2>3
  <2> QED BY <1>2, <2>4, <2>5, <2>6 DEF Inv, TypeOK
<1> QED BY <1>1, <1>2 DEF servlist_connect

LEMMA CycleKeeps ==
    ASSUME Inv, NEW t \in Timers, servlist_cycle_cb(t)
    PROVE  Kept
<1>1. t \in serv.timers /\ serv.alive /\ UNCHANGED <<down, overlaps>>
  BY DEF servlist_cycle_cb
<1> DEFINE g == Fired(t)
<1>2. /\ g \in Serv /\ Sound(g, faults) /\ Same(serv, g)
      /\ overlaps = 0 => /\ Tagged(g) /\ g.timers = {} /\ ~down
                         /\ Quiet(serv) /\ serv.refresh = 0 /\ serv.alive
  BY <1>1, FiredSound
<1>3. servlist_connect(g)
  BY DEF servlist_cycle_cb
<1> HIDE DEF g
<1>4. g.alive /\ (overlaps = 0 => Quiet(g) /\ g.refresh = 0)
  BY <1>1, <1>2 DEF Same, Core, Quiet
<1>5. /\ faults' \in 0..MaxFaults /\ Sound(serv', faults')
      /\ overlaps = 0 => Tagged(serv')
  BY <1>2, <1>3, <1>4, ServlistSound
<1> QED BY <1>1, <1>2, <1>5 DEF Kept

LEMMA RefreshKeeps == ASSUME Inv, servlist_oauth_refresh_cb PROVE Kept
<1> DEFINE s == [serv EXCEPT !.refresh = @ - 1, !.oauth_connect_host = FALSE]
<1>1. /\ serv.refresh > 0 /\ UNCHANGED <<down, overlaps>>
      /\ \/ serv.alive /\ \E named \in BOOLEAN : Connects(s, named)
         \/ serv' = s /\ UNCHANGED faults
  BY DEF servlist_oauth_refresh_cb
<1>2. serv.refresh \in 0..MaxOverlaps + 1 /\ MaxOverlaps \in Nat
  BY InvFacts, LinkAssumption DEF Serv
<1>3. serv.refresh - 1 \in 0..MaxOverlaps + 1
  BY <1>1, <1>2
<1>4. s \in Serv /\ Core(serv, s) /\ s.timers = serv.timers /\ s.refresh = serv.refresh - 1
  BY <1>3, InvFacts DEF Serv, Core
<1> HIDE DEF s
<1>5. Sound(s, faults)
  BY <1>4, InvFacts, CoreSound
<1>6. overlaps = 0 => Tagged(s) /\ s.refresh = 0 /\ ~down
  <2> SUFFICES ASSUME overlaps = 0 PROVE Tagged(s) /\ s.refresh = 0 /\ ~down
    OBVIOUS
  <2>1. Tagged(serv) /\ ~down
    BY <1>1, <1>2 DEF Inv
  <2>2. serv.refresh = 1 /\ serv.timers = {}
    BY <1>1, <1>2, <2>1 DEF Tagged
  <2> QED BY <1>4, <2>1, <2>2 DEF Tagged
<1>7. CASE serv.alive /\ \E named \in BOOLEAN : Connects(s, named)
  <2>1. TypeOK /\ s.alive
    BY <1>4, <1>7 DEF Inv, Core
  <2>2. /\ faults' \in 0..MaxFaults /\ Sound(serv', faults')
        /\ Tagged(s) /\ s.refresh = 0 => Tagged(serv')
    BY <1>4, <1>5, <1>7, <2>1, ConnectsSound
  <2> QED BY <1>1, <1>6, <2>2 DEF Kept
<1>8. CASE serv' = s /\ UNCHANGED faults
  BY <1>1, <1>5, <1>6, <1>8, InvFacts DEF Kept, Inv, TypeOK
<1> QED BY <1>1, <1>7, <1>8

(***************************************************************************)
(* The user.                                                               *)
(***************************************************************************)
LEMMA OverlapMonotone ==
    ASSUME overlaps \in 0..MaxOverlaps, NEW o \in BOOLEAN, Overlapping(o)
    PROVE  overlaps' \in 0..MaxOverlaps /\ (overlaps' = 0 => overlaps = 0 /\ ~o)
BY LinkAssumption DEF Overlapping

LEMMA ServerKeeps ==
    ASSUME Inv, cmd_server
    PROVE  Kept /\ overlaps' \in 0..MaxOverlaps
<1> DEFINE o == serv.refresh > 0 \/ (serv'.refresh > 0 /\ Busy)
<1>1. serv.alive /\ Overlapping(o) /\ ~down' /\ (servlist_connect(serv) \/ Connects(serv, TRUE))
  BY DEF cmd_server
<1>2. overlaps' \in 0..MaxOverlaps /\ (overlaps' = 0 => overlaps = 0 /\ ~o)
  <2>1. overlaps \in 0..MaxOverlaps /\ o \in BOOLEAN
    BY DEF Inv, TypeOK
  <2> HIDE DEF o
  <2> QED BY <1>1, <2>1, OverlapMonotone
<1>3. serv.refresh \in Nat
  BY InvFacts, LinkAssumption DEF Serv
<1>4. overlaps' = 0 => /\ Tagged(serv) /\ serv.refresh = 0
                       /\ serv'.refresh > 0 => Quiet(serv) /\ serv.timers = {}
  BY <1>2, <1>3 DEF Inv, Busy, Quiet
<1>5. servlist_connect(serv) => /\ faults' \in 0..MaxFaults /\ Sound(serv', faults')
                                /\ overlaps' = 0 => Tagged(serv')
  BY <1>1, <1>4, InvFacts, ServlistSound
<1>6. Connects(serv, TRUE) => /\ faults' \in 0..MaxFaults /\ Sound(serv', faults')
                              /\ overlaps' = 0 => Tagged(serv')
  BY <1>1, <1>4, InvFacts, ConnectsSound DEF Inv
<1> QED BY <1>1, <1>2, <1>5, <1>6 DEF Kept

LEMMA DisconKeeps ==
    ASSUME Inv, cmd_discon
    PROVE  Kept /\ overlaps' \in 0..MaxOverlaps
<1>1. /\ serv.alive /\ Overlapping(serv.refresh > 0) /\ UNCHANGED faults
      /\ serv' = server_cleanup(serv)
  BY DEF cmd_discon, server_disconnect
<1>2. serv.refresh \in Nat
  BY InvFacts, LinkAssumption DEF Serv
<1>3. overlaps' \in 0..MaxOverlaps /\ (overlaps' = 0 => overlaps = 0 /\ serv.refresh = 0)
  <2>1. overlaps \in 0..MaxOverlaps /\ (serv.refresh > 0) \in BOOLEAN
    BY DEF Inv, TypeOK
  <2>2. overlaps' \in 0..MaxOverlaps /\ (overlaps' = 0 => overlaps = 0 /\ ~(serv.refresh > 0))
    BY <1>1, <2>1, OverlapMonotone
  <2> QED BY <1>2, <2>2
<1>4. Sound(serv', faults) /\ Quiet(serv') /\ serv'.refresh = serv.refresh
  BY <1>1, InvFacts, Cleaned
<1>5. Tagged(serv) => serv'.timers = {}
  BY <1>1, InvFacts, Cleaned
<1>6. overlaps' = 0 => /\ Tagged(serv') /\ serv'.timers = {} /\ serv'.refresh = 0
  BY <1>3, <1>4, <1>5 DEF Inv, Tagged
<1> QED BY <1>1, <1>3, <1>4, <1>6, InvFacts DEF Kept, Inv, TypeOK

LEMMA ReconnectKeeps ==
    ASSUME Inv, cmd_reconnect
    PROVE  Kept /\ overlaps' \in 0..MaxOverlaps
<1> DEFINE o == serv.connecting \/ serv.refresh > 0
           Named(named) == [serv EXCEPT !.hostname = @ \/ named]
<1>1. serv.alive /\ Overlapping(o) /\ UNCHANGED faults /\ ~down'
  BY DEF cmd_reconnect
<1>2. PICK id \in Fresh(serv), named \in BOOLEAN : serv' = auto_reconnect(Named(named), id)
  BY DEF cmd_reconnect
<1> DEFINE s == Named(named)
<1>3. overlaps' \in 0..MaxOverlaps /\ (overlaps' = 0 => overlaps = 0 /\ ~o)
  <2>1. overlaps \in 0..MaxOverlaps /\ o \in BOOLEAN
    BY InvFacts DEF Inv, TypeOK
  <2> HIDE DEF o
  <2> QED BY <1>1, <2>1, OverlapMonotone
<1>4. serv.refresh \in Nat
  BY InvFacts, LinkAssumption DEF Serv
<1>5. /\ s \in Serv /\ Same(serv, s) /\ s.timers = serv.timers
      /\ s.recondelay_tag = serv.recondelay_tag
      /\ s.oauth_connect_host = serv.oauth_connect_host
  BY InvFacts DEF Serv, Same, Core
<1>6. serv' = auto_reconnect(s, id)
  BY <1>2
<1> HIDE DEF s
<1>7. Sound(s, faults) /\ id \in Fresh(s)
  BY <1>5, InvFacts, CoreSound DEF Same, Fresh
<1>8. overlaps' = 0 => Tagged(s) /\ s.refresh = 0 /\ ~s.connecting
  BY <1>3, <1>4, <1>5 DEF Inv, Tagged, Same, Core
<1>9. s.alive
  BY <1>1, <1>5 DEF Same, Core
<1>10. Sound(serv', faults) /\ (overlaps' = 0 => Tagged(serv'))
  BY <1>5, <1>6, <1>7, <1>8, <1>9, InvFacts, ReconnectSound
<1> QED BY <1>1, <1>3, <1>10, InvFacts DEF Kept, Inv, TypeOK

LEMMA FreeKeeps == ASSUME Inv, server_free PROVE Kept
<1> DEFINE d == server_cleanup(serv)
<1>1. /\ serv' = [d EXCEPT !.alive = FALSE] /\ ~down' /\ UNCHANGED <<overlaps, faults>>
  BY DEF server_free
<1>2. /\ d \in Serv /\ Sound(d, faults) /\ Quiet(d) /\ d.refresh = serv.refresh
      /\ d.oauth_connect_host = serv.oauth_connect_host
      /\ Tagged(serv) => d.timers = {}
  BY InvFacts, Cleaned DEF Sound
<1> HIDE DEF d
<1>3. serv' \in Serv
  BY <1>1, <1>2 DEF Serv
<1>4. Own(serv') /\ Reaped(serv', faults)
  BY <1>1, <1>2 DEF Sound, Own, Reaped, Serv
<1>5. Aside(serv')
  BY <1>1, <1>2 DEF Sound, Aside, Serv, Quiet
<1>6. overlaps = 0 => Tagged(serv')
  BY <1>1, <1>2 DEF Inv, Tagged, Serv, Quiet
<1> QED BY <1>1, <1>3, <1>4, <1>5, <1>6, InvFacts DEF Kept, Inv, TypeOK, Sound

(***************************************************************************)
(* The theorems.                                                           *)
(***************************************************************************)
LEMMA InitInv == Init => Inv
<1> SUFFICES ASSUME Init PROVE Inv
  OBVIOUS
<1>1. serv \in Serv
  BY LinkAssumption DEF Init, NewServ, Serv
<1>2. TypeOK
  <2>1. cfg \in Configs /\ cfg \in Settings
    BY LinkAssumption DEF Init, Settings
  <2>2. 0 \in 0..MaxOverlaps /\ 0 \in 0..MaxFaults
    BY LinkAssumption
  <2> QED BY <1>1, <2>1, <2>2 DEF Init, TypeOK, Settings
<1>3. Own(serv) /\ Reaped(serv, faults) /\ Aside(serv) /\ Tagged(serv)
  BY DEF Init, NewServ, Own, Reaped, Aside, Tagged
<1> QED BY <1>1, <1>2, <1>3 DEF Inv, Sound, Init

LEMMA StepInv == Inv /\ [Next]_vars => Inv'
<1> SUFFICES ASSUME Inv, [Next]_vars PROVE Inv'
  OBVIOUS
<1>1. CASE Next
  <2>1. Kept /\ overlaps' \in 0..MaxOverlaps
    <3>1. CASE ReadChild \/ ssl_do_connect \/ Socket \/ Timer
                \/ servlist_oauth_refresh_cb \/ server_free
      <4>1. overlaps' \in 0..MaxOverlaps
        BY <3>1 DEF ReadChild, ChildFails, ProxyFails, server_connect_success, ssl_do_connect,
              Socket, server_read, LoginDone, StsUpgrade, lag_check, Timer,
              timeout_auto_reconnect, servlist_cycle_cb, servlist_oauth_refresh_cb,
              server_free, Inv, TypeOK
      <4>2. Kept
        BY <3>1, ChildFailsKeeps, ProxyFailsKeeps, SuccessKeeps, HandshakeKeeps, LoginKeeps,
           ReadKeeps, StsKeeps, LagKeeps, AutoKeeps, CycleKeeps, RefreshKeeps, FreeKeeps
        DEF ReadChild, Socket, Timer
      <4> QED BY <4>1, <4>2
    <3>2. CASE cmd_server \/ cmd_discon \/ cmd_reconnect
      BY <3>2, ServerKeeps, DisconKeeps, ReconnectKeeps
    <3> QED BY <1>1, <3>1, <3>2 DEF Next, User
  <2>2. cfg' \in Settings
    <3>1. CASE UNCHANGED cfg
      BY <3>1, InvFacts
    <3>2. CASE StsUpgrade
      BY <3>2, InvFacts DEF StsUpgrade, Settings
    <3> QED
      BY <1>1, <3>1, <3>2 DEF Next, ReadChild, ChildFails, ProxyFails, server_connect_success,
            ssl_do_connect, Socket, server_read, LoginDone, lag_check, Timer,
            timeout_auto_reconnect, servlist_cycle_cb, servlist_oauth_refresh_cb,
            User, cmd_server, cmd_discon, cmd_reconnect, server_free
  <2>3. owed' \in {"no", "due", "dropped"} /\ down' \in BOOLEAN
    <3>1. /\ owed \in {"no", "due", "dropped"} /\ down \in BOOLEAN /\ serv.connecting \in BOOLEAN
          /\ cfg.net \in BOOLEAN /\ cfg.retry \in BOOLEAN /\ cfg.retryfail \in BOOLEAN
      BY InvFacts DEF Inv, TypeOK, Settings
    <3>2. owed' \in {"no", "due", "dropped"}
      BY <1>1, <3>1 DEF Next, ReadChild, ChildFails, ProxyFails, server_connect_success,
            ssl_do_connect, Socket, server_read, LoginDone, StsUpgrade, lag_check, Timer,
            timeout_auto_reconnect, servlist_cycle_cb, servlist_connect, Connects, Promised,
            Began, GaveUp, servlist_oauth_refresh_cb, User, cmd_server, cmd_discon, cmd_reconnect, server_free
    <3>3. down' \in BOOLEAN
      BY <1>1, <3>1 DEF Next, ReadChild, ChildFails, ProxyFails, server_connect_success,
            ssl_do_connect, Socket, server_read, LoginDone, StsUpgrade, lag_check, Timer,
            timeout_auto_reconnect, servlist_cycle_cb,
            servlist_oauth_refresh_cb, User, cmd_server, cmd_discon, cmd_reconnect, server_free
    <3> QED BY <3>2, <3>3
  <2>4. TypeOK'
    BY <2>1, <2>2, <2>3 DEF TypeOK, Kept, Sound, Settings
  <2> QED BY <2>1, <2>4 DEF Inv, Kept
<1>2. CASE UNCHANGED vars
  BY <1>2 DEF vars, Inv, TypeOK, Sound, Own, Reaped, Aside, Tagged, Quiet
<1> QED BY <1>1, <1>2

LEMMA Invariance == Spec => []Inv
BY InitInv, StepInv, PTL DEF Spec

\* The record, the settings and the counters keep their types: in particular at most one
\* token refresh is under way more often than commands have overlapped.
THEOREM Typing == Spec => []TypeOK
<1>1. Inv => TypeOK
  BY DEF Inv
<1> QED BY <1>1, Invariance, PTL

\* For every network, preference, number of timers, overlapping commands and failed forks,
\* the socket, the child's pipe and the handshake poll have exactly one owner.
THEOREM Ownership == Spec => []OneOwner
<1>1. Inv => OneOwner
  BY DEF Inv, Sound, Own, OneOwner
<1> QED BY <1>1, Invariance, PTL

\* Every connect child is reaped once by server_stopconnecting, and kill() is aimed at a
\* foreign process only after a failed fork.
THEOREM Reaping == Spec => []ChildReaped
<1>1. Inv => ChildReaped
  BY DEF Inv, Sound, Reaped, ChildReaped
<1> QED BY <1>1, Invariance, PTL

\* recondelay_tag names the only reconnect timer as long as no command has overlapped.
THEOREM Tagging == Spec => []TimerTagged
<1>1. Inv => TimerTagged
  BY DEF Inv, Tagged, TimerTagged, TimersHeld
<1> QED BY <1>1, Invariance, PTL

\* As long as no command has overlapped an attempt or a token refresh, the client stays away
\* after /DISCONNECT: nothing is open, under way or armed.
THEOREM StaysDown == Spec => []DownStaysDown
<1>1. Inv => DownStaysDown
  BY DEF Inv, Quiet, DownStaysDown, StaysAway
<1> QED BY <1>1, Invariance, PTL

=============================================================================
