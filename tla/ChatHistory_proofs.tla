------------------------ MODULE ChatHistory_proofs ------------------------
(***************************************************************************)
(* Proofs about ChatHistory: the two slots of every session's queue are    *)
(* accounted for, nothing is sent once the server's history is given up,   *)
(* a replay leaves the queue of its session alone, and the catch-up counts *)
(* its waiters and takes its turns, for any sessions, any budget and any   *)
(* number of connections and requests.                                     *)
(***************************************************************************)
EXTENDS ChatHistory, TLAPS, FiniteSetTheorems, NaturalsInduction, WellFoundedInduction

(***************************************************************************)
(* Client states, and what the functions that take one to another keep.    *)
(***************************************************************************)
Requests == Request \cup {NoReq}
SesRec ==
    [open : BOOLEAN, joined : BOOLEAN, act : Requests, pend : Requests, used : BOOLEAN,
     exh : BOOLEAN, cat : BOOLEAN, bef : BOOLEAN, stale : Nat, retr : Nat, oldest : BOOLEAN,
     newest : {"*", "ts", "msgid"}, chunk : Chunk \cup {NoChunk}]
SrvRec ==
    [con : BOOLEAN, pending : Nat, before : Sess \cup {Nobody}, startT : BOOLEAN,
     beforeT : BOOLEAN, streak : 0..4, supp : BOOLEAN, drives : BOOLEAN,
     wrap : {"no", "open", "done"}, targets : {"no", "deferred", "asked", "done"},
     settled : BOOLEAN]
Client == [ses : [Sess -> SesRec], srv : SrvRec, wire : [Sess -> Nat], cur : Sess]

\* The queue of one session: nothing queued behind nothing, and whoever waits is joined
\* and is owed an answer or has it in chunks.  Firm: it is owed an answer.
Solicited(r) == r.chunk # NoChunk /\ ~r.chunk.unsol
Sound(r, w) ==
    /\ r.pend # NoReq => r.act # NoReq
    /\ r.open /\ r.act # NoReq => r.joined /\ (w > 0 \/ Solicited(r))
Firm(r, w) ==
    /\ r.pend # NoReq => r.act # NoReq
    /\ r.open /\ r.act # NoReq => r.joined /\ w > 0
Fine(x, t) == Sound(x.ses[t], x.wire[t])
Strict(x, t) == Firm(x.ses[t], x.wire[t])

\* What no function of the scheduler does: send while suppressed, open, close or join a
\* session, touch a batch in chunks, or spoil a queue.
Keeps(x, y) ==
    /\ y \in Client
    /\ x.srv.supp => y.srv.supp /\ y.wire = x.wire
    /\ \A t \in Sess :
         /\ y.ses[t].open = x.ses[t].open /\ y.ses[t].joined = x.ses[t].joined
         /\ y.ses[t].chunk = x.ses[t].chunk
         /\ (Fine(x, t) => Fine(y, t)) /\ (Strict(x, t) => Strict(y, t))
\* A queue with a request in flight is left alone.
Spares(x, y) ==
    \A t \in Sess : x.ses[t].act # NoReq =>
        y.ses[t].act = x.ses[t].act /\ y.ses[t].pend = x.ses[t].pend
\* No queue at all is touched.
Aside(x, y) ==
    /\ y \in Client /\ y.wire = x.wire /\ (x.srv.supp => y.srv.supp)
    /\ \A t \in Sess :
         /\ y.ses[t].open = x.ses[t].open /\ y.ses[t].joined = x.ses[t].joined
         /\ y.ses[t].act = x.ses[t].act /\ y.ses[t].pend = x.ses[t].pend
         /\ y.ses[t].chunk = x.ses[t].chunk

LEMMA AsideKeeps ==
    ASSUME NEW x \in Client, NEW y, Aside(x, y)
    PROVE  Keeps(x, y) /\ Spares(x, y)
BY DEF Aside, Keeps, Spares, Fine, Strict, Sound, Firm, Solicited

LEMMA StrictFine ==
    ASSUME NEW x, NEW s, Strict(x, s)
    PROVE  Fine(x, s)
BY DEF Strict, Fine, Firm, Sound

LEMMA Transitive ==
    ASSUME NEW x, NEW y, NEW z, Keeps(x, y), Keeps(y, z)
    PROVE  Keeps(x, z) /\ (Spares(x, y) /\ Spares(y, z) => Spares(x, z))
BY Zenon DEF Keeps, Spares

LEMMA NoRequest == NoReq \notin Request /\ NoReq \in Requests /\ NoReq.type = "none"
BY DEF NoReq, Req, Request, Requests

LEMMA ReqType ==
    ASSUME NEW t \in {"latest", "before", "fill"}, NEW r \in {"msgid", "ts", "*"},
           NEW p \in {CATCHUP, USER}
    PROVE  Req(t, r, p) \in Request
BY DEF Req, Request

\* A session record, and the client that holds it.
LEMMA ClientFields ==
    ASSUME NEW x \in Client
    PROVE  /\ x.ses \in [Sess -> SesRec] /\ x.srv \in SrvRec /\ x.wire \in [Sess -> Nat]
           /\ x.cur \in Sess /\ \A t \in Sess : x.ses[t] \in SesRec /\ x.wire[t] \in Nat
           /\ x.srv.con \in BOOLEAN /\ x.srv.supp \in BOOLEAN /\ x.srv.pending \in Nat
BY DEF Client, SrvRec

LEMMA SesFields ==
    ASSUME NEW r \in SesRec
    PROVE  /\ r.act \in Requests /\ r.pend \in Requests /\ r.open \in BOOLEAN /\ r.joined \in BOOLEAN
           /\ r.cat \in BOOLEAN /\ r.newest \in {"*", "ts", "msgid"} /\ r.used \in BOOLEAN
           /\ r.chunk \in Chunk \cup {NoChunk} /\ r.bef \in BOOLEAN /\ r.exh \in BOOLEAN
BY DEF SesRec

\* A client in which one session, its requests on the wire and the server record change.
Rebuild(x, s, r, n, v) ==
    [x EXCEPT !.ses = [x.ses EXCEPT ![s] = r], !.wire = [x.wire EXCEPT ![s] = n], !.srv = v]

LEMMA Rebuilt ==
    ASSUME NEW x \in Client, NEW s \in Sess, NEW r \in SesRec, NEW v \in SrvRec, NEW n \in Nat,
           NEW y, y = Rebuild(x, s, r, n, v)
    PROVE  /\ y \in Client /\ y.srv = v /\ y.ses[s] = r /\ y.wire[s] = n
           /\ \A t \in Sess : t # s => y.ses[t] = x.ses[t] /\ y.wire[t] = x.wire[t]
           /\ n = x.wire[s] => y.wire = x.wire
BY DEF Client, Rebuild

\* One session changes, outside of its queue.
With(x, a, v) == [x EXCEPT !.ses = a, !.srv = v]
One(x, s, r) == [x.ses EXCEPT ![s] = r]

LEMMA SessionAside ==
    ASSUME NEW x \in Client, NEW s \in Sess, NEW y, NEW r \in SesRec,
           y = With(x, y.ses, y.srv), y.ses = One(x, s, r),
           y.srv \in SrvRec, x.srv.supp => y.srv.supp,
           r.open = x.ses[s].open, r.joined = x.ses[s].joined, r.act = x.ses[s].act,
           r.pend = x.ses[s].pend, r.chunk = x.ses[s].chunk
    PROVE  Aside(x, y)
<1>1. x.ses \in [Sess -> SesRec]
  BY ClientFields
<1>2. /\ y.ses \in [Sess -> SesRec]
      /\ \A t \in Sess : y.ses[t] = IF t = s THEN r ELSE x.ses[t]
  BY <1>1 DEF One
<1>3. y \in Client /\ y.wire = x.wire
  BY <1>2 DEF Client, With
<1>4. QED
  BY <1>2, <1>3 DEF Aside

\* Only the server record changes.
LEMMA ServerAside ==
    ASSUME NEW x \in Client, NEW y, NEW v \in SrvRec, y = [x EXCEPT !.srv = v],
           x.srv.supp => v.supp
    PROVE  Aside(x, y)
<1>1. y.wire = x.wire /\ y.ses = x.ses /\ y.srv = v /\ y \in Client
  BY DEF Client
<1>2. QED
  BY <1>1 DEF Aside

(***************************************************************************)
(* The request queue.                                                      *)
(***************************************************************************)
\* One session's queue, and what is on the wire for it, change.
LEMMA QueueChange ==
    ASSUME NEW x \in Client, NEW s \in Sess, NEW y, NEW r \in SesRec, NEW n \in Nat,
           y = Rebuild(x, s, r, n, x.srv),
           r.open = x.ses[s].open, r.joined = x.ses[s].joined, r.chunk = x.ses[s].chunk,
           x.srv.supp => n = x.wire[s], Fine(x, s) => Sound(r, n),
           Strict(x, s) => Firm(r, n)
    PROVE  /\ Keeps(x, y) /\ y.srv = x.srv /\ y.ses[s] = r /\ y.wire[s] = n
           /\ \A t \in Sess : t # s => y.ses[t] = x.ses[t] /\ y.wire[t] = x.wire[t]
<1>1. x.srv \in SrvRec
  BY ClientFields
<1>3. /\ y \in Client /\ y.srv = x.srv /\ y.ses[s] = r /\ y.wire[s] = n
      /\ \A t \in Sess : t # s => y.ses[t] = x.ses[t] /\ y.wire[t] = x.wire[t]
      /\ n = x.wire[s] => y.wire = x.wire
  BY <1>1, Rebuilt
<1>4. \A t \in Sess : (Fine(x, t) => Fine(y, t)) /\ (Strict(x, t) => Strict(y, t))
  BY <1>3 DEF Fine, Strict
<1>5. QED
  BY <1>3, <1>4 DEF Keeps

LEMMA DispatchKeeps ==
    ASSUME NEW x \in Client, NEW s \in Sess, NEW r \in Request, NEW y, y = DispatchNow(x, s, r)
    PROVE  /\ Keeps(x, y)
           /\ \A t \in Sess : t # s => y.ses[t] = x.ses[t] /\ y.wire[t] = x.wire[t]
           /\ x.ses[s].act = NoReq => Spares(x, y)
<1> DEFINE b == (r.ref = "msgid")
           q == [x.ses[s] EXCEPT !.act = r, !.used = b]
           n == x.wire[s] + 1
<1>1. x.ses[s] \in SesRec /\ x.wire[s] \in Nat /\ r \in Requests /\ r # NoReq /\ b \in BOOLEAN
  BY ClientFields, NoRequest DEF Requests
<1>2. CASE ~Target(x, s) \/ ~x.srv.con \/ x.srv.supp
  <2>1. y = x
    BY <1>2 DEF DispatchNow
  <2>2. QED
    BY <2>1 DEF Keeps, Spares
<1>3. CASE Target(x, s) /\ x.srv.con /\ ~x.srv.supp
  <2> HIDE DEF b
  <2>1. y = [x EXCEPT !.ses[s].act = r, !.ses[s].used = b, !.wire[s] = @ + 1]
    BY <1>3 DEF DispatchNow, b
  <2>2a. [x EXCEPT !.ses[s].act = r, !.ses[s].used = b, !.wire[s] = @ + 1] =
         [x EXCEPT !.ses = [x.ses EXCEPT ![s] = [x.ses[s] EXCEPT !.act = r, !.used = b]],
                   !.wire = [x.wire EXCEPT ![s] = x.wire[s] + 1], !.srv = x.srv]
    BY DEF Client
  <2>2. y = Rebuild(x, s, q, n, x.srv)
    BY <2>1, <2>2a, Zenon DEF Rebuild
  <2>3. /\ q \in SesRec /\ q.act = r /\ q.open = x.ses[s].open /\ q.joined = x.ses[s].joined
        /\ q.chunk = x.ses[s].chunk /\ q.pend = x.ses[s].pend
    BY <1>1 DEF SesRec
  <2> HIDE DEF q
  <2>4. Sound(q, n) /\ Firm(q, n) /\ n \in Nat
    BY <1>1, <1>3, <2>3 DEF Sound, Firm, Target
  <2> HIDE DEF n
  <2>5. /\ Keeps(x, y)
        /\ \A t \in Sess : t # s => y.ses[t] = x.ses[t] /\ y.wire[t] = x.wire[t]
    BY <1>3, <2>2, <2>3, <2>4, QueueChange
  <2>6. QED
    BY <2>5 DEF Spares
<1>4. QED
  BY <1>2, <1>3

LEMMA SubmitKeeps ==
    ASSUME NEW x \in Client, NEW s \in Sess, NEW r \in Request, NEW y, y = Submit(x, s, r)
    PROVE  /\ Keeps(x, y)
           /\ \A t \in Sess : t # s => y.ses[t] = x.ses[t] /\ y.wire[t] = x.wire[t]
           /\ x.ses[s].act = NoReq => Spares(x, y)
<1> DEFINE q == [x.ses[s] EXCEPT !.pend = r]
           n == x.wire[s]
<1>1. x.ses[s] \in SesRec /\ n \in Nat /\ r \in Requests
  BY ClientFields DEF Requests
<1>2. CASE y = x
  BY <1>2 DEF Keeps, Spares
<1>3. CASE y = DispatchNow(x, s, r)
  BY <1>3, DispatchKeeps
<1>4. CASE x.ses[s].act # NoReq /\ y = [x EXCEPT !.ses[s].pend = r]
  <2>1. y = Rebuild(x, s, q, n, x.srv)
    BY <1>4 DEF Client, Rebuild
  <2>2. /\ q \in SesRec /\ q.act = x.ses[s].act /\ q.open = x.ses[s].open
        /\ q.joined = x.ses[s].joined /\ q.chunk = x.ses[s].chunk
    BY <1>1 DEF SesRec
  <2> HIDE DEF q
  <2>3. (Fine(x, s) => Sound(q, n)) /\ (Strict(x, s) => Firm(q, n))
    BY <1>4, <2>2 DEF Sound, Solicited, Fine, Firm, Strict
  <2>4. n = x.wire[s]
    OBVIOUS
  <2> HIDE DEF n
  <2>5. /\ Keeps(x, y)
        /\ \A t \in Sess : t # s => y.ses[t] = x.ses[t] /\ y.wire[t] = x.wire[t]
    BY <1>1, <2>1, <2>2, <2>3, <2>4, QueueChange
  <2>6. QED
    BY <1>4, <2>5
<1>5. QED
  BY <1>2, <1>3, <1>4 DEF Submit

\* Emptying a queue, or completing its request, makes it sound, whatever it was.
LEMMA FreeKeeps ==
    ASSUME NEW x \in Client, NEW s \in Sess, NEW y, y = QueueFree(x, s)
    PROVE  /\ Keeps(x, y) /\ y.srv = x.srv /\ y.wire[s] = x.wire[s]
           /\ y.ses[s].act = NoReq /\ y.ses[s].pend = NoReq
           /\ \A t \in Sess : t # s => y.ses[t] = x.ses[t] /\ y.wire[t] = x.wire[t]
<1> DEFINE q == [x.ses[s] EXCEPT !.act = NoReq, !.pend = NoReq]
           n == x.wire[s]
<1>1. x.ses[s] \in SesRec /\ n \in Nat
  BY ClientFields
<1>2. y = Rebuild(x, s, q, n, x.srv)
  BY DEF Client, QueueFree, Rebuild
<1>3. /\ q \in SesRec /\ q.act = NoReq /\ q.pend = NoReq /\ q.open = x.ses[s].open
      /\ q.joined = x.ses[s].joined /\ q.chunk = x.ses[s].chunk
  BY <1>1, NoRequest DEF SesRec
<1> HIDE DEF q
<1>4. Sound(q, n) /\ Firm(q, n) /\ n = x.wire[s]
  BY <1>3 DEF Sound, Firm
<1> HIDE DEF n
<1>5. QED
  BY <1>1, <1>2, <1>3, <1>4, QueueChange

LEMMA CompleteKeeps ==
    ASSUME NEW x \in Client, NEW s \in Sess, NEW y, y = RequestComplete(x, s)
    PROVE  Keeps(x, y) /\ Strict(y, s)
<1> DEFINE p == x.ses[s].pend
           z == QueueFree(x, s)
<1>1. p \in Requests
  BY ClientFields, SesFields
<1>2. y = IF p = NoReq THEN z ELSE DispatchNow(z, s, p)
  BY DEF RequestComplete, QueueFree
<1>3. Keeps(x, z) /\ z.ses[s].act = NoReq /\ z.ses[s].pend = NoReq
  BY FreeKeeps
<1> HIDE DEF p, z
<1>4. Strict(z, s) /\ z \in Client
  BY <1>3 DEF Strict, Firm, Keeps
<1>5. CASE p = NoReq
  BY <1>2, <1>3, <1>4, <1>5
<1>6. CASE p # NoReq
  <2>1. p \in Request
    BY <1>1, <1>6 DEF Requests
  <2>2. Keeps(z, y)
    BY <1>2, <1>4, <1>6, <2>1, DispatchKeeps
  <2>3. QED
    BY <1>3, <1>4, <2>2, Transitive DEF Keeps
<1>7. QED
  BY <1>5, <1>6

(***************************************************************************)
(* The catch-up loop.                                                      *)
(***************************************************************************)
\* FirstOf is there: a set of numbers that is not empty has a least one.
LEMMA LeastNat ==
    ASSUME NEW S, S \subseteq Nat, S # {}
    PROVE  \E m \in S : \A n \in S : m <= n
<1> DEFINE R == OpToRel(<, Nat)
<1>1. PICK m \in S : \A n \in S : <<n, m>> \notin R
  <2>1. IsWellFoundedOn(R, Nat)
    BY NatLessThanWellFounded
  <2> HIDE DEF R
  <2>2. QED
    BY <2>1, WFMin
<1>2. \A n \in S : ~(n < m)
  BY <1>1 DEF OpToRel
<1>3. QED
  BY <1>2

LEMMA FirstOfIn ==
    ASSUME NEW S, S \subseteq Sess, S # {}
    PROVE  FirstOf(S) \in S
<1>1. S \subseteq Nat
  BY SchedulerAssumption DEF Sess
<1>2. \E s \in S : \A t \in S : s <= t
  BY <1>1, LeastNat
<1>3. QED
  BY <1>2 DEF FirstOf

LEMMA FinishAside ==
    ASSUME NEW x \in Client, NEW s \in Sess, NEW y, y = FinishCatchup(x, s)
    PROVE  Aside(x, y)
<1> DEFINE r == [x.ses[s] EXCEPT !.cat = FALSE, !.bef = FALSE, !.stale = 0, !.retr = 0]
           v == [x.srv EXCEPT !.before = IF @ = s THEN Nobody ELSE @]
<1>1. x.ses[s] \in SesRec /\ x.srv \in SrvRec
  BY ClientFields
<1>2. /\ r \in SesRec /\ r.open = x.ses[s].open /\ r.joined = x.ses[s].joined
      /\ r.act = x.ses[s].act /\ r.pend = x.ses[s].pend /\ r.chunk = x.ses[s].chunk
  BY <1>1 DEF SesRec
<1>3. v \in SrvRec /\ v.supp = x.srv.supp
  BY <1>1 DEF SrvRec
<1>4. y.ses = One(x, s, r)
  BY DEF One, FinishCatchup, Client
<1>5. y.srv = v
  BY DEF FinishCatchup, Client
<1>6. y = With(x, y.ses, y.srv)
  BY DEF With, FinishCatchup, Client
<1> HIDE DEF r, v
<1>7. QED
  BY <1>2, <1>3, <1>4, <1>5, <1>6, SessionAside

LEMMA GiveBackAside ==
    ASSUME NEW x \in Client, NEW y, y = GiveBackSlot(x)
    PROVE  Aside(x, y)
<1> DEFINE v == [x.srv EXCEPT !.pending = IF @ > 0 THEN @ - 1 ELSE 0]
<1>1. x.srv \in SrvRec
  BY ClientFields
<1>2. v \in SrvRec /\ v.supp = x.srv.supp
  BY <1>1 DEF SrvRec
<1>3. y = [x EXCEPT !.srv = v]
  BY DEF GiveBackSlot, Client
<1> HIDE DEF v
<1>4. QED
  BY <1>2, <1>3, ServerAside

LEMMA NobodyAside ==
    ASSUME NEW x \in Client, NEW y, y = [x EXCEPT !.srv.before = Nobody]
    PROVE  Aside(x, y)
<1> DEFINE v == [x.srv EXCEPT !.before = Nobody]
<1>1. x.srv \in SrvRec
  BY ClientFields
<1>2. v \in SrvRec /\ v.supp = x.srv.supp
  BY <1>1 DEF SrvRec
<1>3. y = [x EXCEPT !.srv = v]
  BY DEF Client
<1> HIDE DEF v
<1>4. QED
  BY <1>2, <1>3, ServerAside

LEMMA NextHopAside ==
    ASSUME NEW x \in Client, NEW y, y = NextHop(x)
    PROVE  Aside(x, y)
<1> DEFINE v == [x.srv EXCEPT !.before = Nobody, !.beforeT = TRUE]
<1>1. x.srv \in SrvRec
  BY ClientFields
<1>2. v \in SrvRec /\ v.supp = x.srv.supp
  BY <1>1 DEF SrvRec
<1>3. y = [x EXCEPT !.srv = v]
  BY DEF NextHop, Client
<1> HIDE DEF v
<1>4. QED
  BY <1>2, <1>3, ServerAside

LEMMA InferType ==
    ASSUME NEW x, NEW s
    PROVE  InferPriority(x, s) \in {CATCHUP, USER}
BY DEF InferPriority

LEMMA LatestKeeps ==
    ASSUME NEW x \in Client, NEW s \in Sess, NEW ref \in {"msgid", "ts", "*"}, NEW y,
           y = RequestLatest(x, s, ref)
    PROVE  /\ Keeps(x, y)
           /\ \A t \in Sess : t # s => y.ses[t] = x.ses[t] /\ y.wire[t] = x.wire[t]
           /\ x.ses[s].act = NoReq => Spares(x, y)
<1> DEFINE r == Req("latest", ref, InferPriority(x, s))
<1>1. r \in Request
  BY InferType, ReqType
<1> HIDE DEF r
<1>2. CASE x.srv.con
  BY <1>1, <1>2, SubmitKeeps DEF RequestLatest, r
<1>3. CASE ~x.srv.con
  BY <1>3 DEF RequestLatest, Keeps, Spares
<1>4. QED
  BY <1>2, <1>3

LEMMA BeforeKeeps ==
    ASSUME NEW x \in Client, NEW s \in Sess, x.ses[s].act = NoReq, NEW y, y = RequestBefore(x, s)
    PROVE  Keeps(x, y) /\ Spares(x, y)
<1> DEFINE r == Req("before", "msgid", InferPriority(x, s))
<1>1. r \in Request
  BY InferType, ReqType
<1> HIDE DEF r
<1>2. CASE x.srv.con
  BY <1>1, <1>2, SubmitKeeps DEF RequestBefore, r
<1>3. CASE ~x.srv.con
  BY <1>3 DEF RequestBefore, Keeps, Spares
<1>4. QED
  BY <1>2, <1>3

\* The session whose turn it is.
Turn(x, t) == [x EXCEPT !.srv.before = t, !.ses[t].bef = TRUE]

LEMMA TurnAside ==
    ASSUME NEW x \in Client, NEW t \in Sess, NEW y,
           y = Turn(x, t)
    PROVE  Aside(x, y)
<1> DEFINE r == [x.ses[t] EXCEPT !.bef = TRUE]
           v == [x.srv EXCEPT !.before = t]
<1>1. x.ses[t] \in SesRec /\ x.srv \in SrvRec
  BY ClientFields
<1>2. /\ r \in SesRec /\ r.open = x.ses[t].open /\ r.joined = x.ses[t].joined
      /\ r.act = x.ses[t].act /\ r.pend = x.ses[t].pend /\ r.chunk = x.ses[t].chunk
  BY <1>1 DEF SesRec
<1>3. v \in SrvRec /\ v.supp = x.srv.supp
  BY <1>1 DEF SrvRec
<1>4. y.ses = One(x, t, r)
  BY DEF One, Turn, Client
<1>5. y.srv = v
  BY DEF Turn, Client
<1>6. y = With(x, y.ses, y.srv)
  BY DEF With, Turn, Client
<1> HIDE DEF r, v
<1>7. QED
  BY <1>2, <1>3, <1>4, <1>5, <1>6, SessionAside

LEMMA CheckKeeps ==
    ASSUME NEW x \in Client, NEW z, z = CheckBefore(x)
    PROVE  Keeps(x, z) /\ Spares(x, z)
<1> DEFINE need == NeedsBefore(x)
           t    == IF x.cur \in need THEN x.cur ELSE FirstOf(need)
           y    == Turn(x, t)
           f    == FinishCatchup(y, t)
           g    == [f EXCEPT !.srv.before = Nobody]
           h    == [x EXCEPT !.srv.before = Nobody]
<1>1. \/ z = x \/ z = h
      \/ need # {} /\ (z = RequestBefore(y, t) \/ z = g)
  BY DEF CheckBefore, Turn
<1>2. CASE z = x
  BY <1>2 DEF Keeps, Spares
<1>3. CASE z = h
  BY <1>3, NobodyAside, AsideKeeps
<1>4. CASE need # {} /\ (z = RequestBefore(y, t) \/ z = g)
  <2>1. need \subseteq Sess /\ \A s \in need : x.ses[s].act = NoReq
    BY DEF NeedsBefore, Loading
  <2> HIDE DEF need
  <2>2. t \in need /\ t \in Sess
    BY <1>4, <2>1, FirstOfIn
  <2> HIDE DEF t
  <2>3. Aside(x, y) /\ y \in Client
    BY <2>2, TurnAside DEF Aside
  <2>4. Keeps(x, y) /\ Spares(x, y) /\ y.ses[t].act = NoReq
    BY <2>1, <2>2, <2>3, AsideKeeps DEF Aside
  <2> HIDE DEF y
  <2>5. CASE z = RequestBefore(y, t)
    <3>1. Keeps(y, z) /\ Spares(y, z)
      BY <2>2, <2>3, <2>4, <2>5, BeforeKeeps
    <3>2. QED
      BY <2>4, <3>1, Transitive
  <2>6. CASE z = g
    <3>1. Aside(y, f) /\ f \in Client
      BY <2>2, <2>3, FinishAside DEF Aside
    <3>2. Keeps(y, f) /\ Spares(y, f)
      BY <2>3, <3>1, AsideKeeps
    <3> HIDE DEF f
    <3>3. Aside(f, z)
      BY <2>6, <3>1, NobodyAside
    <3>4. Keeps(f, z) /\ Spares(f, z)
      BY <3>1, <3>3, AsideKeeps
    <3>5. Keeps(x, f) /\ Spares(x, f)
      BY <2>4, <3>2, Transitive
    <3>6. QED
      BY <3>4, <3>5, Transitive
  <2>7. QED
    BY <1>4, <2>5, <2>6
<1>5. QED
  BY <1>1, <1>2, <1>3, <1>4

\* Both together: what a function does that never touches a queue with a request in flight.
Steady(x, y) == Keeps(x, y) /\ Spares(x, y)

LEMMA SteadyAside ==
    ASSUME NEW x \in Client, NEW y, Aside(x, y)
    PROVE  Steady(x, y) /\ y \in Client
BY AsideKeeps DEF Steady, Aside

LEMMA SteadyClient ==
    ASSUME NEW x \in Client
    PROVE  Steady(x, x) /\ \A y : Steady(x, y) \/ Keeps(x, y) => y \in Client
BY DEF Steady, Keeps, Spares

LEMMA SteadyTwice ==
    ASSUME NEW x, NEW y, NEW z, Steady(x, y), Steady(y, z)
    PROVE  Steady(x, z)
BY Transitive DEF Steady

LEMMA NonePendingKeeps ==
    ASSUME NEW x \in Client, NEW y, y = CheckIfNonePending(x)
    PROVE  Steady(x, y)
<1>1. y = x \/ y = CheckBefore(x)
  BY DEF CheckIfNonePending
<1>2. QED
  BY <1>1, CheckKeeps, SteadyClient DEF Steady

LEMMA FinishedKeeps ==
    ASSUME NEW x \in Client, NEW s \in Sess, NEW y, y = Finished(x, s)
    PROVE  Steady(x, y)
<1> DEFINE f == FinishCatchup(x, s)
<1>1. Steady(x, f) /\ f \in Client
  BY FinishAside, SteadyAside
<1>2. y = CheckBefore(f)
  BY DEF Finished
<1> HIDE DEF f
<1>3. Steady(f, y)
  BY <1>1, <1>2, CheckKeeps DEF Steady
<1>4. QED
  BY <1>1, <1>3, SteadyTwice

\* Updates of one session, outside of its queue.
SetCat(x, s, c) == [x EXCEPT !.ses[s].cat = c]
SetExh(x, s, e) == [x EXCEPT !.ses[s].exh = e]
SetMarks(x, s, o, e) == [x EXCEPT !.ses[s].oldest = o, !.ses[s].exh = e]
SetPages(x, s, m, n) == [x EXCEPT !.ses[s].stale = m, !.ses[s].retr = n]
AddPending(x) == [x EXCEPT !.srv.pending = @ + 1]

LEMMA CatAside ==
    ASSUME NEW x \in Client, NEW s \in Sess, NEW c \in BOOLEAN, NEW y, y = SetCat(x, s, c)
    PROVE  Aside(x, y)
<1> DEFINE r == [x.ses[s] EXCEPT !.cat = c]
<1>1. x.ses[s] \in SesRec /\ x.srv \in SrvRec
  BY ClientFields
<1>2. /\ r \in SesRec /\ r.open = x.ses[s].open /\ r.joined = x.ses[s].joined
      /\ r.act = x.ses[s].act /\ r.pend = x.ses[s].pend /\ r.chunk = x.ses[s].chunk
  BY <1>1 DEF SesRec
<1>3. y.ses = One(x, s, r)
  BY DEF One, SetCat, Client
<1>4. y.srv = x.srv /\ y = With(x, y.ses, y.srv)
  BY DEF With, SetCat, Client
<1> HIDE DEF r
<1>5. QED
  BY <1>1, <1>2, <1>3, <1>4, SessionAside

LEMMA ExhAside ==
    ASSUME NEW x \in Client, NEW s \in Sess, NEW e \in BOOLEAN, NEW y, y = SetExh(x, s, e)
    PROVE  Aside(x, y)
<1> DEFINE r == [x.ses[s] EXCEPT !.exh = e]
<1>1. x.ses[s] \in SesRec /\ x.srv \in SrvRec
  BY ClientFields
<1>2. /\ r \in SesRec /\ r.open = x.ses[s].open /\ r.joined = x.ses[s].joined
      /\ r.act = x.ses[s].act /\ r.pend = x.ses[s].pend /\ r.chunk = x.ses[s].chunk
  BY <1>1 DEF SesRec
<1>3. y.ses = One(x, s, r)
  BY DEF One, SetExh, Client
<1>4. y.srv = x.srv /\ y = With(x, y.ses, y.srv)
  BY DEF With, SetExh, Client
<1> HIDE DEF r
<1>5. QED
  BY <1>1, <1>2, <1>3, <1>4, SessionAside

LEMMA MarksAside ==
    ASSUME NEW x \in Client, NEW s \in Sess, NEW o \in BOOLEAN, NEW e \in BOOLEAN, NEW y,
           y = SetMarks(x, s, o, e)
    PROVE  Aside(x, y)
<1> DEFINE r == [x.ses[s] EXCEPT !.oldest = o, !.exh = e]
<1>1. x.ses[s] \in SesRec /\ x.srv \in SrvRec
  BY ClientFields
<1>2. /\ r \in SesRec /\ r.open = x.ses[s].open /\ r.joined = x.ses[s].joined
      /\ r.act = x.ses[s].act /\ r.pend = x.ses[s].pend /\ r.chunk = x.ses[s].chunk
  BY <1>1 DEF SesRec
<1>3. y.ses = One(x, s, r)
  BY DEF One, SetMarks, Client
<1>4. y.srv = x.srv /\ y = With(x, y.ses, y.srv)
  BY DEF With, SetMarks, Client
<1> HIDE DEF r
<1>5. QED
  BY <1>1, <1>2, <1>3, <1>4, SessionAside

LEMMA PagesAside ==
    ASSUME NEW x \in Client, NEW s \in Sess, NEW m \in Nat, NEW n \in Nat, NEW y,
           y = SetPages(x, s, m, n)
    PROVE  Aside(x, y)
<1> DEFINE r == [x.ses[s] EXCEPT !.stale = m, !.retr = n]
<1>1. x.ses[s] \in SesRec /\ x.srv \in SrvRec
  BY ClientFields
<1>2. /\ r \in SesRec /\ r.open = x.ses[s].open /\ r.joined = x.ses[s].joined
      /\ r.act = x.ses[s].act /\ r.pend = x.ses[s].pend /\ r.chunk = x.ses[s].chunk
  BY <1>1 DEF SesRec
<1>3. y.ses = One(x, s, r)
  BY DEF One, SetPages, Client
<1>4. y.srv = x.srv /\ y = With(x, y.ses, y.srv)
  BY DEF With, SetPages, Client
<1> HIDE DEF r
<1>5. QED
  BY <1>1, <1>2, <1>3, <1>4, SessionAside

LEMMA EnterAside ==
    ASSUME NEW x \in Client, NEW s \in Sess, NEW ref \in {"ts", "msgid"}, NEW y,
           y = EnterLatestPhase(x, s, ref)
    PROVE  Aside(x, y)
<1> DEFINE r == [x.ses[s] EXCEPT !.newest = ref, !.cat = TRUE, !.bef = FALSE]
<1>1. x.ses[s] \in SesRec /\ x.srv \in SrvRec
  BY ClientFields
<1>2. /\ r \in SesRec /\ r.open = x.ses[s].open /\ r.joined = x.ses[s].joined
      /\ r.act = x.ses[s].act /\ r.pend = x.ses[s].pend /\ r.chunk = x.ses[s].chunk
  BY <1>1 DEF SesRec
<1>3. y.ses = One(x, s, r)
  BY DEF One, EnterLatestPhase, Client
<1>4. y.srv = x.srv /\ y = With(x, y.ses, y.srv)
  BY DEF With, EnterLatestPhase, Client
<1> HIDE DEF r
<1>5. QED
  BY <1>1, <1>2, <1>3, <1>4, SessionAside

LEMMA PendingAside ==
    ASSUME NEW x \in Client, NEW y, y = AddPending(x)
    PROVE  Aside(x, y) /\ y.ses = x.ses /\ y.wire = x.wire
<1> DEFINE v == [x.srv EXCEPT !.pending = @ + 1]
<1>1. x.srv \in SrvRec
  BY ClientFields
<1>2. v \in SrvRec /\ v.supp = x.srv.supp
  BY <1>1 DEF SrvRec
<1>3. y = [x EXCEPT !.srv = v]
  BY DEF AddPending, Client
<1>4. y.ses = x.ses /\ y.wire = x.wire
  BY DEF AddPending, Client
<1> HIDE DEF v
<1>5. QED
  BY <1>2, <1>3, <1>4, ServerAside

LEMMA AdoptKeeps ==
    ASSUME NEW x \in Client, NEW s \in Sess, NEW ref \in {"ts", "msgid"}, NEW y, y = Adopt(x, s, ref)
    PROVE  Aside(x, y)
<1> DEFINE e == EnterLatestPhase(x, s, ref)
<1>1. Aside(x, e) /\ e \in Client
  BY EnterAside, SteadyAside
<1>2. y = AddPending(e)
  BY DEF Adopt, AddPending
<1> HIDE DEF e
<1>3. Aside(e, y)
  BY <1>1, <1>2, PendingAside
<1>4. QED
  BY <1>1, <1>3, ZenonT(30) DEF Aside

\* The deferred start and the answer to TARGETS ask for one session each.
LEMMA DeferredKeeps ==
    ASSUME NEW x \in Client, NEW s \in Sess, NEW ref \in {"ts", "msgid"}, NEW y,
           y = SendDeferredLatest(x, s, ref)
    PROVE  Keeps(x, y)
<1> DEFINE e == EnterLatestPhase(x, s, ref)
           l == RequestLatest(e, s, ref)
<1>1. y = x \/ y = AddPending(l)
  BY DEF SendDeferredLatest, AddPending
<1>2. CASE y = x
  BY <1>2 DEF Keeps
<1>3. CASE y = AddPending(l)
  <2>1. Keeps(x, e) /\ e \in Client
    BY EnterAside, SteadyAside DEF Steady
  <2> HIDE DEF e
  <2>2. Keeps(e, l) /\ l \in Client
    BY <2>1, LatestKeeps DEF Keeps
  <2> HIDE DEF l
  <2>3. Keeps(l, y)
    BY <1>3, <2>2, PendingAside, SteadyAside DEF Steady
  <2>4. QED
    BY <2>1, <2>2, <2>3, Transitive
<1>4. QED
  BY <1>1, <1>2, <1>3

LEMMA StartKeeps ==
    ASSUME NEW x \in Client, NEW s \in Sess, NEW y, y = StartCatchup(x, s)
    PROVE  Keeps(x, y)
<1> DEFINE e == SetCat(x, s, TRUE)
           ref == x.ses[s].newest
<1>1. y = x \/ y = RequestLatest(e, s, ref)
  BY DEF StartCatchup, SetCat
<1>2. CASE y = x
  BY <1>2 DEF Keeps
<1>3. CASE y = RequestLatest(e, s, ref)
  <2>1. Keeps(x, e) /\ e \in Client
    BY CatAside, SteadyAside DEF Steady
  <2>2. ref \in {"msgid", "ts", "*"}
    BY ClientFields, SesFields
  <2> HIDE DEF e, ref
  <2>3. Keeps(e, y)
    BY <1>3, <2>1, <2>2, LatestKeeps
  <2>4. QED
    BY <2>1, <2>3, Transitive
<1>4. QED
  BY <1>1, <1>2, <1>3

LEMMA GapFillKeeps ==
    ASSUME NEW x \in Client, NEW s \in Sess, NEW ref \in {"ts", "msgid"}, NEW y,
           y = RequestGapFill(x, s, ref)
    PROVE  Keeps(x, y)
<1> DEFINE r == Req("fill", ref, USER)
<1>1. r \in Request
  BY ReqType
<1>2. y = x \/ y = Submit(x, s, r)
  BY DEF RequestGapFill
<1> HIDE DEF r
<1>3. QED
  BY <1>1, <1>2, SubmitKeeps DEF Keeps

LEMMA RetryKeeps ==
    ASSUME NEW x \in Client, NEW s \in Sess, NEW ref, NEW y, y = GapFillRetry(x, s, ref)
    PROVE  Keeps(x, y)
<1>1. y = x \/ y = RequestGapFill(x, s, "ts")
  BY DEF GapFillRetry
<1>2. CASE y = RequestGapFill(x, s, "ts")
  BY <1>2, GapFillKeeps
<1>3. CASE y = x
  BY <1>3 DEF Keeps
<1>4. QED
  BY <1>1, <1>2, <1>3

(***************************************************************************)
(* Batches and FAILs.                                                      *)
(***************************************************************************)
LEMMA BeforePhaseKeeps ==
    ASSUME NEW x \in Client, NEW s \in Sess, NEW b, NEW y, y = BeforePhase(x, s, b)
    PROVE  Steady(x, y)
<1> DEFINE m == IF b.holds = "dup" THEN x.ses[s].stale + 1 ELSE 0
           n == IF b.holds = "more" THEN x.ses[s].retr + 1 ELSE x.ses[s].retr
           d == SetPages(x, s, m, n)
           e == SetExh(x, s, TRUE)
<1>1. x.ses[s] \in SesRec /\ x.ses \in [Sess -> SesRec]
  BY ClientFields
<1>2. m \in Nat /\ n \in Nat
  BY <1>1 DEF SesRec
<1>3. \/ y = Finished(x, s) \/ y = Finished(e, s) \/ y = Finished(d, s) \/ y = NextHop(d)
  BY DEF BeforePhase, SetPages, SetExh
<1> HIDE DEF m, n
<1>4. Steady(x, d) /\ d \in Client
  BY <1>2, PagesAside, SteadyAside
<1>5. Steady(x, e) /\ e \in Client
  BY ExhAside, SteadyAside
<1> HIDE DEF d, e
<1>6. CASE y = Finished(x, s)
  BY <1>6, FinishedKeeps
<1>7. CASE y = Finished(e, s)
  BY <1>5, <1>7, FinishedKeeps, SteadyTwice
<1>8. CASE y = Finished(d, s)
  BY <1>4, <1>8, FinishedKeeps, SteadyTwice
<1>9. CASE y = NextHop(d)
  BY <1>4, <1>9, NextHopAside, SteadyAside, SteadyTwice
<1>10. QED
  BY <1>3, <1>6, <1>7, <1>8, <1>9

LEMMA LatestPhaseKeeps ==
    ASSUME NEW x \in Client, NEW s \in Sess, NEW ch, NEW y, y = LatestPhase(x, s, ch)
    PROVE  Steady(x, y)
<1> DEFINE g == GiveBackSlot(x)
<1>1. y = CheckIfNonePending(g) \/ y = CheckIfNonePending(x)
  BY DEF LatestPhase
<1>2. Steady(x, g) /\ g \in Client
  BY GiveBackAside, SteadyAside
<1> HIDE DEF g
<1>3. QED
  BY <1>1, <1>2, NonePendingKeeps, SteadyTwice

LEMMA RetireKeeps ==
    ASSUME NEW x \in Client, NEW s \in Sess, NEW ch, NEW y, y = Retire(x, s, ch)
    PROVE  Keeps(x, y) /\ (ch.unsol => Steady(x, y)) /\ (~ch.unsol => Strict(y, s))
<1>1. CASE ch.unsol
  <2>1. y = x
    BY <1>1 DEF Retire
  <2>2. QED
    BY <1>1, <2>1, SteadyClient DEF Steady
<1>2. CASE ~ch.unsol
  <2>1. y = RequestComplete(x, s)
    BY <1>2 DEF Retire
  <2>2. QED
    BY <1>2, <2>1, CompleteKeeps
<1>3. QED
  BY <1>1, <1>2

\* What the end of a batch does: a solicited one leaves a sound queue, an unsolicited one
\* leaves a queue with a request in flight as it was.
Ended(x, s, unsol, y) ==
    Keeps(x, y) /\ (unsol => Steady(x, y)) /\ (~unsol => Strict(y, s))

LEMMA EndedThen ==
    ASSUME NEW x, NEW s \in Sess, NEW u, NEW y, NEW z, Ended(x, s, u, y), Steady(y, z)
    PROVE  Ended(x, s, u, z)
<1>1. Keeps(x, z) /\ (u => Steady(x, z))
  BY Transitive, SteadyTwice DEF Ended, Steady
<1>2. ~u => Strict(z, s)
  BY DEF Ended, Steady, Keeps
<1>3. QED
  BY <1>1, <1>2 DEF Ended

LEMMA EndedKeeps ==
    ASSUME NEW x, NEW s \in Sess, NEW u, NEW y, NEW z, Ended(x, s, u, y), ~u, Keeps(y, z)
    PROVE  Ended(x, s, u, z)
BY Transitive DEF Ended, Keeps

LEMMA AfterAside ==
    ASSUME NEW x, NEW s \in Sess, NEW u, NEW y, NEW z, Steady(x, y), Ended(y, s, u, z)
    PROVE  Ended(x, s, u, z)
BY Transitive, SteadyTwice DEF Ended, Steady

LEMMA FinishBatchKeeps ==
    ASSUME NEW x \in Client, NEW s \in Sess, NEW ch \in Chunk, NEW y, y = FinishBatch(x, s, ch)
    PROVE  Ended(x, s, ch.unsol, y)
<1> DEFINE c == [x EXCEPT !.srv.streak = 0]
           v == [x.srv EXCEPT !.streak = 0]
           q == Retire(c, s, ch)
           o == q.ses[s].oldest \/ (ch.b.holds # "nomsgid" /\ (ch.unsol => ch.owned))
           e == q.ses[s].exh \/ (ch.b.end /\ ~ch.fill /\ ~ch.unsol)
           z == SetMarks(q, s, o, e)
<1>1. x.srv \in SrvRec
  BY ClientFields
<1>2. v \in SrvRec /\ v.supp = x.srv.supp
  BY <1>1 DEF SrvRec
<1>3. c = [x EXCEPT !.srv = v]
  BY DEF Client
<1>4. Steady(x, c) /\ c \in Client
  <2> HIDE DEF v, c
  <2>1. Aside(x, c)
    BY <1>2, <1>3, ServerAside
  <2>2. QED
    BY <2>1, SteadyAside
<1>5. \/ y = z \/ y = BeforePhase(z, s, ch.b) \/ y = LatestPhase(z, s, ch)
  <2>1. z = [q EXCEPT !.ses[s].oldest = @ \/ (ch.b.holds # "nomsgid" /\ (ch.unsol => ch.owned)),
                      !.ses[s].exh = @ \/ (ch.b.end /\ ~ch.fill /\ ~ch.unsol)]
    <3> HIDE DEF q
    <3>1. q \in Client
      BY <1>4, RetireKeeps DEF Keeps, q
    <3>2. QED
      BY <3>1 DEF SetMarks, Client
  <2>2. QED
    BY <2>1 DEF FinishBatch
<1> HIDE DEF c
<1>6. Ended(c, s, ch.unsol, q) /\ q \in Client
  BY <1>4, RetireKeeps DEF Ended, Keeps
<1> HIDE DEF q
<1>7. o \in BOOLEAN /\ e \in BOOLEAN
  OBVIOUS
<1> HIDE DEF o, e
<1>8. Steady(q, z) /\ z \in Client
  BY <1>6, <1>7, MarksAside, SteadyAside
<1> HIDE DEF z
<1>9. Ended(x, s, ch.unsol, z)
  BY <1>4, <1>6, <1>8, EndedThen, AfterAside
<1>10. Steady(z, y)
  BY <1>5, <1>8, BeforePhaseKeeps, LatestPhaseKeeps, SteadyClient
<1>11. QED
  BY <1>9, <1>10, EndedThen

LEMMA EmptyBatchKeeps ==
    ASSUME NEW x \in Client, NEW s \in Sess, NEW ch \in Chunk, NEW ref, NEW w,
           w = EmptyBatch(x, s, ch, ref), ch.unsol => ~ch.fill
    PROVE  Ended(x, s, ch.unsol, w)
<1> DEFINE e == x.ses[s].exh \/ (ch.b.end /\ ~ch.fill /\ ~ch.unsol)
           y == SetExh(x, s, e)
           z == Retire(y, s, ch)
           f == FinishCatchup(z, s)
           g == GiveBackSlot(f)
           h == z.ses[s].exh \/ ~ch.unsol
           k == SetExh(z, s, h)
<1>1. y = [x EXCEPT !.ses[s].exh = @ \/ (ch.b.end /\ ~ch.fill /\ ~ch.unsol)]
  BY DEF SetExh, Client
<1>2. e \in BOOLEAN
  OBVIOUS
<1> HIDE DEF e
<1>3. Steady(x, y) /\ y \in Client
  BY <1>2, ExhAside, SteadyAside
<1>4. \/ ch.fill /\ w = GapFillRetry(z, s, ref)
      \/ ~ch.unsol /\ w = RequestLatest(z, s, "ts")
      \/ w = CheckIfNonePending(g) \/ w = CheckIfNonePending(f)
      \/ w = [z EXCEPT !.ses[s].exh = @ \/ ~ch.unsol]
  BY <1>1 DEF EmptyBatch
<1> HIDE DEF y
<1>5. Ended(y, s, ch.unsol, z) /\ z \in Client
  BY <1>3, RetireKeeps, ZenonT(30) DEF Ended, Keeps
<1> HIDE DEF z
<1>6. Ended(x, s, ch.unsol, z)
  BY <1>3, <1>5, AfterAside
<1>7. k = [z EXCEPT !.ses[s].exh = @ \/ ~ch.unsol] /\ h \in BOOLEAN
  BY <1>5 DEF SetExh, Client
<1> HIDE DEF h
<1>8. Steady(z, k)
  BY <1>5, <1>7, ExhAside, SteadyAside
<1> HIDE DEF k
<1>9. Steady(z, f) /\ f \in Client
  BY <1>5, FinishAside, SteadyAside
<1> HIDE DEF f
<1>10. Steady(f, g) /\ g \in Client
  BY <1>9, GiveBackAside, SteadyAside
<1>11. Steady(z, g)
  BY <1>9, <1>10, SteadyTwice
<1> HIDE DEF g
<1>12. CASE ch.fill /\ w = GapFillRetry(z, s, ref)
  <2>1. Keeps(z, w)
    BY <1>5, <1>12, RetryKeeps
  <2>2. QED
    BY <1>6, <1>12, <2>1, EndedKeeps
<1>13. CASE ~ch.unsol /\ w = RequestLatest(z, s, "ts")
  <2>1. Keeps(z, w)
    BY <1>5, <1>13, LatestKeeps
  <2>2. QED
    BY <1>6, <1>13, <2>1, EndedKeeps
<1>14. CASE w = CheckIfNonePending(g)
  <2>1. Steady(z, w)
    BY <1>10, <1>11, <1>14, NonePendingKeeps, SteadyTwice
  <2>2. QED
    BY <1>6, <2>1, EndedThen
<1>15. CASE w = CheckIfNonePending(f)
  <2>1. Steady(z, w)
    BY <1>9, <1>15, NonePendingKeeps, SteadyTwice
  <2>2. QED
    BY <1>6, <2>1, EndedThen
<1>16. CASE w = k
  BY <1>6, <1>8, <1>16, EndedThen
<1>17. QED
  BY <1>4, <1>7, <1>12, <1>13, <1>14, <1>15, <1>16

LEMMA HandleFailKeeps ==
    ASSUME NEW x \in Client, NEW s \in Sess, NEW unknown, NEW w, w = HandleFail(x, s, unknown)
    PROVE  Keeps(x, w) /\ Strict(w, s)
<1> DEFINE n == IF x.srv.streak < 4 THEN x.srv.streak + 1 ELSE 4
           b == x.srv.supp \/ n >= 4
           c == [x EXCEPT !.srv.streak = n, !.srv.supp = b]
           v == [x.srv EXCEPT !.streak = n, !.supp = b]
           y == FailedRequest(x, s)
           a == x.ses[s].act
           g == GiveBackSlot(y)
           f == FinishCatchup(g, s)
           k == FinishCatchup(y, s)
<1>1. x.srv \in SrvRec /\ n \in 0..4 /\ b \in BOOLEAN
  BY ClientFields DEF SrvRec
<1>2. y = RequestComplete(c, s)
  <2>1. c = [x EXCEPT !.srv.streak = n, !.srv.supp = @ \/ n >= 4]
    BY DEF Client
  <2>2. QED
    BY <2>1 DEF FailedRequest
<1>3. x.srv.supp => b
  OBVIOUS
<1>4. \/ w = y \/ w = GapFillRetry(y, s, a.ref) \/ w = RequestLatest(y, s, "ts")
      \/ w = CheckIfNonePending(f) \/ w = CheckIfNonePending(k)
  BY DEF HandleFail, SlotAfterFail
<1> HIDE DEF n, b
<1>5. v \in SrvRec /\ v.supp = b /\ c = [x EXCEPT !.srv = v]
  BY <1>1 DEF SrvRec, Client
<1> HIDE DEF v, c
<1>6. Keeps(x, c) /\ c \in Client
  <2>1. Aside(x, c)
    BY <1>3, <1>5, ServerAside
  <2>2. QED
    BY <2>1, SteadyAside DEF Steady
<1> HIDE DEF y
<1>7. Keeps(x, y) /\ Strict(y, s) /\ y \in Client
  BY <1>2, <1>6, CompleteKeeps, Transitive DEF Keeps
<1>8. Steady(y, g) /\ g \in Client
  BY <1>7, GiveBackAside, SteadyAside
<1> HIDE DEF g
<1>9. Steady(g, f) /\ f \in Client
  BY <1>8, FinishAside, SteadyAside
<1>10. Steady(y, k) /\ k \in Client
  BY <1>7, FinishAside, SteadyAside
<1> HIDE DEF f, k
<1>11. Keeps(y, w)
  <2>1. CASE w = y
    BY <1>7, <2>1 DEF Keeps
  <2>2. CASE w = GapFillRetry(y, s, a.ref)
    BY <1>7, <2>2, RetryKeeps
  <2>3. CASE w = RequestLatest(y, s, "ts")
    BY <1>7, <2>3, LatestKeeps
  <2>4. CASE w = CheckIfNonePending(f)
    BY <1>8, <1>9, <2>4, NonePendingKeeps, Transitive DEF Steady
  <2>5. CASE w = CheckIfNonePending(k)
    BY <1>10, <2>5, NonePendingKeeps, Transitive DEF Steady
  <2>6. QED
    BY <1>4, <2>1, <2>2, <2>3, <2>4, <2>5
<1>12. QED
  BY <1>7, <1>11, Transitive DEF Keeps

\* A batch with a target: it ends at once, or waits in chunks.
LEMMA ProcessBatchKeeps ==
    ASSUME NEW x \in Client, NEW s \in Sess, NEW b \in Batch, NEW nested \in BOOLEAN,
           NEW ref \in {"ts", "msgid"}, NEW w, w = ProcessBatch(x, s, b, nested, ref)
    PROVE  /\ w \in Client
           /\ x.srv.supp => w.srv.supp /\ w.wire = x.wire
           /\ \A t \in Sess : t # s /\ Fine(x, t) => Fine(w, t)
           /\ nested => Spares(x, w)
           /\ /\ Target(x, s) /\ (b.big => x.ses[s].chunk = NoChunk)
              /\ nested \/ x.ses[s].act = NoReq => Fine(x, s)
              => Fine(w, s)
<1> DEFINE a     == x.ses[s].act
           fill  == a.type = "fill" /\ ~nested
           unsol == nested \/ a = NoReq
           owned == ~unsol \/ Adopts(x, s)
           y     == IF unsol /\ owned THEN Adopt(x, s, ref) ELSE x
           cat   == IF unsol THEN owned ELSE x.ses[s].cat /\ ~fill
           owed  == cat /\ owned /\ ~y.ses[s].bef
           ch    == ChunkOf(b, cat, unsol, owned, owed, fill)
           r     == [y.ses[s] EXCEPT !.chunk = ch]
           k     == [y EXCEPT !.ses[s].chunk = ch]
<1>1. w = IF b.holds = "empty" THEN EmptyBatch(y, s, ch, a.ref)
          ELSE IF b.big THEN k ELSE FinishBatch(y, s, ch)
  BY DEF ProcessBatch
<1>2. /\ fill \in BOOLEAN /\ unsol \in BOOLEAN /\ owned \in BOOLEAN /\ owed \in BOOLEAN
      /\ x.ses[s].cat \in BOOLEAN
  BY ClientFields, SesFields
<1>3. cat \in BOOLEAN /\ (unsol => ~fill)
  BY <1>2, NoRequest
<1>4. Steady(x, y) /\ y \in Client
  BY AdoptKeeps, SteadyAside, SteadyClient
<1>5. unsol <=> nested \/ x.ses[s].act = NoReq
  OBVIOUS
<1> HIDE DEF a, fill, unsol, owned, cat, owed, y
<1>6. ch \in Chunk /\ ch.unsol = unsol /\ ch.fill = fill /\ ch # NoChunk
  <2>1. ch \in Chunk /\ ch.unsol = unsol /\ ch.fill = fill /\ ch.b = b
    BY <1>2, <1>3 DEF ChunkOf, Chunk
  <2>2. NoChunk.b.holds = "none" /\ b.holds # "none"
    BY DEF NoChunk, ChunkOf, NoBatch, Batch
  <2>3. QED
    BY <2>1, <2>2
<1> HIDE DEF ch
<1>7. CASE w = EmptyBatch(y, s, ch, a.ref) \/ w = FinishBatch(y, s, ch)
  <2>1. Ended(y, s, ch.unsol, w)
    BY <1>3, <1>4, <1>6, <1>7, EmptyBatchKeeps, FinishBatchKeeps
  <2>2. Ended(x, s, ch.unsol, w)
    BY <1>4, <2>1, AfterAside
  <2>3. w \in Client /\ (x.srv.supp => w.srv.supp /\ w.wire = x.wire)
        /\ \A t \in Sess : Fine(x, t) => Fine(w, t)
    BY <2>2 DEF Ended, Keeps
  <2>4. nested => Spares(x, w)
    BY <1>5, <1>6, <2>2 DEF Ended, Steady
  <2>5. ~unsol => Fine(w, s)
    BY <1>6, <2>2, StrictFine DEF Ended
  <2>6. QED
    BY <1>5, <2>3, <2>4, <2>5
<1>8. CASE b.big /\ w = k
  <2>1. y.ses[s] \in SesRec
    BY <1>4, ClientFields
  <2>2. /\ r \in SesRec /\ r.chunk = ch /\ r.act = y.ses[s].act /\ r.pend = y.ses[s].pend
        /\ r.open = y.ses[s].open /\ r.joined = y.ses[s].joined
    BY <1>6, <2>1 DEF SesRec
  <2>3. w.ses = One(y, s, r)
    BY <1>4, <1>8 DEF One, Client
  <2>4. w.srv = y.srv /\ w.wire = y.wire /\ w = With(y, w.ses, y.srv)
    BY <1>4, <1>8 DEF With, Client
  <2> HIDE DEF r, k
  <2>5. /\ w.ses \in [Sess -> SesRec]
        /\ \A t \in Sess : w.ses[t] = IF t = s THEN r ELSE y.ses[t]
    BY <1>4, <2>2, <2>3, ClientFields DEF One
  <2>6. w \in Client
    BY <1>4, <2>4, <2>5 DEF With, Client
  <2>7. /\ x.srv.supp => w.srv.supp /\ w.wire = x.wire
        /\ \A t \in Sess : t # s /\ Fine(x, t) => Fine(w, t)
    BY <1>4, <2>4, <2>5 DEF Steady, Keeps, Fine
  <2>8. Spares(x, w)
    BY <1>4, <2>2, <2>5 DEF Steady, Spares
  <2>9. ASSUME Target(x, s), x.ses[s].chunk = NoChunk,
               nested \/ x.ses[s].act = NoReq => Fine(x, s)
        PROVE  Fine(w, s)
    <3>1. /\ y.ses[s].joined /\ y.ses[s].chunk = NoChunk
          /\ Fine(x, s) => Fine(y, s)
      BY <1>4, <2>9 DEF Steady, Keeps, Target
    <3>2. CASE unsol
      <4>1. Fine(y, s)
        BY <1>5, <2>9, <3>1, <3>2
      <4>2. QED
        BY <2>2, <2>4, <2>5, <3>1, <4>1 DEF Fine, Sound, Solicited
    <3>3. CASE ~unsol
      <4>1. y.ses[s].act # NoReq
        BY <1>4, <1>5, <3>3 DEF Steady, Spares
      <4>2. Solicited(r)
        BY <1>6, <2>2, <3>3 DEF Solicited
      <4>3. QED
        BY <2>2, <2>5, <3>1, <4>1, <4>2 DEF Fine, Sound
    <3>4. QED
      BY <3>2, <3>3
  <2>10. QED
    BY <1>8, <2>6, <2>7, <2>8, <2>9
<1>9. QED
  BY <1>1, <1>7, <1>8

(***************************************************************************)
(* The invariant, and the actions.                                         *)
(***************************************************************************)
Typed ==
    /\ ses \in [Sess -> SesRec] /\ srv \in SrvRec /\ wire \in [Sess -> Nat] /\ cur \in Sess
Queues == \A t \in Sess : Sound(ses[t], wire[t])

\* What a FAIL without a context and a dialog at a disconnect do to a queue is left aside.
Standard == "barefail" \notin Features /\ ("drop" \in Features => Dialogs = {})

\* What every step does.
Stepped ==
    /\ Typed'
    /\ srv.supp /\ srv'.supp => \A s \in Sess : wire'[s] <= wire[s]
    /\ Queues /\ Standard => Queues'

LEMMA HereClient ==
    ASSUME Typed
    PROVE  /\ Here \in Client /\ Here.ses = ses /\ Here.srv = srv /\ Here.wire = wire
           /\ Here.cur = cur
           /\ \A t \in Sess : Fine(Here, t) <=> Sound(ses[t], wire[t])
BY DEF Typed, Here, Client, Fine

LEMMA BecomeStep ==
    ASSUME Typed, NEW x \in Client, Become(x),
           srv.supp => \A s \in Sess : x.wire[s] <= wire[s],
           Queues /\ Standard => \A t \in Sess : Fine(x, t)
    PROVE  Stepped
<1>1. ses' = x.ses /\ srv' = x.srv /\ wire' = x.wire /\ cur' = x.cur
  BY DEF Become
<1>2. Typed'
  BY <1>1, ClientFields DEF Typed
<1>3. Queues /\ Standard => Queues'
  BY <1>1 DEF Queues, Fine
<1>4. QED
  BY <1>1, <1>2, <1>3 DEF Stepped

\* A step that only calls functions of the scheduler.
LEMMA KeepsStep ==
    ASSUME Typed, NEW x, Keeps(Here, x), Become(x)
    PROVE  Stepped
<1>1. Here \in Client /\ Here.srv = srv /\ Here.wire = wire
      /\ \A t \in Sess : Fine(Here, t) <=> Sound(ses[t], wire[t])
  BY HereClient
<1>2. x \in Client /\ (srv.supp => x.wire = wire) /\ \A t \in Sess : Fine(Here, t) => Fine(x, t)
  BY <1>1 DEF Keeps
<1>3. \A s \in Sess : wire[s] \in Nat
  BY DEF Typed
<1>4. QED
  BY <1>1, <1>2, <1>3, BecomeStep DEF Queues

\* A step of the server record alone.
LEMMA ServerStepped ==
    ASSUME Typed, srv' \in SrvRec, UNCHANGED <<ses, wire, cur>>
    PROVE  Stepped
BY DEF Typed, Stepped, Queues

LEMMA OfflineType == Offline \in SrvRec
BY DEF Offline, SrvRec, Nobody

LEMMA ConnectStep ==
    ASSUME Typed, NEW d \in BOOLEAN, Connect(d)
    PROVE  Stepped
<1>1. [Offline EXCEPT !.con = TRUE, !.drives = d] \in SrvRec
  BY OfflineType DEF SrvRec
<1>2. QED
  BY <1>1, ServerStepped DEF Connect

LEMMA EndOfMotdStep ==
    ASSUME Typed, EndOfMotd
    PROVE  Stepped
<1> DEFINE g == IF srv.drives THEN "deferred" ELSE SendTargets
<1>1. g \in {"no", "deferred", "asked", "done"} /\ srv \in SrvRec
  BY DEF SendTargets, Typed
<1>2. srv' = [srv EXCEPT !.targets = g]
  BY DEF EndOfMotd
<1> HIDE DEF g
<1>3. srv' \in SrvRec
  BY <1>1, <1>2 DEF SrvRec
<1>4. QED
  BY <1>3, ServerStepped DEF EndOfMotd

LEMMA WrapperBeginStep ==
    ASSUME Typed, WrapperBegin
    PROVE  Stepped
<1> DEFINE g == IF srv.drives /\ srv.targets = "deferred" THEN "done" ELSE srv.targets
           b == srv.startT /\ ~srv.drives
<1>1. /\ g \in {"no", "deferred", "asked", "done"} /\ b \in BOOLEAN /\ srv \in SrvRec
  BY DEF Typed, SrvRec
<1>2. srv' = [srv EXCEPT !.wrap = "open", !.drives = FALSE, !.startT = b, !.targets = g]
  BY <1>1 DEF WrapperBegin, SrvRec
<1> HIDE DEF g, b
<1>3. srv' \in SrvRec
  BY <1>1, <1>2 DEF SrvRec
<1>4. QED
  BY <1>3, ServerStepped DEF WrapperBegin

LEMMA JoinStep ==
    ASSUME Typed, NEW s \in Sess, Join(s)
    PROVE  Stepped
<1> DEFINE r == [ses[s] EXCEPT !.joined = TRUE]
<1>1. ses[s] \in SesRec /\ srv \in SrvRec /\ ses \in [Sess -> SesRec]
  BY DEF Typed
<1>2. /\ r \in SesRec /\ r.open = ses[s].open /\ r.joined = TRUE /\ r.act = ses[s].act
      /\ r.pend = ses[s].pend /\ r.chunk = ses[s].chunk
  BY <1>1 DEF SesRec
<1>3. ses' = [ses EXCEPT ![s] = r] /\ wire' = wire /\ cur' = cur
  BY DEF Join
<1> HIDE DEF r
<1>4. ses' \in [Sess -> SesRec] /\ \A t \in Sess : ses'[t] = IF t = s THEN r ELSE ses[t]
  BY <1>1, <1>2, <1>3
<1>5. srv' = [srv EXCEPT !.startT = TRUE]
  BY DEF Join
<1>6. srv' \in SrvRec
  BY <1>1, <1>5 DEF SrvRec
<1>7. Queues => Queues'
  BY <1>2, <1>3, <1>4 DEF Queues, Sound, Solicited
<1>8. QED
  BY <1>3, <1>4, <1>6, <1>7 DEF Typed, Stepped

LEMMA DeferredStartStep ==
    ASSUME Typed, NEW ref \in [Sess -> {"ts", "msgid"}], DeferredStart(ref)
    PROVE  Stepped
<1> DEFINE sent(s) == SendDeferredLatest(Here, s, ref[s])
           n == Cardinality({s \in Sess : sent(s) # Here})
           g == IF srv.targets = "deferred" THEN SendTargets ELSE srv.targets
<1>1. /\ Here \in Client /\ Here.srv = srv /\ Here.wire = wire
      /\ \A t \in Sess : Fine(Here, t) <=> Sound(ses[t], wire[t])
  BY HereClient
<1>2. \A s \in Sess : Keeps(Here, sent(s))
  BY <1>1, DeferredKeeps
<1>3. n \in Nat
  <2>1. IsFiniteSet(Sess)
    BY SchedulerAssumption DEF Sess
  <2>2. {s \in Sess : sent(s) # Here} \subseteq Sess
    OBVIOUS
  <2>3. QED
    BY <2>1, <2>2, FS_Subset, FS_CardinalityType
<1>4. /\ ses' = [s \in Sess |-> sent(s).ses[s]] /\ wire' = [s \in Sess |-> sent(s).wire[s]]
      /\ srv' = [srv EXCEPT !.startT = FALSE, !.settled = TRUE, !.targets = g, !.pending = n]
      /\ cur' = cur
  <2>1. srv \in SrvRec
    BY DEF Typed
  <2>2. srv' = [srv EXCEPT !.startT = FALSE, !.settled = TRUE,
                     !.targets = IF @ = "deferred" THEN SendTargets ELSE @, !.pending = n]
    BY DEF DeferredStart
  <2> HIDE DEF n
  <2>3. srv' = [srv EXCEPT !.startT = FALSE, !.settled = TRUE, !.targets = g, !.pending = n]
    BY <2>1, <2>2 DEF SrvRec
  <2>4. QED
    BY <2>3 DEF DeferredStart
<1>5. g \in {"no", "deferred", "asked", "done"} /\ srv \in SrvRec
  BY DEF SendTargets, Typed, SrvRec
<1> HIDE DEF sent, n, g
<1>6. srv' \in SrvRec
  BY <1>3, <1>4, <1>5 DEF SrvRec
<1>7. \A s \in Sess : /\ sent(s).ses[s] \in SesRec /\ sent(s).wire[s] \in Nat
                      /\ srv.supp => sent(s).wire = wire
                      /\ Fine(Here, s) => Fine(sent(s), s)
  BY <1>1, <1>2, ClientFields DEF Keeps
<1>8. /\ ses' \in [Sess -> SesRec] /\ wire' \in [Sess -> Nat]
      /\ \A t \in Sess : ses'[t] = sent(t).ses[t] /\ wire'[t] = sent(t).wire[t]
  BY <1>4, <1>7
<1>9. Typed'
  BY <1>4, <1>6, <1>8 DEF Typed
<1>10. Queues => Queues'
  BY <1>1, <1>7, <1>8 DEF Queues, Fine
<1>11. srv.supp => \A s \in Sess : wire'[s] <= wire[s]
  <2>1. \A s \in Sess : wire[s] \in Nat
    BY DEF Typed
  <2>2. QED
    BY <1>7, <1>8, <2>1
<1>12. QED
  BY <1>9, <1>10, <1>11 DEF Stepped

LEMMA TargetsReplyStep ==
    ASSUME Typed, NEW D, TargetsReply(D)
    PROVE  Stepped
<1> DEFINE started(s) == StartCatchup(Here, s)
<1>1. /\ Here \in Client /\ Here.srv = srv /\ Here.wire = wire
      /\ \A t \in Sess : Fine(Here, t) <=> Sound(ses[t], wire[t])
  BY HereClient
<1>2. \A s \in Sess : Keeps(Here, started(s))
  BY <1>1, StartKeeps
<1>3. /\ ses' = [s \in Sess |-> IF s \in D THEN started(s).ses[s] ELSE ses[s]]
      /\ wire' = [s \in Sess |-> IF s \in D THEN started(s).wire[s] ELSE wire[s]]
      /\ srv' = [srv EXCEPT !.targets = "done"] /\ cur' = cur
  BY DEF TargetsReply
<1> HIDE DEF started
<1>4. srv' \in SrvRec
  BY <1>3 DEF Typed, SrvRec
<1>5. \A s \in Sess : /\ started(s).ses[s] \in SesRec /\ started(s).wire[s] \in Nat
                      /\ srv.supp => started(s).wire = wire
                      /\ Fine(Here, s) => Fine(started(s), s)
  BY <1>1, <1>2, ClientFields DEF Keeps
<1>6. \A s \in Sess : ses[s] \in SesRec /\ wire[s] \in Nat
  BY DEF Typed
<1>7. /\ ses' \in [Sess -> SesRec] /\ wire' \in [Sess -> Nat]
      /\ \A t \in Sess : /\ ses'[t] = IF t \in D THEN started(t).ses[t] ELSE ses[t]
                         /\ wire'[t] = IF t \in D THEN started(t).wire[t] ELSE wire[t]
  BY <1>3, <1>5, <1>6
<1>8. Typed'
  BY <1>3, <1>4, <1>7 DEF Typed
<1>9. Queues => Queues'
  <2> SUFFICES ASSUME Queues, NEW t \in Sess PROVE Sound(ses'[t], wire'[t])
    BY DEF Queues
  <2>1. CASE t \in D
    BY <1>1, <1>5, <1>7, <2>1 DEF Queues, Fine
  <2>2. CASE t \notin D
    BY <1>7, <2>2 DEF Queues
  <2>3. QED
    BY <2>1, <2>2
<1>10. srv.supp => \A s \in Sess : wire'[s] <= wire[s]
  BY <1>5, <1>6, <1>7
<1>11. QED
  BY <1>8, <1>9, <1>10 DEF Stepped

LEMMA BeforeTimerStep ==
    ASSUME Typed, BeforeTimer
    PROVE  Stepped
<1> DEFINE v == [srv EXCEPT !.beforeT = FALSE]
           c == [Here EXCEPT !.srv.beforeT = FALSE]
           y == CheckBefore(c)
<1>1. Here \in Client /\ Here.srv = srv
  BY HereClient
<1>2. v \in SrvRec /\ v.supp = srv.supp
  BY DEF Typed, SrvRec
<1>3. c = [Here EXCEPT !.srv = v]
  BY <1>1 DEF Client
<1>4. Become(y)
  BY DEF BeforeTimer
<1> HIDE DEF v, c
<1>5. Steady(Here, c) /\ c \in Client
  <2>1. Aside(Here, c)
    BY <1>1, <1>2, <1>3, ServerAside
  <2>2. QED
    BY <1>1, <2>1, SteadyAside
<1>6. Keeps(Here, y)
  BY <1>5, CheckKeeps, Transitive DEF Steady
<1> HIDE DEF y
<1>7. QED
  BY <1>4, <1>6, KeepsStep

LEMMA WrapperEndStep ==
    ASSUME Typed, WrapperEnd
    PROVE  Stepped
<1> DEFINE v == [srv EXCEPT !.wrap = "done"]
           c == [Here EXCEPT !.srv.wrap = "done"]
           y == CheckIfNonePending(c)
<1>1. Here \in Client /\ Here.srv = srv
  BY HereClient
<1>2. v \in SrvRec /\ v.supp = srv.supp
  BY DEF Typed, SrvRec
<1>3. c = [Here EXCEPT !.srv = v]
  BY <1>1 DEF Client
<1>4. Become(y)
  BY DEF WrapperEnd
<1> HIDE DEF v, c
<1>5. Steady(Here, c) /\ c \in Client
  <2>1. Aside(Here, c)
    BY <1>1, <1>2, <1>3, ServerAside
  <2>2. QED
    BY <1>1, <2>1, SteadyAside
<1>6. Keeps(Here, y)
  BY <1>5, NonePendingKeeps, Transitive DEF Steady
<1> HIDE DEF y
<1>7. QED
  BY <1>4, <1>6, KeepsStep

LEMMA TabSwitchStep ==
    ASSUME Typed, NEW s \in Sess, TabSwitch(s)
    PROVE  Stepped
<1> DEFINE c == [Here EXCEPT !.cur = s]
           y == IF srv.before # s THEN CheckIfNonePending(c) ELSE c
<1>1. Here \in Client
  BY HereClient
<1>2. c \in Client /\ c.ses = Here.ses /\ c.srv = Here.srv /\ c.wire = Here.wire
  BY <1>1 DEF Client
<1>3. Become(y)
  BY DEF TabSwitch
<1> HIDE DEF c
<1>4. Steady(Here, c)
  BY <1>1, <1>2, SteadyAside DEF Aside
<1>5. Keeps(Here, y)
  BY <1>2, <1>4, NonePendingKeeps, Transitive DEF Steady
<1> HIDE DEF y
<1>6. QED
  BY <1>3, <1>5, KeepsStep

LEMMA ScrollStep ==
    ASSUME Typed, ScrollToTop \/ \E s \in Sess, ref \in {"ts", "msgid"} : ScrollToGap(s, ref)
    PROVE  Stepped
<1>1. Here \in Client
  BY HereClient
<1>2. CASE ScrollToTop
  <2> DEFINE r == Req("before", "msgid", USER)
             y == Submit(Here, cur, r)
  <2>1. cur \in Sess /\ r \in Request /\ Become(y)
    BY <1>2, ReqType DEF ScrollToTop
  <2> HIDE DEF r
  <2>2. Keeps(Here, y)
    BY <1>1, <2>1, SubmitKeeps
  <2> HIDE DEF y
  <2>3. QED
    BY <2>1, <2>2, KeepsStep
<1>3. ASSUME NEW s \in Sess, NEW ref \in {"ts", "msgid"}, ScrollToGap(s, ref)
      PROVE  Stepped
  <2> DEFINE y == RequestGapFill(Here, s, ref)
  <2>1. Keeps(Here, y)
    BY <1>1, GapFillKeeps
  <2>2. Become(y)
    BY <1>3 DEF ScrollToGap
  <2> HIDE DEF y
  <2>3. QED
    BY <2>1, <2>2, KeepsStep
<1>4. QED
  BY <1>2, <1>3

\* An answer takes one request off the wire.
LEMMA AnsweredClient ==
    ASSUME Typed, NEW s \in Sess, wire[s] > 0, NEW x, x = Answered(s)
    PROVE  /\ x \in Client /\ x.ses = ses /\ x.srv = srv /\ x.wire[s] = wire[s] - 1
           /\ \A t \in Sess : t # s => x.wire[t] = wire[t]
           /\ \A t \in Sess : x.wire[t] <= wire[t]
<1>1. Here \in Client /\ Here.ses = ses /\ Here.srv = srv /\ Here.wire = wire
  BY HereClient
<1>2. wire \in [Sess -> Nat]
  BY DEF Typed
<1>3. x = [Here EXCEPT !.wire = [wire EXCEPT ![s] = wire[s] - 1]]
  BY <1>1 DEF Answered, Client
<1>4. [wire EXCEPT ![s] = wire[s] - 1] \in [Sess -> Nat]
  BY <1>2
<1>5. x \in Client /\ x.ses = ses /\ x.srv = srv /\ x.wire = [wire EXCEPT ![s] = wire[s] - 1]
  BY <1>1, <1>3, <1>4 DEF Client
<1>6. QED
  BY <1>2, <1>5

\* A batch that is processed for its session, answered or not.
LEMMA BatchStep ==
    ASSUME Typed, NEW s \in Sess, NEW b \in Batch, NEW nested \in BOOLEAN,
           NEW ref \in {"ts", "msgid"}, NEW x \in Client, x.ses = ses, x.srv = srv,
           \A t \in Sess : t # s => x.wire[t] = wire[t], \A t \in Sess : x.wire[t] <= wire[t],
           nested => x.wire[s] = wire[s],
           Target(Here, s), b.big => ses[s].chunk = NoChunk,
           Become(ProcessBatch(x, s, b, nested, ref))
    PROVE  Stepped
<1> DEFINE w == ProcessBatch(x, s, b, nested, ref)
<1>1. /\ w \in Client
      /\ x.srv.supp => w.srv.supp /\ w.wire = x.wire
      /\ \A t \in Sess : t # s /\ Fine(x, t) => Fine(w, t)
      /\ /\ Target(x, s) /\ (b.big => x.ses[s].chunk = NoChunk)
         /\ nested \/ x.ses[s].act = NoReq => Fine(x, s)
         => Fine(w, s)
  BY ProcessBatchKeeps
<1>2. Become(w)
  OBVIOUS
<1> HIDE DEF w
<1>3. Target(x, s)
  BY HereClient DEF Target
<1>4. ASSUME Queues PROVE \A t \in Sess : Fine(w, t)
  <2>1. \A t \in Sess : t # s => Fine(x, t)
    BY <1>4 DEF Queues, Fine
  <2>2. nested => Fine(x, s)
    BY <1>4 DEF Queues, Fine
  <2>3. x.ses[s].act = NoReq => Fine(x, s)
    BY <1>4 DEF Queues, Fine, Sound
  <2>4. QED
    BY <1>1, <1>3, <2>1, <2>2, <2>3
<1>5. QED
  BY <1>1, <1>2, <1>4, BecomeStep

LEMMA AnswerStep ==
    ASSUME Typed, NEW s \in Sess, NEW b \in Batch, NEW ref \in {"ts", "msgid"}, Reply(s, b, ref)
    PROVE  Stepped
<1> DEFINE x == Answered(s)
<1>1. wire[s] > 0 /\ (b.big => ses[s].chunk = NoChunk)
  BY DEF Reply
<1>2. Become(IF Target(Here, s) THEN ProcessBatch(x, s, b, FALSE, ref) ELSE x)
  BY DEF Reply
<1>3. /\ x \in Client /\ x.ses = ses /\ x.srv = srv /\ x.wire[s] = wire[s] - 1
      /\ \A t \in Sess : t # s => x.wire[t] = wire[t]
      /\ \A t \in Sess : x.wire[t] <= wire[t]
  BY <1>1, AnsweredClient
<1> HIDE DEF x
<1>4. CASE Target(Here, s)
  BY <1>1, <1>2, <1>3, <1>4, BatchStep
<1>5. CASE ~Target(Here, s)
  <2>1. ~(ses[s].open /\ ses[s].joined)
    BY <1>5, HereClient DEF Target
  <2>2. ASSUME Queues PROVE \A t \in Sess : Fine(x, t)
    BY <1>3, <2>1, <2>2 DEF Queues, Fine, Sound
  <2>3. QED
    BY <1>2, <1>3, <1>5, <2>2, BecomeStep
<1>6. QED
  BY <1>4, <1>5

LEMMA FailStep ==
    ASSUME Typed, NEW s \in Sess, NEW named \in BOOLEAN, NEW unknown \in BOOLEAN,
           Fail(s, named, unknown)
    PROVE  Stepped
<1> DEFINE x == Answered(s)
           waiting == {t \in Sess : ses[t].open /\ Loading(Here, t)}
           u == FirstOf(waiting)
           h == HandleFail(x, s, unknown)
           k == HandleFail(x, u, FALSE)
<1>1. wire[s] > 0 /\ (named \/ "barefail" \in Features)
  BY DEF Fail
<1>2. \/ named /\ Target(Here, s) /\ Become(h)
      \/ ~(named /\ Target(Here, s)) /\ waiting = {} /\ Become(x)
      \/ ~(named /\ Target(Here, s)) /\ waiting # {} /\ Become(k)
  BY DEF Fail
<1>3. /\ x \in Client /\ x.ses = ses /\ x.srv = srv /\ x.wire[s] = wire[s] - 1
      /\ \A t \in Sess : t # s => x.wire[t] = wire[t]
      /\ \A t \in Sess : x.wire[t] <= wire[t]
  BY <1>1, AnsweredClient
<1>4. Queues => \A t \in Sess : t # s => Fine(x, t)
  BY <1>3 DEF Queues, Fine
<1>5. waiting \subseteq Sess /\ \A t \in waiting : ses[t].open /\ ses[t].act # NoReq
  BY HereClient DEF Loading
<1>6. Queues /\ ~(ses[s].open /\ ses[s].joined) => Fine(x, s)
  BY <1>3 DEF Queues, Fine, Sound
<1>7. Target(Here, s) <=> ses[s].open /\ ses[s].joined
  BY HereClient DEF Target
<1> HIDE DEF x, waiting
<1>8. CASE named /\ Target(Here, s) /\ Become(h)
  <2>1. Keeps(x, h) /\ Strict(h, s)
    BY <1>3, HandleFailKeeps
  <2> HIDE DEF h
  <2>2. /\ h \in Client /\ (srv.supp => h.wire = x.wire)
        /\ Queues => \A t \in Sess : Fine(h, t)
    BY <1>3, <1>4, <2>1, StrictFine DEF Keeps
  <2>3. QED
    BY <1>3, <1>8, <2>2, BecomeStep
<1>9. CASE ~(named /\ Target(Here, s)) /\ waiting = {} /\ Become(x)
  <2>1. Standard => named
    BY <1>1 DEF Standard
  <2>2. Queues /\ Standard => \A t \in Sess : Fine(x, t)
    BY <1>4, <1>6, <1>7, <1>9, <2>1
  <2>3. QED
    BY <1>3, <1>9, <2>2, BecomeStep
<1>10. CASE ~(named /\ Target(Here, s)) /\ waiting # {} /\ Become(k)
  <2>1. u \in Sess
    BY <1>5, <1>10, FirstOfIn
  <2> HIDE DEF u
  <2>2. Keeps(x, k)
    BY <1>3, <2>1, HandleFailKeeps
  <2> HIDE DEF k
  <2>3. Standard => named
    BY <1>1 DEF Standard
  <2>4. Queues /\ Standard => \A t \in Sess : Fine(x, t)
    BY <1>4, <1>6, <1>7, <1>10, <2>3
  <2>5. /\ k \in Client /\ (srv.supp => k.wire = x.wire)
        /\ Queues /\ Standard => \A t \in Sess : Fine(k, t)
    BY <1>3, <2>2, <2>4 DEF Keeps
  <2>6. QED
    BY <1>3, <1>10, <2>5, BecomeStep
<1>11. QED
  BY <1>2, <1>8, <1>9, <1>10

LEMMA UnaskedStep ==
    ASSUME Typed, NEW s \in Sess, NEW b \in Batch, NEW ref \in {"ts", "msgid"},
           QuotedBatch(s, b, ref) \/ ReplayChild(s, b, ref)
    PROVE  Stepped
<1>1. /\ Here \in Client /\ Here.ses = ses /\ Here.srv = srv /\ Here.wire = wire
      /\ \A t \in Sess : wire[t] \in Nat
  BY HereClient DEF Typed
<1>1a. \A t \in Sess : Here.wire[t] = wire[t] /\ Here.wire[t] <= wire[t]
  BY <1>1
<1>2. CASE QuotedBatch(s, b, ref)
  <2>1. /\ Target(Here, s) /\ (b.big => ses[s].chunk = NoChunk)
        /\ Become(ProcessBatch(Here, s, b, FALSE, ref))
    BY <1>2 DEF QuotedBatch
  <2>2. QED
    BY <1>1, <1>1a, <2>1, BatchStep
<1>3. CASE ReplayChild(s, b, ref)
  <2>1. /\ Target(Here, s) /\ (b.big => ses[s].chunk = NoChunk)
        /\ Become(ProcessBatch(Here, s, b, TRUE, ref))
    BY <1>3 DEF ReplayChild
  <2>2. QED
    BY <1>1, <1>1a, <2>1, BatchStep
<1>4. QED
  BY <1>2, <1>3

\* The last chunk: the batch ends, and no longer stands for the answer.
Unchunked(y, s) == [y EXCEPT !.ses[s].chunk = NoChunk]

LEMMA ChunkDoneStep ==
    ASSUME Typed, NEW s \in Sess, ChunkDone(s)
    PROVE  /\ Stepped
           /\ ses[s].chunk.unsol /\ ses[s].act # NoReq =>
                ses'[s].act = ses[s].act /\ ses'[s].pend = ses[s].pend
<1> DEFINE ch == ses[s].chunk
           y == FinishBatch(Here, s, ch)
           r == [y.ses[s] EXCEPT !.chunk = NoChunk]
           w == Unchunked(y, s)
<1>1. /\ Here \in Client /\ Here.ses = ses /\ Here.srv = srv /\ Here.wire = wire
      /\ \A t \in Sess : Fine(Here, t) <=> Sound(ses[t], wire[t])
      /\ \A t \in Sess : wire[t] \in Nat /\ ses[t] \in SesRec
  BY HereClient DEF Typed
<1>2. ch \in Chunk /\ ch # NoChunk /\ ses[s].open
  BY <1>1, SesFields DEF ChunkDone
<1>3. Become(w)
  BY DEF ChunkDone, Unchunked
<1>4. Ended(Here, s, ch.unsol, y)
  BY <1>1, <1>2, FinishBatchKeeps
<1>5. /\ y \in Client /\ (srv.supp => y.wire = wire)
      /\ \A t \in Sess : Fine(Here, t) => Fine(y, t)
      /\ y.ses[s].chunk = ch
  BY <1>1, <1>4 DEF Ended, Keeps
<1>6. ch.unsol => Spares(Here, y)
  BY <1>4 DEF Ended, Steady
<1>7. ~ch.unsol => Strict(y, s)
  BY <1>4 DEF Ended
<1> HIDE DEF ch, y
<1>8. y.ses[s] \in SesRec
  BY <1>5, ClientFields
<1>9. /\ r \in SesRec /\ r.chunk = NoChunk /\ r.act = y.ses[s].act /\ r.pend = y.ses[s].pend
      /\ r.open = y.ses[s].open /\ r.joined = y.ses[s].joined
  BY <1>8 DEF SesRec
<1>10. w.ses = One(y, s, r)
  BY <1>5 DEF One, Client, Unchunked
<1>11. w.srv = y.srv /\ w.wire = y.wire /\ w = With(y, w.ses, y.srv)
  BY <1>5 DEF With, Client, Unchunked
<1> HIDE DEF r, w
<1>12. /\ w.ses \in [Sess -> SesRec]
       /\ \A t \in Sess : w.ses[t] = IF t = s THEN r ELSE y.ses[t]
  BY <1>5, <1>9, <1>10, ClientFields DEF One
<1>13. w \in Client
  BY <1>5, <1>11, <1>12 DEF With, Client
<1>14. Queues => Fine(w, s)
  <2>1. CASE ch.unsol
    BY <1>1, <1>5, <1>9, <1>11, <1>12, <2>1 DEF Queues, Fine, Sound, Solicited
  <2>2. CASE ~ch.unsol
    BY <1>7, <1>9, <1>11, <1>12, <2>2 DEF Fine, Sound, Strict, Firm
  <2>3. QED
    BY <2>1, <2>2
<1>15. Queues => \A t \in Sess : t # s => Fine(w, t)
  BY <1>1, <1>5, <1>11, <1>12 DEF Queues, Fine
<1>16. Stepped
  BY <1>1, <1>3, <1>5, <1>11, <1>13, <1>14, <1>15, BecomeStep
<1>17. ASSUME ch.unsol, ses[s].act # NoReq
       PROVE  ses'[s].act = ses[s].act /\ ses'[s].pend = ses[s].pend
  <2>1. ses' = w.ses
    BY <1>3 DEF Become
  <2>2. QED
    BY <1>1, <1>6, <1>9, <1>12, <1>17, <2>1 DEF Spares
<1>18. QED
  BY <1>16, <1>17 DEF ch

\* A channel that is left, and its queue with it.
Left(s) == [CancelCatchup(Here, s).ses[s] EXCEPT !.joined = FALSE]

LEMMA LeftSound ==
    ASSUME Typed, NEW s \in Sess
    PROVE  /\ Left(s) \in SesRec /\ \A n : Sound(Left(s), n)
           /\ \A t \in Sess : t # s => CancelCatchup(Here, s).ses[t] = ses[t]
           /\ CancelCatchup(Here, s).ses \in [Sess -> SesRec]
<1> DEFINE c == SetCat(Here, s, FALSE)
           q == QueueFree(c, s)
<1>1. Here \in Client /\ Here.ses = ses
  BY HereClient
<1>2. c \in Client
  BY <1>1, CatAside, SteadyAside
<1>3. \A t \in Sess : t # s => c.ses[t] = ses[t]
  <2>1. c.ses = One(Here, s, [ses[s] EXCEPT !.cat = FALSE])
    BY <1>1 DEF One, SetCat, Client
  <2>2. QED
    BY <1>1, <2>1 DEF One, Client
<1>4. CancelCatchup(Here, s) = q
  BY DEF CancelCatchup, SetCat
<1> HIDE DEF c
<1>5. /\ q \in Client /\ q.ses[s].act = NoReq /\ q.ses[s].pend = NoReq
      /\ \A t \in Sess : t # s => q.ses[t] = c.ses[t]
  BY <1>2, FreeKeeps DEF Keeps
<1> HIDE DEF q
<1>6. q.ses \in [Sess -> SesRec] /\ q.ses[s] \in SesRec
  BY <1>5, ClientFields
<1>7. Left(s) = [q.ses[s] EXCEPT !.joined = FALSE]
  BY <1>4 DEF Left
<1>8. Left(s) \in SesRec /\ Left(s).act = NoReq /\ Left(s).pend = NoReq
  BY <1>5, <1>6, <1>7 DEF SesRec
<1>9. \A n : Sound(Left(s), n)
  BY <1>8 DEF Sound
<1>10. QED
  BY <1>3, <1>4, <1>5, <1>6, <1>8, <1>9

LEMMA PartStep ==
    ASSUME Typed, NEW s \in Sess, Part(s)
    PROVE  Stepped
<1> DEFINE f == CancelCatchup(Here, s).ses
<1>1. /\ Left(s) \in SesRec /\ \A n : Sound(Left(s), n)
      /\ \A t \in Sess : t # s => f[t] = ses[t]
      /\ f \in [Sess -> SesRec]
  BY LeftSound
<1>2. ses' = [f EXCEPT ![s] = Left(s)] /\ UNCHANGED <<srv, wire, cur>>
  BY DEF Part, Left
<1> HIDE DEF f
<1>3. /\ ses' \in [Sess -> SesRec]
      /\ \A t \in Sess : ses'[t] = IF t = s THEN Left(s) ELSE ses[t]
  BY <1>1, <1>2
<1>4. Queues => Queues'
  BY <1>1, <1>2, <1>3 DEF Queues
<1>5. \A t \in Sess : wire[t] \in Nat
  BY DEF Typed
<1>6. QED
  BY <1>2, <1>3, <1>4, <1>5 DEF Typed, Stepped

LEMMA DisconnectStep ==
    ASSUME Typed, Disconnect
    PROVE  Stepped
<1>1. /\ ses' = [s \in Sess |-> IF s \in Channels THEN Left(s) ELSE ses[s]]
      /\ srv' = [Offline EXCEPT !.streak = srv.streak, !.supp = srv.supp]
      /\ wire' = [s \in Sess |-> 0] /\ cur' = cur /\ "drop" \in Features
  BY DEF Disconnect, Left
<1>2. \A s \in Sess : Left(s) \in SesRec /\ ses[s] \in SesRec /\ \A n : Sound(Left(s), n)
  BY LeftSound DEF Typed
<1>3. /\ ses' \in [Sess -> SesRec]
      /\ \A s \in Sess : ses'[s] = IF s \in Channels THEN Left(s) ELSE ses[s]
  BY <1>1, <1>2
<1>4. srv' \in SrvRec
  BY <1>1, OfflineType DEF Typed, SrvRec
<1>5. wire' \in [Sess -> Nat] /\ \A s \in Sess : wire'[s] <= wire[s]
  BY <1>1 DEF Typed
<1>6. Standard => Queues'
  <2> SUFFICES ASSUME Standard, NEW s \in Sess PROVE Sound(ses'[s], wire'[s])
    BY DEF Queues
  <2>1. s \in Channels
    BY <1>1 DEF Standard, Sess
  <2>2. QED
    BY <1>2, <1>3, <2>1
<1>7. QED
  BY <1>1, <1>3, <1>4, <1>5, <1>6 DEF Typed, Stepped

\* session_free.
Freed(x, s, a, c) ==
    [x EXCEPT !.ses[s].open = FALSE, !.ses[s].joined = FALSE, !.ses[s].cat = FALSE,
              !.ses[s].chunk = NoChunk, !.ses[s].act = a, !.cur = c]

LEMMA FreedSound ==
    ASSUME NEW x \in Client, NEW s \in Sess, NEW a \in Requests, NEW c \in Sess, NEW w,
           w = Freed(x, s, a, c), x.ses[s].pend = NoReq
    PROVE  /\ w \in Client /\ w.srv = x.srv /\ w.wire = x.wire /\ Fine(w, s)
           /\ \A t \in Sess : t # s => w.ses[t] = x.ses[t]
<1> DEFINE r == [x.ses[s] EXCEPT !.open = FALSE, !.joined = FALSE, !.cat = FALSE,
                                 !.chunk = NoChunk, !.act = a]
<1>1. x.ses[s] \in SesRec /\ x.ses \in [Sess -> SesRec]
  BY ClientFields
<1>2. r \in SesRec /\ r.open = FALSE /\ r.pend = NoReq
  BY <1>1 DEF SesRec
<1>3. w.ses = One(x, s, r)
  BY DEF One, Freed, Client
<1>4. w.srv = x.srv /\ w.wire = x.wire /\ w.cur = c
  BY DEF Freed, Client
<1>5. w = [x EXCEPT !.ses = w.ses, !.cur = c]
  BY ZenonT(30) DEF Freed, Client
<1> HIDE DEF r
<1>6. /\ w.ses \in [Sess -> SesRec]
      /\ \A t \in Sess : w.ses[t] = IF t = s THEN r ELSE x.ses[t]
  BY <1>1, <1>2, <1>3 DEF One
<1>7. w \in Client
  BY <1>5, <1>6 DEF Client
<1>8. Fine(w, s)
  BY <1>2, <1>6 DEF Fine, Sound
<1>9. QED
  BY <1>4, <1>6, <1>7, <1>8

LEMMA CloseStep ==
    ASSUME Typed, NEW s \in Sess, NEW junk \in BOOLEAN, Close(s, junk)
    PROVE  Stepped
<1> DEFINE q    == QueueFree(Here, s)
           x    == ReleaseLatestSlot(q, s)
           left == {t \in Sess \ {s} : ses[t].open}
           a    == IF junk THEN Req("before", "msgid", USER) ELSE NoReq
           c    == IF x.cur = s THEN FirstOf(left) ELSE x.cur
           w    == Freed(x, s, a, c)
<1>1. /\ Here \in Client /\ Here.srv = srv /\ Here.wire = wire
      /\ \A t \in Sess : Fine(Here, t) <=> Sound(ses[t], wire[t])
      /\ \A t \in Sess : wire[t] \in Nat
  BY HereClient DEF Typed
<1>2. Keeps(Here, q) /\ q.ses[s].pend = NoReq /\ q \in Client
  BY <1>1, FreeKeeps DEF Keeps
<1>3. left # {}
  BY DEF Close
<1>4. left \subseteq Sess
  OBVIOUS
<1>5. a \in Requests
  BY ReqType, NoRequest DEF Requests
<1>6. Become([x EXCEPT !.ses[s].open = FALSE, !.ses[s].joined = FALSE, !.ses[s].cat = FALSE,
                       !.ses[s].chunk = NoChunk, !.ses[s].act = a,
                       !.cur = IF @ = s THEN FirstOf(left) ELSE @])
  BY DEF Close
<1> HIDE DEF q, left, a
<1>7. Keeps(q, x) /\ x.ses[s].pend = NoReq /\ x \in Client
  <2> DEFINE g == GiveBackSlot(q)
  <2>1. x = q \/ x = g
    BY DEF ReleaseLatestSlot
  <2>2. Aside(q, g)
    BY <1>2, GiveBackAside
  <2> HIDE DEF g, x
  <2>3. CASE x = q
    BY <1>2, <2>3 DEF Keeps
  <2>4. CASE x = g
    BY <1>2, <2>2, <2>4, AsideKeeps DEF Aside
  <2>5. QED
    BY <2>1, <2>3, <2>4
<1> HIDE DEF x
<1>8. c \in Sess
  BY <1>3, <1>4, <1>7, ClientFields, FirstOfIn
<1>9. w = [x EXCEPT !.ses[s].open = FALSE, !.ses[s].joined = FALSE, !.ses[s].cat = FALSE,
                    !.ses[s].chunk = NoChunk, !.ses[s].act = a,
                    !.cur = IF @ = s THEN FirstOf(left) ELSE @]
  BY <1>7 DEF Freed, Client
<1>10. Become(w)
  BY <1>6, <1>9, Zenon
<1> HIDE DEF c
<1>11. /\ w \in Client /\ w.srv = x.srv /\ w.wire = x.wire /\ Fine(w, s)
       /\ \A t \in Sess : t # s => w.ses[t] = x.ses[t]
  BY <1>5, <1>7, <1>8, FreedSound
<1> HIDE DEF w
<1>12. (srv.supp => x.wire = wire) /\ \A t \in Sess : Fine(Here, t) => Fine(x, t)
  BY <1>1, <1>2, <1>7 DEF Keeps
<1>13. Queues => \A t \in Sess : Fine(w, t)
  BY <1>1, <1>11, <1>12 DEF Queues, Fine
<1>14. QED
  BY <1>1, <1>10, <1>11, <1>12, <1>13, BecomeStep

LEMMA NextStepped ==
    ASSUME Typed, [Next]_vars
    PROVE  Stepped
<1>1. CASE SystemStep
  BY <1>1, DeferredStartStep, BeforeTimerStep, WrapperEndStep, ChunkDoneStep, AnswerStep, FailStep
     DEF SystemStep, Answer
<1>2. CASE ServerStep
  BY <1>2, ConnectStep, EndOfMotdStep, JoinStep, DisconnectStep, TargetsReplyStep,
     WrapperBeginStep, UnaskedStep DEF ServerStep
<1>3. CASE UserStep
  BY <1>3, ScrollStep, TabSwitchStep, PartStep, CloseStep, UnaskedStep DEF UserStep
<1>4. CASE UNCHANGED vars
  <2>1. \A s \in Sess : wire[s] \in Nat
    BY DEF Typed
  <2>2. QED
    BY <1>4, <2>1 DEF vars, Typed, Stepped, Queues
<1>5. QED
  BY <1>1, <1>2, <1>3, <1>4 DEF Next

LEMMA InitTyped == Init => Typed /\ Queues
<1> SUFFICES ASSUME Init PROVE Typed /\ Queues
  OBVIOUS
<1>1. PICK old \in [Sess -> BOOLEAN] : ses = [s \in Sess |-> Fresh(s, old[s])]
  BY DEF Init
<1>2. ASSUME NEW s \in Sess, NEW o \in BOOLEAN
      PROVE  Fresh(s, o) \in SesRec /\ Fresh(s, o).act = NoReq /\ Fresh(s, o).pend = NoReq
  <2> DEFINE d == s \in Dialogs
             n == IF o THEN "msgid" ELSE "*"
  <2>1. d \in BOOLEAN /\ n \in {"*", "ts", "msgid"} /\ NoReq \in Requests
    BY NoRequest
  <2>2. Fresh(s, o) = [open |-> TRUE, joined |-> d, act |-> NoReq, pend |-> NoReq,
                       used |-> FALSE, exh |-> FALSE, cat |-> FALSE, bef |-> FALSE,
                       stale |-> 0, retr |-> 0, oldest |-> o, newest |-> n, chunk |-> NoChunk]
    BY DEF Fresh
  <2> HIDE DEF d, n
  <2>3. QED
    BY <1>2, <2>1, <2>2 DEF SesRec
<1>3. /\ ses \in [Sess -> SesRec]
      /\ \A s \in Sess : ses[s].act = NoReq /\ ses[s].pend = NoReq
  BY <1>1, <1>2
<1>4. Typed
  BY <1>3, OfflineType DEF Init, Typed
<1>5. QED
  BY <1>3, <1>4 DEF Queues, Sound

-----------------------------------------------------------------------------
\* The client and server records keep their types, whatever the features of the instance.
THEOREM Typing == Spec => []Typed
<1>1. Typed /\ [Next]_vars => Typed'
  BY NextStepped DEF Stepped
<1>2. QED
  BY <1>1, InitTyped, PTL DEF Spec

\* A session that waits is owed an answer or has one in chunks, and a request is queued only
\* behind another one: neither slot of chathistory.c's queue is ever left blocked, unless a
\* FAIL names no target or dialogs survive a disconnect.
THEOREM Accounting ==
    ASSUME "barefail" \notin Features, "drop" \in Features => Dialogs = {}
    PROVE  Spec => []QueueAccounted
<1>1. Standard
  BY DEF Standard
<1>2. Typed /\ Queues /\ [Next]_vars => Typed' /\ Queues'
  BY <1>1, NextStepped DEF Stepped
<1>3. Typed /\ Queues => QueueAccounted
  BY DEF Queues, Sound, Solicited, QueueAccounted, ActiveIsInFlight, PendingHasActive
<1>4. QED
  BY <1>2, <1>3, InitTyped, PTL DEF Spec

LEMMA ReplaySpares ==
    ASSUME Typed, NEW s \in Sess, ReplayStep(s), ses[s].act # NoReq
    PROVE  ses'[s].act = ses[s].act /\ ses'[s].pend = ses[s].pend
<1>1. CASE ses[s].chunk.unsol /\ ChunkDone(s)
  BY <1>1, ChunkDoneStep
<1>2. ASSUME NEW b \in Batch, NEW ref \in {"ts", "msgid"}, ReplayChild(s, b, ref)
      PROVE  ses'[s].act = ses[s].act /\ ses'[s].pend = ses[s].pend
  <2> DEFINE w == ProcessBatch(Here, s, b, TRUE, ref)
  <2>1. Here \in Client /\ Here.ses = ses
    BY HereClient
  <2>2. w = ProcessBatch(Here, s, b, TRUE, ref)
    OBVIOUS
  <2>3. ses' = w.ses
    BY <1>2 DEF ReplayChild, Become
  <2> HIDE DEF w
  <2>4. Spares(Here, w)
    BY <2>1, <2>2, ProcessBatchKeeps, ZenonT(40)
  <2>5. QED
    BY <2>1, <2>3, <2>4 DEF Spares
<1>3. QED
  BY <1>1, <1>2 DEF ReplayStep

\* A batch of a bouncer's replay ends no request of its session that waits for an answer and
\* sends none that is queued, neither when it arrives nor when its last chunk is done.
THEOREM Replays == Spec => ReplayLeavesQueue
<1>1. Typed => [\A s \in Sess :
                   /\ ses[s].act # NoReq
                   /\ ses'[s].act # ses[s].act \/ ses'[s].pend # ses[s].pend
                   => ~ReplayStep(s)]_vars
  BY ReplaySpares
<1>2. QED
  BY <1>1, Typing, PTL DEF ReplayLeavesQueue

-----------------------------------------------------------------------------
(***************************************************************************)
(* Slots and turns.  What the catch-up after a connection may assume: no   *)
(* requests for older history, no late joins, nobody leaves or closes a    *)
(* channel, and every batch answers a request.                             *)
(***************************************************************************)
Plain ==
    /\ Standard /\ ("targets" \in Features => Dialogs = {})
    /\ Features \cap {"older", "latejoin", "part", "close", "quote", "replay"} = {}

\* A session in the LATEST phase whose request is unanswered, and their number.
Waits(r) == r.cat /\ ~r.bef /\ r.act # NoReq
Waiters(x) == {t \in Sess : Waits(x.ses[t])}
Num(x) == Cardinality(Waiters(x))

\* A catch-up has the queue for itself, and gap fills have it otherwise.
Neat(r, con) ==
    /\ r.open
    /\ r.act # NoReq => con /\ r.joined
    /\ r.pend # NoReq => r.act # NoReq /\ ~r.cat /\ r.pend.type = "fill"
    /\ r.cat => con
    /\ r.cat /\ r.act # NoReq => r.act.type \in {"latest", "before"} /\ r.act.pri = CATCHUP
    /\ ~r.cat /\ r.act # NoReq => r.act.type = "fill"
    /\ r.act.type = "before" => r.bef
    /\ r.chunk # NoChunk => ~r.chunk.unsol /\ r.chunk.owned
\* A request in flight has one answer, on the wire or in chunks.
Lines(r, w, con) ==
    /\ w = IF r.act = NoReq \/ r.chunk # NoChunk THEN 0 ELSE 1
    /\ con /\ r.chunk # NoChunk => r.act # NoReq /\ (r.chunk.cat <=> r.cat)

\* The session s whose answer is being processed is exempt from Lines.
Shaped(x, s) ==
    \A t \in Sess : /\ Neat(x.ses[t], x.srv.con)
                    /\ t # s => Lines(x.ses[t], x.wire[t], x.srv.con)
\* Each waiter holds a slot, and k slots are still to be given back; once suppressed some
\* may be stranded.
Counted(x, k) ==
    /\ x.srv.con => x.srv.pending >= Num(x) + k
    /\ x.srv.con /\ ~x.srv.supp => x.srv.pending = Num(x) + k
    /\ ~x.srv.con => x.srv.pending = 0 /\ x.srv.before = Nobody
\* A request of the BEFORE phase belongs to the session in turn, when no slot is taken.
InTurn(x) ==
    \A t \in Sess : x.ses[t].cat /\ x.ses[t].bef /\ x.ses[t].act # NoReq =>
        x.srv.before = t /\ x.srv.pending = 0
\* The deferred start runs once on a connection, before any catch-up.
Phased(x) ==
    /\ x.srv.startT => x.srv.con /\ ~x.srv.settled
    /\ ~x.srv.settled => \A t \in Sess : ~x.ses[t].cat
    /\ x.srv.wrap = "no" /\ (x.srv.targets # "no" => "targets" \in Features)

\* The answer has been taken off the wire, and then been dealt with.
Ready(x, s) ==
    /\ Shaped(x, s) /\ Counted(x, 0) /\ InTurn(x) /\ Phased(x)
    /\ x.ses[s].act # NoReq /\ x.wire[s] = 0
Owes(x, s) == s # Nobody => x.wire[s] = IF x.ses[s].act = NoReq THEN 0 ELSE 1
Tidy(x, s, k) == Shaped(x, s) /\ Owes(x, s) /\ Counted(x, k) /\ InTurn(x) /\ Phased(x)
\* Between two steps no session is exempt.
Regular(x) == Tidy(x, Nobody, 0)
Who == Sess \cup {Nobody}

LEMMA SessFacts == Nobody \notin Sess /\ IsFiniteSet(Sess) /\ Sess \subseteq Nat
BY SchedulerAssumption DEF Sess, Nobody

LEMMA NumType ==
    ASSUME NEW x
    PROVE  Num(x) \in Nat /\ IsFiniteSet(Waiters(x)) /\ (Num(x) = 0 <=> Waiters(x) = {})
<1>1. Waiters(x) \subseteq Sess
  BY DEF Waiters
<1>2. IsFiniteSet(Waiters(x))
  BY <1>1, SessFacts, FS_Subset
<1>3. QED
  BY <1>2, FS_CardinalityType, FS_EmptySet DEF Num

\* Only session s, and what is on the wire for it, changes.
Only(x, y, s) ==
    /\ y \in Client
    /\ \A t \in Sess : t # s => y.ses[t] = x.ses[t] /\ y.wire[t] = x.wire[t]

LEMMA NumOne ==
    ASSUME NEW x, NEW y, NEW s \in Sess, Only(x, y, s)
    PROVE  /\ (Waits(y.ses[s]) <=> Waits(x.ses[s])) => Num(y) = Num(x)
           /\ Waits(x.ses[s]) /\ ~Waits(y.ses[s]) => Num(x) = Num(y) + 1
           /\ ~Waits(x.ses[s]) /\ Waits(y.ses[s]) => Num(y) = Num(x) + 1
<1>1. \A t \in Sess : t # s => (t \in Waiters(x) <=> t \in Waiters(y))
  BY DEF Only, Waiters
<1>2. Waiters(x) \subseteq Sess /\ Waiters(y) \subseteq Sess
      /\ (s \in Waiters(x) <=> Waits(x.ses[s])) /\ (s \in Waiters(y) <=> Waits(y.ses[s]))
  BY DEF Waiters
<1>3. IsFiniteSet(Waiters(x)) /\ IsFiniteSet(Waiters(y)) /\ Num(x) \in Nat /\ Num(y) \in Nat
  BY NumType
<1>4. ASSUME Waits(y.ses[s]) <=> Waits(x.ses[s]) PROVE Num(y) = Num(x)
  <2>1. Waiters(x) = Waiters(y)
    BY <1>1, <1>2, <1>4
  <2>2. QED
    BY <2>1 DEF Num
<1>5. ASSUME Waits(x.ses[s]), ~Waits(y.ses[s]) PROVE Num(x) = Num(y) + 1
  <2>1. Waiters(x) = Waiters(y) \cup {s} /\ s \notin Waiters(y)
    BY <1>1, <1>2, <1>5
  <2>2. QED
    BY <1>3, <2>1, FS_AddElement DEF Num
<1>6. ASSUME ~Waits(x.ses[s]), Waits(y.ses[s]) PROVE Num(y) = Num(x) + 1
  <2>1. Waiters(y) = Waiters(x) \cup {s} /\ s \notin Waiters(x)
    BY <1>1, <1>2, <1>6
  <2>2. QED
    BY <1>3, <2>1, FS_AddElement DEF Num
<1>7. QED
  BY <1>4, <1>5, <1>6

\* Session t changes; what remains to be shown is about t.
LEMMA ShapedOne ==
    ASSUME NEW x, NEW y, NEW s, NEW t \in Sess, Shaped(x, s), Only(x, y, t),
           y.srv.con = x.srv.con, Neat(y.ses[t], y.srv.con),
           t # s => Lines(y.ses[t], y.wire[t], y.srv.con)
    PROVE  Shaped(y, s)
BY DEF Shaped, Only

\* The flags of the server record that only its own handlers change.
Flags(v, u) ==
    /\ u.con = v.con /\ u.startT = v.startT /\ u.settled = v.settled /\ u.wrap = v.wrap
    /\ u.targets = v.targets /\ (v.supp => u.supp)

LEMMA PhasedOne ==
    ASSUME NEW x, NEW y, NEW t \in Sess, Phased(x), Only(x, y, t), Flags(x.srv, y.srv),
           y.ses[t].cat => x.ses[t].cat
    PROVE  Phased(y)
BY DEF Phased, Only, Flags

\* What says nothing about queues, slots or turns.
Like(r, q) ==
    /\ q.open = r.open /\ q.joined = r.joined /\ q.act = r.act /\ q.pend = r.pend
    /\ q.cat = r.cat /\ q.bef = r.bef /\ q.chunk = r.chunk
Alike(x, y) ==
    /\ y \in Client /\ y.wire = x.wire /\ \A t \in Sess : Like(x.ses[t], y.ses[t])
    /\ Flags(x.srv, y.srv) /\ y.srv.pending = x.srv.pending /\ y.srv.before = x.srv.before

LEMMA AlikeFacts ==
    ASSUME NEW x, NEW y, NEW s, NEW k \in {0, 1}, Alike(x, y)
    PROVE  /\ Shaped(x, s) => Shaped(y, s)
           /\ Counted(x, k) => Counted(y, k)
           /\ InTurn(x) => InTurn(y)
           /\ Phased(x) => Phased(y)
<1>1. Num(x) = Num(y)
  <2>1. Waiters(x) = Waiters(y)
    BY DEF Alike, Like, Waiters, Waits
  <2>2. QED
    BY <2>1 DEF Num
<1>2. Shaped(x, s) => Shaped(y, s)
  BY DEF Shaped, Alike, Like, Flags, Neat, Lines
<1>3. Counted(x, k) => Counted(y, k)
  BY <1>1, NumType DEF Counted, Alike, Flags
<1>4. InTurn(x) => InTurn(y)
  BY DEF InTurn, Alike, Like
<1>5. Phased(x) => Phased(y)
  BY DEF Phased, Alike, Like, Flags
<1>6. QED
  BY <1>2, <1>3, <1>4, <1>5

LEMMA AlikeTidy ==
    ASSUME NEW x, NEW y, NEW s \in Who, NEW k \in {0, 1}, Alike(x, y), Tidy(x, s, k)
    PROVE  Tidy(y, s, k)
BY AlikeFacts DEF Tidy, Alike, Like, Owes, Who

LEMMA AlikeReady ==
    ASSUME NEW x, NEW y, NEW s \in Sess, Alike(x, y), Ready(x, s)
    PROVE  Ready(y, s)
BY AlikeFacts DEF Ready, Alike, Like

\* Updates outside of what these predicates read.
LEMMA SessionAlike ==
    ASSUME NEW x \in Client, NEW s \in Sess, NEW y, NEW r \in SesRec,
           y = With(x, y.ses, y.srv), y.ses = One(x, s, r), y.srv = x.srv, Like(x.ses[s], r)
    PROVE  Alike(x, y) /\ Only(x, y, s) /\ y.ses[s] = r
<1>1. x.ses \in [Sess -> SesRec] /\ x.srv \in SrvRec
  BY ClientFields
<1>2. /\ y.ses \in [Sess -> SesRec]
      /\ \A t \in Sess : y.ses[t] = IF t = s THEN r ELSE x.ses[t]
  BY <1>1 DEF One
<1>3. y \in Client /\ y.wire = x.wire
  BY <1>1, <1>2 DEF Client, With
<1>4. QED
  BY <1>2, <1>3 DEF Alike, Like, Flags, Only

LEMMA ServerAlike ==
    ASSUME NEW x \in Client, NEW y, NEW v \in SrvRec, y = [x EXCEPT !.srv = v],
           Flags(x.srv, v), v.pending = x.srv.pending, v.before = x.srv.before
    PROVE  Alike(x, y) /\ y.ses = x.ses
<1>1. y.wire = x.wire /\ y.ses = x.ses /\ y.srv = v /\ y \in Client
  BY DEF Client
<1>2. QED
  BY <1>1 DEF Alike, Like

LEMMA ExhAlike ==
    ASSUME NEW x \in Client, NEW s \in Sess, NEW e \in BOOLEAN, NEW y, y = SetExh(x, s, e)
    PROVE  Alike(x, y)
<1> DEFINE r == [x.ses[s] EXCEPT !.exh = e]
<1>1. x.ses[s] \in SesRec
  BY ClientFields
<1>2. r \in SesRec /\ Like(x.ses[s], r)
  BY <1>1 DEF SesRec, Like
<1>3. y.ses = One(x, s, r)
  BY DEF One, SetExh, Client
<1>4. y.srv = x.srv /\ y = With(x, y.ses, y.srv)
  BY DEF With, SetExh, Client
<1> HIDE DEF r
<1>5. QED
  BY <1>2, <1>3, <1>4, SessionAlike

LEMMA MarksAlike ==
    ASSUME NEW x \in Client, NEW s \in Sess, NEW o \in BOOLEAN, NEW e \in BOOLEAN, NEW y,
           y = SetMarks(x, s, o, e)
    PROVE  Alike(x, y)
<1> DEFINE r == [x.ses[s] EXCEPT !.oldest = o, !.exh = e]
<1>1. x.ses[s] \in SesRec
  BY ClientFields
<1>2. r \in SesRec /\ Like(x.ses[s], r)
  BY <1>1 DEF SesRec, Like
<1>3. y.ses = One(x, s, r)
  BY DEF One, SetMarks, Client
<1>4. y.srv = x.srv /\ y = With(x, y.ses, y.srv)
  BY DEF With, SetMarks, Client
<1> HIDE DEF r
<1>5. QED
  BY <1>2, <1>3, <1>4, SessionAlike

LEMMA PagesAlike ==
    ASSUME NEW x \in Client, NEW s \in Sess, NEW m \in Nat, NEW n \in Nat, NEW y,
           y = SetPages(x, s, m, n)
    PROVE  Alike(x, y)
<1> DEFINE r == [x.ses[s] EXCEPT !.stale = m, !.retr = n]
<1>1. x.ses[s] \in SesRec
  BY ClientFields
<1>2. r \in SesRec /\ Like(x.ses[s], r)
  BY <1>1 DEF SesRec, Like
<1>3. y.ses = One(x, s, r)
  BY DEF One, SetPages, Client
<1>4. y.srv = x.srv /\ y = With(x, y.ses, y.srv)
  BY DEF With, SetPages, Client
<1> HIDE DEF r
<1>5. QED
  BY <1>2, <1>3, <1>4, SessionAlike

(***************************************************************************)
(* What each function does to the session it is about, and to the server.  *)
(***************************************************************************)
Dispatched(x, s, r, y) ==
    /\ Only(x, y, s) /\ y.srv = x.srv
    /\ \/ y = x /\ (~Target(x, s) \/ ~x.srv.con \/ x.srv.supp)
       \/ /\ x.srv.con /\ ~x.srv.supp /\ Target(x, s)
          /\ y.wire[s] = x.wire[s] + 1 /\ y.ses[s].act = r
          /\ y.ses[s].open = x.ses[s].open /\ y.ses[s].joined = x.ses[s].joined
          /\ y.ses[s].pend = x.ses[s].pend /\ y.ses[s].cat = x.ses[s].cat
          /\ y.ses[s].bef = x.ses[s].bef /\ y.ses[s].chunk = x.ses[s].chunk

LEMMA DispatchDoes ==
    ASSUME NEW x \in Client, NEW s \in Sess, NEW r \in Request, NEW y, y = DispatchNow(x, s, r)
    PROVE  Dispatched(x, s, r, y)
<1> DEFINE b == (r.ref = "msgid")
           q == [x.ses[s] EXCEPT !.act = r, !.used = b]
           n == x.wire[s] + 1
<1>1. x.ses[s] \in SesRec /\ x.wire[s] \in Nat /\ r \in Requests /\ b \in BOOLEAN /\ x.srv \in SrvRec
  BY ClientFields DEF Requests
<1>2. CASE ~Target(x, s) \/ ~x.srv.con \/ x.srv.supp
  <2>1. y = x
    BY <1>2 DEF DispatchNow
  <2>2. QED
    BY <1>2, <2>1 DEF Only, Dispatched
<1>3. CASE Target(x, s) /\ x.srv.con /\ ~x.srv.supp
  <2> HIDE DEF b
  <2>1. y = [x EXCEPT !.ses[s].act = r, !.ses[s].used = b, !.wire[s] = @ + 1]
    BY <1>3 DEF DispatchNow, b
  <2>2a. [x EXCEPT !.ses[s].act = r, !.ses[s].used = b, !.wire[s] = @ + 1] =
         [x EXCEPT !.ses = [x.ses EXCEPT ![s] = [x.ses[s] EXCEPT !.act = r, !.used = b]],
                   !.wire = [x.wire EXCEPT ![s] = x.wire[s] + 1], !.srv = x.srv]
    BY DEF Client
  <2>2. y = Rebuild(x, s, q, n, x.srv)
    BY <2>1, <2>2a, Zenon DEF Rebuild
  <2>3. /\ q \in SesRec /\ q.act = r /\ q.open = x.ses[s].open /\ q.joined = x.ses[s].joined
        /\ q.chunk = x.ses[s].chunk /\ q.pend = x.ses[s].pend /\ q.cat = x.ses[s].cat
        /\ q.bef = x.ses[s].bef
    BY <1>1 DEF SesRec
  <2>4. n \in Nat /\ n = x.wire[s] + 1
    BY <1>1
  <2> HIDE DEF q, n
  <2>5. /\ y \in Client /\ y.srv = x.srv /\ y.ses[s] = q /\ y.wire[s] = n
        /\ \A t \in Sess : t # s => y.ses[t] = x.ses[t] /\ y.wire[t] = x.wire[t]
    BY <1>1, <2>2, <2>3, <2>4, Rebuilt
  <2>6. QED
    BY <1>3, <2>3, <2>4, <2>5 DEF Only, Dispatched
<1>4. QED
  BY <1>2, <1>3

LEMMA FreeDoes ==
    ASSUME NEW x \in Client, NEW s \in Sess, NEW y, y = QueueFree(x, s)
    PROVE  /\ Only(x, y, s) /\ y.srv = x.srv /\ y.wire[s] = x.wire[s]
           /\ y.ses[s].act = NoReq /\ y.ses[s].pend = NoReq
           /\ y.ses[s].open = x.ses[s].open /\ y.ses[s].joined = x.ses[s].joined
           /\ y.ses[s].cat = x.ses[s].cat /\ y.ses[s].bef = x.ses[s].bef
           /\ y.ses[s].chunk = x.ses[s].chunk
<1> DEFINE q == [x.ses[s] EXCEPT !.act = NoReq, !.pend = NoReq]
           n == x.wire[s]
<1>1. x.ses[s] \in SesRec /\ n \in Nat /\ x.srv \in SrvRec
  BY ClientFields
<1>2. y = Rebuild(x, s, q, n, x.srv)
  BY DEF Client, QueueFree, Rebuild
<1>3. /\ q \in SesRec /\ q.act = NoReq /\ q.pend = NoReq /\ q.open = x.ses[s].open
      /\ q.joined = x.ses[s].joined /\ q.chunk = x.ses[s].chunk /\ q.cat = x.ses[s].cat
      /\ q.bef = x.ses[s].bef
  BY <1>1, NoRequest DEF SesRec
<1> HIDE DEF q
<1>4. /\ y \in Client /\ y.srv = x.srv /\ y.ses[s] = q /\ y.wire[s] = n
      /\ \A t \in Sess : t # s => y.ses[t] = x.ses[t] /\ y.wire[t] = x.wire[t]
  BY <1>1, <1>2, <1>3, Rebuilt
<1>5. QED
  BY <1>3, <1>4 DEF Only

\* The session changes in its phase alone, and the server in whose turn it is.
LEMMA FinishDoes ==
    ASSUME NEW x \in Client, NEW s \in Sess, NEW y, y = FinishCatchup(x, s)
    PROVE  /\ Only(x, y, s) /\ y.wire = x.wire
           /\ ~y.ses[s].cat /\ ~y.ses[s].bef
           /\ y.ses[s].open = x.ses[s].open /\ y.ses[s].joined = x.ses[s].joined
           /\ y.ses[s].act = x.ses[s].act /\ y.ses[s].pend = x.ses[s].pend
           /\ y.ses[s].chunk = x.ses[s].chunk
           /\ Flags(x.srv, y.srv) /\ y.srv.supp = x.srv.supp /\ y.srv.pending = x.srv.pending
           /\ y.srv.before = IF x.srv.before = s THEN Nobody ELSE x.srv.before
<1> DEFINE r == [x.ses[s] EXCEPT !.cat = FALSE, !.bef = FALSE, !.stale = 0, !.retr = 0]
           v == [x.srv EXCEPT !.before = IF @ = s THEN Nobody ELSE @]
<1>1. x.ses[s] \in SesRec /\ x.srv \in SrvRec /\ x.ses \in [Sess -> SesRec]
  BY ClientFields
<1>2. /\ r \in SesRec /\ r.open = x.ses[s].open /\ r.joined = x.ses[s].joined
      /\ r.act = x.ses[s].act /\ r.pend = x.ses[s].pend /\ r.chunk = x.ses[s].chunk
      /\ ~r.cat /\ ~r.bef
  BY <1>1 DEF SesRec
<1>3. /\ v \in SrvRec /\ v.supp = x.srv.supp /\ Flags(x.srv, v) /\ v.pending = x.srv.pending
      /\ v.before = IF x.srv.before = s THEN Nobody ELSE x.srv.before
  BY <1>1 DEF SrvRec, Flags
<1>4. y.ses = One(x, s, r)
  BY DEF One, FinishCatchup, Client
<1>5. y.srv = v
  BY DEF FinishCatchup, Client
<1>6. y = With(x, y.ses, y.srv)
  BY DEF With, FinishCatchup, Client
<1> HIDE DEF r, v
<1>7. /\ y.ses \in [Sess -> SesRec]
      /\ \A t \in Sess : y.ses[t] = IF t = s THEN r ELSE x.ses[t]
  BY <1>1, <1>2, <1>4 DEF One
<1>8. y \in Client /\ y.wire = x.wire
  BY <1>3, <1>5, <1>6, <1>7 DEF Client, With
<1>9. QED
  BY <1>2, <1>3, <1>5, <1>7, <1>8 DEF Only

Turned(x, s, y) ==
    /\ Only(x, y, s) /\ y.wire = x.wire /\ y.ses[s].bef
    /\ y.ses[s].open = x.ses[s].open /\ y.ses[s].joined = x.ses[s].joined
    /\ y.ses[s].act = x.ses[s].act /\ y.ses[s].pend = x.ses[s].pend
    /\ y.ses[s].chunk = x.ses[s].chunk /\ y.ses[s].cat = x.ses[s].cat
    /\ Flags(x.srv, y.srv) /\ y.srv.supp = x.srv.supp /\ y.srv.pending = x.srv.pending
    /\ y.srv.before = s

LEMMA TurnDoes ==
    ASSUME NEW x \in Client, NEW s \in Sess, NEW y, y = Turn(x, s)
    PROVE  Turned(x, s, y)
<1> DEFINE r == [x.ses[s] EXCEPT !.bef = TRUE]
           v == [x.srv EXCEPT !.before = s]
<1>1. x.ses[s] \in SesRec /\ x.srv \in SrvRec /\ x.ses \in [Sess -> SesRec]
  BY ClientFields
<1>2. /\ r \in SesRec /\ r.open = x.ses[s].open /\ r.joined = x.ses[s].joined
      /\ r.act = x.ses[s].act /\ r.pend = x.ses[s].pend /\ r.chunk = x.ses[s].chunk
      /\ r.cat = x.ses[s].cat /\ r.bef
  BY <1>1 DEF SesRec
<1>3. /\ v \in SrvRec /\ v.supp = x.srv.supp /\ Flags(x.srv, v) /\ v.pending = x.srv.pending
      /\ v.before = s
  BY <1>1 DEF SrvRec, Flags
<1>4. y.ses = One(x, s, r)
  BY DEF One, Turn, Client
<1>5. y.srv = v
  BY DEF Turn, Client
<1>6. y = With(x, y.ses, y.srv)
  BY DEF With, Turn, Client
<1> HIDE DEF r, v
<1>7. /\ y.ses \in [Sess -> SesRec]
      /\ \A t \in Sess : y.ses[t] = IF t = s THEN r ELSE x.ses[t]
  BY <1>1, <1>2, <1>4 DEF One
<1>8. y \in Client /\ y.wire = x.wire
  BY <1>3, <1>5, <1>6, <1>7 DEF Client, With
<1>9. QED
  BY <1>2, <1>3, <1>5, <1>7, <1>8 DEF Only, Turned

\* Functions that change the server record alone.
LEMMA ServerDoes ==
    ASSUME NEW x \in Client, NEW y, NEW v \in SrvRec, y = [x EXCEPT !.srv = v]
    PROVE  y \in Client /\ y.srv = v /\ y.ses = x.ses /\ y.wire = x.wire /\ y.cur = x.cur
BY DEF Client

LEMMA GiveBackDoes ==
    ASSUME NEW x \in Client, NEW y, y = GiveBackSlot(x)
    PROVE  /\ y \in Client /\ y.ses = x.ses /\ y.wire = x.wire
           /\ Flags(x.srv, y.srv) /\ y.srv.supp = x.srv.supp /\ y.srv.before = x.srv.before
           /\ y.srv.pending = IF x.srv.pending > 0 THEN x.srv.pending - 1 ELSE 0
<1> DEFINE v == [x.srv EXCEPT !.pending = IF @ > 0 THEN @ - 1 ELSE 0]
<1>1. x.srv \in SrvRec
  BY ClientFields
<1>2. /\ v \in SrvRec /\ v.supp = x.srv.supp /\ Flags(x.srv, v) /\ v.before = x.srv.before
      /\ v.pending = IF x.srv.pending > 0 THEN x.srv.pending - 1 ELSE 0
  BY <1>1 DEF SrvRec, Flags
<1>3. y = [x EXCEPT !.srv = v]
  BY DEF GiveBackSlot, Client
<1> HIDE DEF v
<1>4. QED
  BY <1>2, <1>3, ServerDoes

Unturned(x) == [x EXCEPT !.srv.before = Nobody]
LEMMA UnturnedDoes ==
    ASSUME NEW x \in Client, NEW y, y = Unturned(x) \/ y = NextHop(x)
    PROVE  /\ y \in Client /\ y.ses = x.ses /\ y.wire = x.wire
           /\ Flags(x.srv, y.srv) /\ y.srv.supp = x.srv.supp /\ y.srv.pending = x.srv.pending
           /\ y.srv.before = Nobody
<1> DEFINE v == [x.srv EXCEPT !.before = Nobody]
           u == [x.srv EXCEPT !.before = Nobody, !.beforeT = TRUE]
<1>1. x.srv \in SrvRec
  BY ClientFields
<1>2. /\ v \in SrvRec /\ v.supp = x.srv.supp /\ Flags(x.srv, v) /\ v.pending = x.srv.pending
      /\ v.before = Nobody
  BY <1>1 DEF SrvRec, Flags
<1>3. /\ u \in SrvRec /\ u.supp = x.srv.supp /\ Flags(x.srv, u) /\ u.pending = x.srv.pending
      /\ u.before = Nobody
  BY <1>1 DEF SrvRec, Flags
<1>4. y = [x EXCEPT !.srv = v] \/ y = [x EXCEPT !.srv = u]
  BY DEF Unturned, NextHop, Client
<1> HIDE DEF v, u
<1>5. QED
  BY <1>2, <1>3, <1>4, ServerDoes

(***************************************************************************)
(* What each function does to slots and turns.                             *)
(***************************************************************************)
LEMMA CompleteDoes ==
    ASSUME NEW x \in Client, NEW s \in Sess, NEW y, y = RequestComplete(x, s)
    PROVE  /\ Only(x, y, s) /\ y.srv = x.srv /\ y.ses[s].pend = NoReq
           /\ y.ses[s].open = x.ses[s].open /\ y.ses[s].joined = x.ses[s].joined
           /\ y.ses[s].cat = x.ses[s].cat /\ y.ses[s].bef = x.ses[s].bef
           /\ y.ses[s].chunk = x.ses[s].chunk
           /\ \/ y.ses[s].act = NoReq /\ y.wire[s] = x.wire[s]
              \/ /\ x.ses[s].pend # NoReq /\ y.ses[s].act = x.ses[s].pend
                 /\ y.wire[s] = x.wire[s] + 1 /\ x.srv.con
<1> DEFINE p == x.ses[s].pend
           z == QueueFree(x, s)
<1>1. p \in Requests
  BY ClientFields, SesFields
<1>2. y = IF p = NoReq THEN z ELSE DispatchNow(z, s, p)
  BY DEF RequestComplete, QueueFree
<1>3. /\ Only(x, z, s) /\ z.srv = x.srv /\ z.wire[s] = x.wire[s]
      /\ z.ses[s].act = NoReq /\ z.ses[s].pend = NoReq
      /\ z.ses[s].open = x.ses[s].open /\ z.ses[s].joined = x.ses[s].joined
      /\ z.ses[s].cat = x.ses[s].cat /\ z.ses[s].bef = x.ses[s].bef
      /\ z.ses[s].chunk = x.ses[s].chunk /\ z \in Client
  BY FreeDoes DEF Only
<1> HIDE DEF z
<1>4. CASE p = NoReq
  BY <1>2, <1>3, <1>4
<1>5. CASE p # NoReq
  <2>1. p \in Request /\ y = DispatchNow(z, s, p)
    BY <1>1, <1>2, <1>5 DEF Requests
  <2> HIDE DEF p
  <2>2. /\ Only(z, y, s) /\ y.srv = z.srv
        /\ \/ y = z
           \/ /\ z.srv.con
              /\ y.wire[s] = z.wire[s] + 1 /\ y.ses[s].act = p
              /\ y.ses[s].open = z.ses[s].open /\ y.ses[s].joined = z.ses[s].joined
              /\ y.ses[s].pend = z.ses[s].pend /\ y.ses[s].cat = z.ses[s].cat
              /\ y.ses[s].bef = z.ses[s].bef /\ y.ses[s].chunk = z.ses[s].chunk
    BY <1>3, <2>1, DispatchDoes DEF Dispatched
  <2>3. Only(x, y, s)
    BY <1>3, <2>2 DEF Only
  <2>4. CASE y = z
    BY <1>3, <2>3, <2>4
  <2>5. CASE y # z
    BY <1>3, <1>5, <2>2, <2>3, <2>5 DEF p
  <2>6. QED
    BY <2>4, <2>5
<1>6. QED
  BY <1>4, <1>5

\* The slot of a waiter is still to be given back when its request is retired.
Slot(x, s) == IF Waits(x.ses[s]) THEN 1 ELSE 0

Completed(x, s, y) ==
    /\ y \in Client /\ Tidy(y, s, Slot(x, s)) /\ y.srv = x.srv /\ y.ses[s].pend = NoReq
    /\ x.ses[s].cat => y.ses[s].act = NoReq
    /\ y.ses[s].open /\ y.ses[s].joined
    /\ y.ses[s].cat = x.ses[s].cat /\ y.ses[s].bef = x.ses[s].bef

LEMMA CompleteTidy ==
    ASSUME NEW x \in Client, NEW s \in Sess, Ready(x, s), NEW y, y = RequestComplete(x, s)
    PROVE  Completed(x, s, y)
<1>1. /\ Only(x, y, s) /\ y.srv = x.srv /\ y.ses[s].pend = NoReq
      /\ y.ses[s].open = x.ses[s].open /\ y.ses[s].joined = x.ses[s].joined
      /\ y.ses[s].cat = x.ses[s].cat /\ y.ses[s].bef = x.ses[s].bef
      /\ y.ses[s].chunk = x.ses[s].chunk
      /\ \/ y.ses[s].act = NoReq /\ y.wire[s] = x.wire[s]
         \/ /\ x.ses[s].pend # NoReq /\ y.ses[s].act = x.ses[s].pend
            /\ y.wire[s] = x.wire[s] + 1 /\ x.srv.con
  BY CompleteDoes
<1>2. Neat(x.ses[s], x.srv.con) /\ x.ses[s].act # NoReq /\ x.wire[s] = 0
  BY DEF Ready, Shaped
<1>3. x.ses[s].cat => y.ses[s].act = NoReq
  BY <1>1, <1>2 DEF Neat
<1>4. Neat(y.ses[s], y.srv.con)
  BY <1>1, <1>2, NoRequest DEF Neat
<1>5. Shaped(y, s)
  BY <1>1, <1>4, ShapedOne DEF Ready
<1>6. Owes(y, s)
  BY <1>1, <1>2 DEF Owes
<1>7. Counted(y, Slot(x, s))
  <2>1. ~Waits(y.ses[s])
    BY <1>1, <1>3 DEF Waits
  <2>2. Num(x) = Num(y) + Slot(x, s)
    BY <1>1, <2>1, NumOne, NumType DEF Slot
  <2>3. Num(x) \in Nat /\ Num(y) \in Nat
    BY NumType
  <2>4. QED
    BY <1>1, <2>2, <2>3 DEF Counted, Ready
<1>8. InTurn(y)
  BY <1>1, <1>3 DEF InTurn, Ready, Only
<1>9. Phased(y)
  <2>1. Flags(x.srv, y.srv)
    BY <1>1 DEF Flags
  <2>2. QED
    BY <1>1, <2>1, PhasedOne DEF Ready
<1>10. y \in Client /\ x.ses[s].open /\ x.ses[s].joined
  BY <1>1, <1>2 DEF Only, Neat
<1>11. QED
  BY <1>1, <1>3, <1>5, <1>6, <1>7, <1>8, <1>9, <1>10 DEF Tidy, Completed

\* A session between two requests of its catch-up.
Rests(x, s) ==
    /\ x.ses[s].act = NoReq /\ x.ses[s].pend = NoReq /\ x.ses[s].open /\ x.ses[s].joined

\* The retry on a timestamp goes on with the slot, or with the turn, of the first request.
LEMMA RetryTidy ==
    ASSUME NEW x \in Client, NEW s \in Sess, NEW k \in {0, 1}, Tidy(x, s, k), Rests(x, s),
           x.ses[s].cat, k = IF x.ses[s].bef THEN 0 ELSE 1,
           x.ses[s].bef => x.srv.before = s /\ x.srv.pending = 0,
           NEW y, y = RequestLatest(x, s, "ts")
    PROVE  y \in Client /\ Tidy(y, s, 0) /\ y.ses[s].chunk = x.ses[s].chunk
<1> DEFINE r == Req("latest", "ts", CATCHUP)
<1>1. Neat(x.ses[s], x.srv.con) /\ x.srv.con
  BY DEF Tidy, Shaped, Neat
<1>2. r \in Request /\ r.type = "latest" /\ r.pri = CATCHUP /\ r # NoReq
  BY ReqType, NoRequest DEF Req, CATCHUP
<1>3. y = DispatchNow(x, s, r)
  BY <1>1 DEF RequestLatest, InferPriority, Submit, IsDup, Rests
<1> HIDE DEF r
<1>4. /\ Only(x, y, s) /\ y.srv = x.srv
      /\ \/ y = x /\ x.srv.supp
         \/ /\ y.wire[s] = x.wire[s] + 1 /\ y.ses[s].act = r
            /\ y.ses[s].open = x.ses[s].open /\ y.ses[s].joined = x.ses[s].joined
            /\ y.ses[s].pend = x.ses[s].pend /\ y.ses[s].cat = x.ses[s].cat
            /\ y.ses[s].bef = x.ses[s].bef /\ y.ses[s].chunk = x.ses[s].chunk
  <2>1. Target(x, s)
    BY DEF Target, Rests
  <2>2. Dispatched(x, s, r, y)
    BY <1>2, <1>3, DispatchDoes
  <2>3. QED
    BY <1>1, <2>1, <2>2, Zenon DEF Dispatched
<1>5. CASE y = x /\ x.srv.supp
  <2>1. Counted(y, 0)
    BY <1>5, NumType, ClientFields DEF Counted, Tidy
  <2>2. QED
    BY <1>5, <2>1 DEF Tidy
<1>6. CASE /\ y.wire[s] = x.wire[s] + 1 /\ y.ses[s].act = r
           /\ y.ses[s].open = x.ses[s].open /\ y.ses[s].joined = x.ses[s].joined
           /\ y.ses[s].pend = x.ses[s].pend /\ y.ses[s].cat = x.ses[s].cat
           /\ y.ses[s].bef = x.ses[s].bef /\ y.ses[s].chunk = x.ses[s].chunk
  <2>1. Neat(y.ses[s], y.srv.con)
    BY <1>1, <1>2, <1>4, <1>6 DEF Neat, Rests
  <2>2. Shaped(y, s)
    BY <1>4, <2>1, ShapedOne DEF Tidy
  <2>3. Owes(y, s)
    BY <1>2, <1>6, SessFacts DEF Owes, Tidy, Rests
  <2>4. Num(y) = Num(x) + k
    <3>1. Waits(y.ses[s]) <=> ~x.ses[s].bef
      BY <1>2, <1>6 DEF Waits
    <3>2. ~Waits(x.ses[s])
      BY DEF Waits, Rests
    <3>3. QED
      BY <1>4, <3>1, <3>2, NumOne, NumType
  <2>5. Counted(y, 0)
    BY <1>4, <2>4, NumType DEF Counted, Tidy
  <2>6. InTurn(y)
    BY <1>4, <1>6 DEF InTurn, Tidy, Only
  <2>7. Phased(y)
    <3>1. Flags(x.srv, y.srv)
      BY <1>4 DEF Flags
    <3>2. QED
      BY <1>4, <1>6, <3>1, PhasedOne DEF Tidy
  <2>8. QED
    BY <1>4, <1>6, <2>2, <2>3, <2>5, <2>6, <2>7 DEF Tidy, Only
<1>7. QED
  BY <1>4, <1>5, <1>6

LEMMA FinishTidy ==
    ASSUME NEW x \in Client, NEW u \in Who, NEW s \in Sess, NEW k \in {0, 1}, Tidy(x, u, k),
           x.ses[s].act = NoReq, NEW y, y = FinishCatchup(x, s)
    PROVE  /\ y \in Client /\ Tidy(y, u, k) /\ y.srv.pending = x.srv.pending
           /\ y.ses[s].act = NoReq /\ \A t \in Sess : y.ses[t].chunk = x.ses[t].chunk
<1>1. /\ Only(x, y, s) /\ y.wire = x.wire
      /\ ~y.ses[s].cat /\ ~y.ses[s].bef
      /\ y.ses[s].open = x.ses[s].open /\ y.ses[s].joined = x.ses[s].joined
      /\ y.ses[s].act = x.ses[s].act /\ y.ses[s].pend = x.ses[s].pend
      /\ y.ses[s].chunk = x.ses[s].chunk
      /\ Flags(x.srv, y.srv) /\ y.srv.supp = x.srv.supp /\ y.srv.pending = x.srv.pending
      /\ y.srv.before = IF x.srv.before = s THEN Nobody ELSE x.srv.before
  BY FinishDoes
<1>2. /\ Neat(x.ses[s], x.srv.con) /\ (s # u => Lines(x.ses[s], x.wire[s], x.srv.con))
      /\ y.srv.con = x.srv.con
  BY <1>1 DEF Tidy, Shaped, Flags
<1>3. Neat(y.ses[s], y.srv.con)
  BY <1>1, <1>2, NoRequest DEF Neat
<1>4. s # u => Lines(y.ses[s], y.wire[s], y.srv.con)
  BY <1>1, <1>2 DEF Lines
<1>5. Shaped(y, u)
  BY <1>1, <1>2, <1>3, <1>4, ShapedOne DEF Tidy
<1>6. Owes(y, u)
  BY <1>1 DEF Owes, Tidy, Only, Who
<1>7. Num(y) = Num(x)
  <2>1. ~Waits(x.ses[s]) /\ ~Waits(y.ses[s])
    BY <1>1 DEF Waits
  <2>2. QED
    BY <1>1, <2>1, NumOne
<1>8. Counted(y, k)
  BY <1>1, <1>2, <1>7 DEF Counted, Tidy
<1>9. InTurn(y)
  BY <1>1 DEF InTurn, Tidy, Only
<1>10. Phased(y)
  BY <1>1, PhasedOne DEF Tidy
<1>11. QED
  BY <1>1, <1>5, <1>6, <1>8, <1>9, <1>10 DEF Tidy, Only

LEMMA GiveTidy ==
    ASSUME NEW x \in Client, NEW s \in Sess, NEW k \in {0, 1}, Tidy(x, s, k),
           k = 1 \/ x.srv.pending = 0, NEW y, y = GiveBackSlot(x)
    PROVE  y \in Client /\ Tidy(y, s, 0) /\ y.ses = x.ses
<1>1. /\ y \in Client /\ y.ses = x.ses /\ y.wire = x.wire
      /\ Flags(x.srv, y.srv) /\ y.srv.supp = x.srv.supp /\ y.srv.before = x.srv.before
      /\ y.srv.pending = IF x.srv.pending > 0 THEN x.srv.pending - 1 ELSE 0
      /\ y.srv.con = x.srv.con
  BY GiveBackDoes DEF Flags
<1>2. Num(y) = Num(x) /\ Num(x) \in Nat /\ x.srv.pending \in Nat
  BY <1>1, NumType, ClientFields DEF Num, Waiters
<1>3. Counted(y, 0)
  BY <1>1, <1>2 DEF Counted, Tidy
<1>4. Shaped(y, s) /\ Owes(y, s)
  BY <1>1 DEF Shaped, Owes, Tidy
<1>5. InTurn(y)
  BY <1>1 DEF InTurn, Tidy
<1>6. Phased(y)
  BY <1>1 DEF Phased, Tidy, Flags
<1>7. QED
  BY <1>1, <1>3, <1>4, <1>5, <1>6 DEF Tidy

\* Nobody is in turn any more, when whoever was has no request in flight.
LEMMA UnturnedTidy ==
    ASSUME NEW x \in Client, NEW s \in Who, NEW k \in {0, 1}, Tidy(x, s, k),
           x.srv.before # Nobody => x.ses[x.srv.before].act = NoReq,
           NEW y, y = Unturned(x) \/ y = NextHop(x)
    PROVE  y \in Client /\ Tidy(y, s, k) /\ y.ses = x.ses
<1>1. /\ y \in Client /\ y.ses = x.ses /\ y.wire = x.wire
      /\ Flags(x.srv, y.srv) /\ y.srv.supp = x.srv.supp /\ y.srv.pending = x.srv.pending
      /\ y.srv.before = Nobody /\ y.srv.con = x.srv.con
  BY UnturnedDoes DEF Flags
<1>2. Num(y) = Num(x)
  BY <1>1 DEF Num, Waiters
<1>3. Counted(y, k)
  BY <1>1, <1>2 DEF Counted, Tidy
<1>4. Shaped(y, s) /\ Owes(y, s)
  BY <1>1 DEF Shaped, Owes, Tidy
<1>5. InTurn(y)
  BY <1>1, SessFacts DEF InTurn, Tidy
<1>6. Phased(y)
  BY <1>1 DEF Phased, Tidy, Flags
<1>7. QED
  BY <1>1, <1>3, <1>4, <1>5, <1>6 DEF Tidy

\* The next session in turn: nobody else had a request in flight that needs the turn.
LEMMA TurnTidy ==
    ASSUME NEW x \in Client, NEW u \in Who, NEW t \in Sess, Tidy(x, u, 0),
           x.srv.before # Nobody => x.ses[x.srv.before].act = NoReq,
           x.srv.con, x.ses[t].act = NoReq, x.ses[t].cat, NEW y, y = Turn(x, t)
    PROVE  /\ y \in Client /\ Tidy(y, u, 0) /\ y.ses[t].act = NoReq /\ y.ses[t].bef
           /\ y.ses[t].cat /\ y.srv.before = t /\ y.srv.pending = x.srv.pending /\ y.srv.con
           /\ \A s \in Sess : y.ses[s].chunk = x.ses[s].chunk
<1>1. /\ Only(x, y, t) /\ y.wire = x.wire /\ y.ses[t].bef
      /\ y.ses[t].open = x.ses[t].open /\ y.ses[t].joined = x.ses[t].joined
      /\ y.ses[t].act = x.ses[t].act /\ y.ses[t].pend = x.ses[t].pend
      /\ y.ses[t].chunk = x.ses[t].chunk /\ y.ses[t].cat = x.ses[t].cat
      /\ Flags(x.srv, y.srv) /\ y.srv.supp = x.srv.supp /\ y.srv.pending = x.srv.pending
      /\ y.srv.before = t
  <2>1. Turned(x, t, y)
    BY TurnDoes
  <2>2. QED
    BY <2>1, Zenon DEF Turned
<1>2. /\ Neat(x.ses[t], x.srv.con) /\ (t # u => Lines(x.ses[t], x.wire[t], x.srv.con))
      /\ y.srv.con = x.srv.con
  BY <1>1 DEF Tidy, Shaped, Flags
<1>3. Neat(y.ses[t], y.srv.con)
  BY <1>1, <1>2 DEF Neat
<1>4. t # u => Lines(y.ses[t], y.wire[t], y.srv.con)
  BY <1>1, <1>2 DEF Lines
<1>5. Shaped(y, u)
  BY <1>1, <1>2, <1>3, <1>4, ShapedOne DEF Tidy
<1>6. Owes(y, u)
  BY <1>1 DEF Owes, Tidy, Only, Who
<1>7. Num(y) = Num(x)
  <2>1. ~Waits(x.ses[t]) /\ ~Waits(y.ses[t])
    BY <1>1 DEF Waits
  <2>2. QED
    BY <1>1, <2>1, NumOne
<1>8. Counted(y, 0)
  BY <1>1, <1>2, <1>7 DEF Counted, Tidy
<1>9. InTurn(y)
  <2> SUFFICES ASSUME NEW s \in Sess, y.ses[s].cat, y.ses[s].bef, y.ses[s].act # NoReq
               PROVE  FALSE
    BY DEF InTurn
  <2>1. s # t /\ x.ses[s] = y.ses[s]
    BY <1>1 DEF Only
  <2>2. x.srv.before = s
    BY <2>1 DEF InTurn, Tidy
  <2>3. QED
    BY <2>1, <2>2, SessFacts
<1>10. Phased(y)
  BY <1>1, PhasedOne DEF Tidy
<1>11. QED
  BY <1>1, <1>2, <1>5, <1>6, <1>8, <1>9, <1>10 DEF Tidy, Only

\* The BEFORE of the session in turn, when no slot is taken.
LEMMA BeforeTidy ==
    ASSUME NEW x \in Client, NEW u \in Who, NEW t \in Sess, Tidy(x, u, 0),
           x.srv.con, x.srv.before = t, x.srv.pending = 0, x.ses[t].cat, x.ses[t].bef,
           x.ses[t].act = NoReq, NEW y, y = RequestBefore(x, t)
    PROVE  y \in Client /\ Tidy(y, u, 0) /\ \A s \in Sess : y.ses[s].chunk = x.ses[s].chunk
<1> DEFINE r == Req("before", "msgid", CATCHUP)
<1>1. /\ Neat(x.ses[t], x.srv.con) /\ (t # u => Lines(x.ses[t], x.wire[t], x.srv.con))
      /\ x.ses[t].pend = NoReq /\ x.ses[t].open
  BY DEF Tidy, Shaped, Neat
<1>2. r \in Request /\ r.type = "before" /\ r.pri = CATCHUP /\ r # NoReq
  BY ReqType, NoRequest DEF Req, CATCHUP
<1>3. y = DispatchNow(x, t, r)
  BY <1>1 DEF RequestBefore, InferPriority, Submit, IsDup
<1> HIDE DEF r
<1>4. /\ Only(x, y, t) /\ y.srv = x.srv
      /\ \/ y = x
         \/ /\ Target(x, t)
            /\ y.wire[t] = x.wire[t] + 1 /\ y.ses[t].act = r
            /\ y.ses[t].open = x.ses[t].open /\ y.ses[t].joined = x.ses[t].joined
            /\ y.ses[t].pend = x.ses[t].pend /\ y.ses[t].cat = x.ses[t].cat
            /\ y.ses[t].bef = x.ses[t].bef /\ y.ses[t].chunk = x.ses[t].chunk
  <2>1. Dispatched(x, t, r, y)
    BY <1>2, <1>3, DispatchDoes
  <2>2. QED
    BY <2>1, Zenon DEF Dispatched
<1>5. CASE y = x
  BY <1>5
<1>6. CASE y # x
  <2>1. /\ y.wire[t] = x.wire[t] + 1 /\ y.ses[t].act = r /\ x.ses[t].joined
        /\ y.ses[t].open = x.ses[t].open /\ y.ses[t].joined = x.ses[t].joined
        /\ y.ses[t].pend = x.ses[t].pend /\ y.ses[t].cat = x.ses[t].cat
        /\ y.ses[t].bef = x.ses[t].bef /\ y.ses[t].chunk = x.ses[t].chunk
    BY <1>4, <1>6 DEF Target
  <2>2. Neat(y.ses[t], y.srv.con)
    BY <1>1, <1>2, <1>4, <2>1 DEF Neat
  <2>3. t # u => Lines(y.ses[t], y.wire[t], y.srv.con)
    BY <1>1, <1>2, <1>4, <2>1 DEF Lines
  <2>4. Shaped(y, u)
    BY <1>4, <2>2, <2>3, ShapedOne DEF Tidy
  <2>5. Owes(y, u)
    <3>1. CASE u = t
      BY <1>2, <2>1, <3>1 DEF Owes, Tidy
    <3>2. CASE u # t
      BY <1>4, <3>2 DEF Owes, Tidy, Only, Who
    <3>3. QED
      BY <3>1, <3>2
  <2>6. Num(y) = Num(x)
    <3>1. ~Waits(x.ses[t]) /\ ~Waits(y.ses[t])
      BY <2>1 DEF Waits
    <3>2. QED
      BY <1>4, <3>1, NumOne
  <2>7. Counted(y, 0)
    BY <1>4, <2>6 DEF Counted, Tidy
  <2>8. InTurn(y)
    BY <1>4 DEF InTurn, Tidy, Only
  <2>9. Phased(y)
    <3>1. Flags(x.srv, y.srv)
      BY <1>4 DEF Flags
    <3>2. QED
      BY <1>4, <2>1, <3>1, PhasedOne DEF Tidy
  <2>10. QED
    BY <1>4, <2>1, <2>4, <2>5, <2>7, <2>8, <2>9 DEF Tidy, Only
<1>7. QED
  BY <1>5, <1>6

\* chathistory_check_before_catchup.
LEMMA CheckTidy ==
    ASSUME NEW x \in Client, NEW u \in Who, Tidy(x, u, 0), NEW z, z = CheckBefore(x)
    PROVE  z \in Client /\ Tidy(z, u, 0) /\ \A s \in Sess : z.ses[s].chunk = x.ses[s].chunk
<1> DEFINE need == NeedsBefore(x)
           t    == IF x.cur \in need THEN x.cur ELSE FirstOf(need)
           y    == Turn(x, t)
           f    == FinishCatchup(y, t)
           g    == Unturned(f)
           h    == Unturned(x)
<1>1. \/ z = x
      \/ ~BeforeBlocked(x) /\ z = h
      \/ ~BeforeBlocked(x) /\ need # {} /\ (z = RequestBefore(y, t) \/ z = g)
  BY DEF CheckBefore, Turn, Unturned
<1>2. ASSUME ~BeforeBlocked(x)
      PROVE  /\ x.srv.con /\ x.srv.pending = 0
             /\ x.srv.before # Nobody => x.ses[x.srv.before].act = NoReq
  BY <1>2, ClientFields DEF BeforeBlocked, Loading
<1>3. CASE z = x
  BY <1>3
<1>4. CASE ~BeforeBlocked(x) /\ z = h
  BY <1>2, <1>4, UnturnedTidy
<1>5. CASE ~BeforeBlocked(x) /\ need # {} /\ (z = RequestBefore(y, t) \/ z = g)
  <2>1. need \subseteq Sess /\ \A s \in need : x.ses[s].act = NoReq /\ x.ses[s].cat
    BY DEF NeedsBefore, Loading
  <2> HIDE DEF need
  <2>2. t \in Sess /\ x.ses[t].act = NoReq /\ x.ses[t].cat
    BY <1>5, <2>1, FirstOfIn
  <2> HIDE DEF t
  <2>3. /\ y \in Client /\ Tidy(y, u, 0) /\ y.ses[t].act = NoReq /\ y.ses[t].bef
        /\ y.ses[t].cat /\ y.srv.before = t /\ y.srv.pending = x.srv.pending /\ y.srv.con
        /\ \A s \in Sess : y.ses[s].chunk = x.ses[s].chunk
    <3>1. /\ x.srv.con /\ x.srv.pending = 0
          /\ x.srv.before # Nobody => x.ses[x.srv.before].act = NoReq
      BY <1>2, <1>5
    <3>2. QED
      BY <2>2, <3>1, TurnTidy
  <2> HIDE DEF y
  <2>4. CASE z = RequestBefore(y, t)
    <3>1. y.srv.pending = 0 /\ y.ses[t].cat
      BY <1>2, <1>5, <2>2, <2>3
    <3>2. z \in Client /\ Tidy(z, u, 0) /\ \A s \in Sess : z.ses[s].chunk = y.ses[s].chunk
      BY <2>2, <2>3, <2>4, <3>1, BeforeTidy
    <3>3. QED
      BY <2>3, <3>2
  <2>5. CASE z = g
    <3>1. /\ f \in Client /\ Tidy(f, u, 0) /\ f.ses[t].act = NoReq
          /\ \A s \in Sess : f.ses[s].chunk = y.ses[s].chunk
      BY <2>2, <2>3, FinishTidy
    <3>2. f.srv.before = Nobody
      BY <2>2, <2>3, FinishDoes
    <3> HIDE DEF f
    <3>3. z \in Client /\ Tidy(z, u, 0) /\ z.ses = f.ses
      BY <2>5, <3>1, <3>2, UnturnedTidy
    <3>4. QED
      BY <2>3, <3>1, <3>3
  <2>6. QED
    BY <1>5, <2>4, <2>5
<1>6. QED
  BY <1>1, <1>3, <1>4, <1>5

LEMMA NonePendingTidy ==
    ASSUME NEW x \in Client, NEW u \in Who, Tidy(x, u, 0), NEW z, z = CheckIfNonePending(x)
    PROVE  z \in Client /\ Tidy(z, u, 0) /\ \A s \in Sess : z.ses[s].chunk = x.ses[s].chunk
<1>1. z = x \/ z = CheckBefore(x)
  BY DEF CheckIfNonePending
<1>2. QED
  BY <1>1, CheckTidy

(***************************************************************************)
(* The end of a batch, and a FAIL.                                         *)
(***************************************************************************)
LEMMA FinishedTidy ==
    ASSUME NEW x \in Client, NEW s \in Sess, Tidy(x, s, 0), x.ses[s].act = NoReq,
           NEW y, y = Finished(x, s)
    PROVE  y \in Client /\ Tidy(y, s, 0)
<1> DEFINE f == FinishCatchup(x, s)
<1>1. f \in Client /\ Tidy(f, s, 0)
  BY FinishTidy DEF Who
<1>2. y = CheckBefore(f)
  BY DEF Finished
<1> HIDE DEF f
<1>3. QED
  BY <1>1, <1>2, CheckTidy DEF Who

LEMMA BeforePhaseTidy ==
    ASSUME NEW x \in Client, NEW s \in Sess, Tidy(x, s, 0), x.ses[s].act = NoReq,
           x.srv.before # Nobody => x.srv.before = s,
           NEW b, NEW y, y = BeforePhase(x, s, b)
    PROVE  y \in Client /\ Tidy(y, s, 0)
<1> DEFINE m == IF b.holds = "dup" THEN x.ses[s].stale + 1 ELSE 0
           n == IF b.holds = "more" THEN x.ses[s].retr + 1 ELSE x.ses[s].retr
           d == SetPages(x, s, m, n)
           e == SetExh(x, s, TRUE)
<1>1. x.ses[s] \in SesRec /\ x.ses \in [Sess -> SesRec]
  BY ClientFields
<1>2. m \in Nat /\ n \in Nat
  BY <1>1 DEF SesRec
<1>3. \/ y = Finished(x, s) \/ y = Finished(e, s) \/ y = Finished(d, s) \/ y = NextHop(d)
  BY DEF BeforePhase, SetPages, SetExh
<1> HIDE DEF m, n
<1>4. Alike(x, d) /\ Alike(x, e)
  BY <1>2, PagesAlike, ExhAlike
<1> HIDE DEF d, e
<1>5. /\ d \in Client /\ Tidy(d, s, 0) /\ d.ses[s].act = NoReq
      /\ d.srv.before # Nobody => d.ses[d.srv.before].act = NoReq
  BY <1>4, AlikeTidy DEF Alike, Like, Who
<1>6. e \in Client /\ Tidy(e, s, 0) /\ e.ses[s].act = NoReq
  BY <1>4, AlikeTidy DEF Alike, Like, Who
<1>7. CASE y = NextHop(d)
  BY <1>5, <1>7, UnturnedTidy DEF Who
<1>8. QED
  BY <1>3, <1>5, <1>6, <1>7, FinishedTidy

LEMMA LatestPhaseTidy ==
    ASSUME NEW x \in Client, NEW s \in Sess, NEW k \in {0, 1}, Tidy(x, s, k),
           k = 1 \/ x.srv.pending = 0, NEW ch, ch.owned, NEW y, y = LatestPhase(x, s, ch)
    PROVE  y \in Client /\ Tidy(y, s, 0)
<1> DEFINE g == GiveBackSlot(x)
<1>1. y = CheckIfNonePending(g)
  BY DEF LatestPhase
<1>2. g \in Client /\ Tidy(g, s, 0)
  BY GiveTidy
<1> HIDE DEF g
<1>3. QED
  BY <1>1, <1>2, NonePendingTidy DEF Who

\* A batch in chunks that outlives the connection: nothing is waiting for it.
LEMMA IdleComplete ==
    ASSUME NEW x \in Client, NEW s \in Sess, Tidy(x, s, 0), ~x.srv.con,
           NEW y, y = RequestComplete(x, s)
    PROVE  Alike(x, y) /\ x.ses[s].act = NoReq
<1>1. x.ses[s].act = NoReq /\ x.ses[s].pend = NoReq
  BY DEF Tidy, Shaped, Neat
<1>2. /\ Only(x, y, s) /\ y.srv = x.srv /\ y.ses[s].pend = NoReq
      /\ y.ses[s].open = x.ses[s].open /\ y.ses[s].joined = x.ses[s].joined
      /\ y.ses[s].cat = x.ses[s].cat /\ y.ses[s].bef = x.ses[s].bef
      /\ y.ses[s].chunk = x.ses[s].chunk
      /\ \/ y.ses[s].act = NoReq /\ y.wire[s] = x.wire[s]
         \/ x.ses[s].pend # NoReq
  BY CompleteDoes
<1>3. y \in Client /\ \A t \in Sess : y.wire[t] = x.wire[t]
  BY <1>1, <1>2 DEF Only
<1>4. y.wire = x.wire
  <2>1. y.wire \in [Sess -> Nat] /\ x.wire \in [Sess -> Nat]
    BY <1>3, ClientFields
  <2>2. QED
    BY <1>3, <2>1
<1>5. \A t \in Sess : Like(x.ses[t], y.ses[t])
  BY <1>1, <1>2 DEF Like, Only
<1>6. QED
  BY <1>1, <1>2, <1>3, <1>4, <1>5 DEF Alike, Flags

\* When the answer is in: what is left to do in the catch-up's phase.
Over(z, s, k, cat) ==
    /\ z \in Client /\ Tidy(z, s, k) /\ k \in {0, 1}
    /\ cat => /\ z.ses[s].act = NoReq /\ (k = 1 \/ z.srv.pending = 0)
              /\ z.ses[s].bef => k = 0 /\ (z.srv.before # Nobody => z.srv.before = s)
    /\ ~cat => k = 0

LEMMA OverAlike ==
    ASSUME NEW x, NEW y, NEW s \in Sess, NEW k \in {0, 1}, NEW cat, Alike(x, y),
           Over(x, s, k, cat)
    PROVE  Over(y, s, k, cat)
<1>1. Tidy(y, s, k)
  BY AlikeTidy DEF Over, Who
<1>2. QED
  BY <1>1 DEF Over, Alike, Like

LEMMA CompleteOver ==
    ASSUME NEW x \in Client, NEW s \in Sess, Ready(x, s), NEW y, y = RequestComplete(x, s)
    PROVE  Over(y, s, Slot(x, s), x.ses[s].cat)
<1>1. /\ y \in Client /\ Tidy(y, s, Slot(x, s)) /\ y.srv = x.srv
      /\ x.ses[s].cat => y.ses[s].act = NoReq
      /\ y.ses[s].bef = x.ses[s].bef
  BY CompleteTidy DEF Completed
<1>2. x.ses[s].cat /\ x.ses[s].bef => x.srv.before = s /\ x.srv.pending = 0
  BY DEF Ready, InTurn
<1>3. ~x.ses[s].cat => Slot(x, s) = 0
  BY DEF Slot, Waits
<1>4. /\ Slot(x, s) \in {0, 1}
      /\ x.ses[s].cat /\ x.ses[s].bef => Slot(x, s) = 0
      /\ x.ses[s].cat /\ ~x.ses[s].bef => Slot(x, s) = 1
  BY DEF Slot, Waits, Ready
<1>5. QED
  BY <1>1, <1>2, <1>3, <1>4 DEF Over

\* What finish_batch_processing does when the request is retired.
LEMMA PhaseTidy ==
    ASSUME NEW z, NEW s \in Sess, NEW k, NEW ch \in Chunk, ch.owned, Over(z, s, k, ch.cat),
           NEW y, y = IF ~ch.cat THEN z
                      ELSE IF z.ses[s].bef THEN BeforePhase(z, s, ch.b)
                      ELSE LatestPhase(z, s, ch)
    PROVE  y \in Client /\ Tidy(y, s, 0)
<1>1. CASE ~ch.cat
  BY <1>1 DEF Over
<1>2. CASE ch.cat /\ z.ses[s].bef
  <2>1. y = BeforePhase(z, s, ch.b)
    BY <1>2
  <2>2. /\ z \in Client /\ Tidy(z, s, 0) /\ z.ses[s].act = NoReq
        /\ z.srv.before # Nobody => z.srv.before = s
    BY <1>2 DEF Over
  <2>3. QED
    BY <2>1, <2>2, BeforePhaseTidy
<1>3. CASE ch.cat /\ ~z.ses[s].bef
  <2>1. y = LatestPhase(z, s, ch)
    BY <1>3
  <2>2. z \in Client /\ Tidy(z, s, k) /\ k \in {0, 1} /\ (k = 1 \/ z.srv.pending = 0)
    BY <1>3 DEF Over
  <2>3. QED
    BY <2>1, <2>2, LatestPhaseTidy
<1>4. QED
  BY <1>1, <1>2, <1>3

\* The batch answers the request in flight, or comes from a connection that is gone.
Answers(x, s, ch) ==
    /\ ~ch.unsol /\ ch.owned
    /\ \/ Ready(x, s) /\ (ch.cat <=> x.ses[s].cat)
       \/ ~x.srv.con /\ Tidy(x, s, 0)

LEMMA FinishBatchTidy ==
    ASSUME NEW x \in Client, NEW s \in Sess, NEW ch \in Chunk, Answers(x, s, ch),
           NEW y, y = FinishBatch(x, s, ch)
    PROVE  y \in Client /\ Tidy(y, s, 0)
<1> DEFINE c == [x EXCEPT !.srv.streak = 0]
           v == [x.srv EXCEPT !.streak = 0]
           q == RequestComplete(c, s)
           o == q.ses[s].oldest \/ (ch.b.holds # "nomsgid" /\ (ch.unsol => ch.owned))
           e == q.ses[s].exh \/ (ch.b.end /\ ~ch.fill /\ ~ch.unsol)
           z == SetMarks(q, s, o, e)
<1>1. x.srv \in SrvRec /\ ~ch.unsol /\ ch.owned
  BY ClientFields DEF Answers
<1>2. /\ v \in SrvRec /\ v.supp = x.srv.supp /\ Flags(x.srv, v)
      /\ v.pending = x.srv.pending /\ v.before = x.srv.before
  BY <1>1 DEF SrvRec, Flags
<1>3. c = [x EXCEPT !.srv = v]
  BY DEF Client
<1>4. Alike(x, c) /\ c \in Client /\ c.ses = x.ses
  <2> HIDE DEF v, c
  <2>1. Alike(x, c) /\ c.ses = x.ses
    BY <1>2, <1>3, ServerAlike
  <2>2. QED
    BY <2>1 DEF Alike
<1>5. q \in Client
  <2> HIDE DEF c
  <2>1. QED
    BY <1>4, CompleteDoes DEF Only
<1>6. y = IF ~ch.cat THEN z
          ELSE IF z.ses[s].bef THEN BeforePhase(z, s, ch.b)
          ELSE LatestPhase(z, s, ch)
  <2>1. q = Retire(c, s, ch)
    BY <1>1 DEF Retire
  <2>2. z = [q EXCEPT !.ses[s].oldest = @ \/ (ch.b.holds # "nomsgid" /\ (ch.unsol => ch.owned)),
                      !.ses[s].exh = @ \/ (ch.b.end /\ ~ch.fill /\ ~ch.unsol)]
    <3> HIDE DEF q
    <3>1. QED
      BY <1>5 DEF SetMarks, Client
  <2>3. c = [x EXCEPT !.srv.streak = 0]
    OBVIOUS
  <2> HIDE DEF z, q, c
  <2>4. QED
    BY <2>1, <2>2, <2>3 DEF FinishBatch
<1> HIDE DEF c, v
<1>7. \E k \in {0, 1} : Over(q, s, k, ch.cat)
  <2>1. CASE Ready(x, s) /\ (ch.cat <=> x.ses[s].cat)
    <3>1. Ready(c, s)
      BY <1>4, <2>1, AlikeReady
    <3>2. Over(q, s, Slot(c, s), c.ses[s].cat)
      BY <1>4, <3>1, CompleteOver
    <3>3. QED
      BY <1>4, <2>1, <3>2 DEF Over
  <2>2. CASE ~x.srv.con /\ Tidy(x, s, 0)
    <3>1. Tidy(c, s, 0) /\ ~c.srv.con
      BY <1>4, <2>2, AlikeTidy DEF Alike, Flags, Who
    <3>2. Alike(c, q) /\ c.ses[s].act = NoReq
      BY <1>4, <3>1, IdleComplete
    <3>3. c.srv.pending = 0 /\ c.srv.before = Nobody
      BY <3>1 DEF Tidy, Counted
    <3>4. Over(c, s, 0, ch.cat)
      BY <1>4, <3>1, <3>2, <3>3 DEF Over
    <3>5. QED
      BY <3>2, <3>4, OverAlike
  <2>3. QED
    BY <2>1, <2>2 DEF Answers
<1>8. PICK k \in {0, 1} : Over(q, s, k, ch.cat)
  BY <1>7
<1> HIDE DEF q
<1>9. o \in BOOLEAN /\ e \in BOOLEAN
  OBVIOUS
<1> HIDE DEF o, e
<1>10. Over(z, s, k, ch.cat)
  <2>1. Alike(q, z)
    BY <1>5, <1>9, MarksAlike
  <2> HIDE DEF z
  <2>2. QED
    BY <1>8, <2>1, OverAlike
<1> HIDE DEF z
<1>11. QED
  BY <1>1, <1>6, <1>10, PhaseTidy

\* A gap fill that is queued behind another request.
Queued(x, s, r) == [x EXCEPT !.ses[s].pend = r]
LEMMA QueuedDoes ==
    ASSUME NEW x \in Client, NEW s \in Sess, NEW r \in Request, NEW y, y = Queued(x, s, r)
    PROVE  /\ Only(x, y, s) /\ y.srv = x.srv /\ y.wire = x.wire
           /\ y.ses[s].pend = r /\ y.ses[s].act = x.ses[s].act
           /\ y.ses[s].open = x.ses[s].open /\ y.ses[s].joined = x.ses[s].joined
           /\ y.ses[s].cat = x.ses[s].cat /\ y.ses[s].bef = x.ses[s].bef
           /\ y.ses[s].chunk = x.ses[s].chunk
<1> DEFINE q == [x.ses[s] EXCEPT !.pend = r]
           n == x.wire[s]
<1>1. x.ses[s] \in SesRec /\ n \in Nat /\ x.srv \in SrvRec /\ r \in Requests
  BY ClientFields DEF Requests
<1>2. y = Rebuild(x, s, q, n, x.srv)
  BY DEF Client, Queued, Rebuild
<1>3. /\ q \in SesRec /\ q.act = x.ses[s].act /\ q.pend = r /\ q.open = x.ses[s].open
      /\ q.joined = x.ses[s].joined /\ q.chunk = x.ses[s].chunk /\ q.cat = x.ses[s].cat
      /\ q.bef = x.ses[s].bef
  BY <1>1 DEF SesRec
<1> HIDE DEF q
<1>4. /\ y \in Client /\ y.srv = x.srv /\ y.ses[s] = q /\ y.wire[s] = n /\ y.wire = x.wire
      /\ \A t \in Sess : t # s => y.ses[t] = x.ses[t] /\ y.wire[t] = x.wire[t]
  BY <1>1, <1>2, <1>3, Rebuilt
<1>5. QED
  BY <1>3, <1>4 DEF Only

LEMMA GapFillTidy ==
    ASSUME NEW x \in Client, NEW s \in Sess, NEW u \in {s, Nobody}, Tidy(x, u, 0),
           NEW ref \in {"ts", "msgid"}, NEW y, y = RequestGapFill(x, s, ref)
    PROVE  y \in Client /\ Tidy(y, u, 0)
<1> DEFINE r == Req("fill", ref, USER)
<1>1. /\ Neat(x.ses[s], x.srv.con) /\ (s # u => Lines(x.ses[s], x.wire[s], x.srv.con))
      /\ x.ses[s] \in SesRec /\ x.wire[s] \in Nat
  BY ClientFields DEF Tidy, Shaped
<1>2. r \in Request /\ r.type = "fill" /\ r # NoReq
  BY ReqType, NoRequest DEF Req
<1>3. \/ y = x
      \/ ~x.ses[s].cat /\ x.ses[s].act = NoReq /\ y = DispatchNow(x, s, r)
      \/ ~x.ses[s].cat /\ x.ses[s].act # NoReq /\ y = Queued(x, s, r)
  BY DEF RequestGapFill, Submit, Queued
<1> HIDE DEF r
<1>4. CASE y = x
  BY <1>4
<1>5. CASE ~x.ses[s].cat /\ x.ses[s].act = NoReq /\ y = DispatchNow(x, s, r) /\ y # x
  <2>1. Dispatched(x, s, r, y)
    BY <1>2, <1>5, DispatchDoes
  <2>2. /\ Only(x, y, s) /\ y.srv = x.srv /\ x.srv.con /\ Target(x, s)
        /\ y.wire[s] = x.wire[s] + 1 /\ y.ses[s].act = r
        /\ y.ses[s].open = x.ses[s].open /\ y.ses[s].joined = x.ses[s].joined
        /\ y.ses[s].pend = x.ses[s].pend /\ y.ses[s].cat = x.ses[s].cat
        /\ y.ses[s].bef = x.ses[s].bef /\ y.ses[s].chunk = x.ses[s].chunk
    BY <1>5, <2>1, Zenon DEF Dispatched
  <2>3. x.ses[s].joined
    BY <2>2 DEF Target
  <2>4. Neat(y.ses[s], y.srv.con)
    BY <1>1, <1>2, <1>5, <2>2, <2>3 DEF Neat
  <2>5. s # u => Lines(y.ses[s], y.wire[s], y.srv.con)
    BY <1>1, <1>2, <1>5, <2>2 DEF Lines
  <2>6. Shaped(y, u)
    BY <2>2, <2>4, <2>5, ShapedOne DEF Tidy
  <2>7. Owes(y, u)
    BY <1>2, <1>5, <2>2 DEF Owes, Tidy
  <2>8. Num(y) = Num(x)
    <3>1. ~Waits(x.ses[s]) /\ ~Waits(y.ses[s])
      BY <1>5, <2>2 DEF Waits
    <3>2. QED
      BY <2>2, <3>1, NumOne
  <2>9. Counted(y, 0)
    BY <2>2, <2>8 DEF Counted, Tidy
  <2>10. InTurn(y)
    BY <1>5, <2>2 DEF InTurn, Tidy, Only
  <2>11. Phased(y)
    <3>1. Flags(x.srv, y.srv)
      BY <2>2 DEF Flags
    <3>2. QED
      BY <2>2, <3>1, PhasedOne DEF Tidy
  <2>12. QED
    BY <2>2, <2>6, <2>7, <2>9, <2>10, <2>11 DEF Tidy, Only
<1>6. CASE ~x.ses[s].cat /\ x.ses[s].act # NoReq /\ y = Queued(x, s, r)
  <2>1. /\ Only(x, y, s) /\ y.srv = x.srv /\ y.wire = x.wire
        /\ y.ses[s].pend = r /\ y.ses[s].act = x.ses[s].act
        /\ y.ses[s].open = x.ses[s].open /\ y.ses[s].joined = x.ses[s].joined
        /\ y.ses[s].bef = x.ses[s].bef
        /\ y.ses[s].chunk = x.ses[s].chunk /\ ~y.ses[s].cat
    <3>1. y = Queued(x, s, r)
      BY <1>6
    <3>2. /\ Only(x, y, s) /\ y.srv = x.srv /\ y.wire = x.wire
          /\ y.ses[s].pend = r /\ y.ses[s].act = x.ses[s].act
          /\ y.ses[s].open = x.ses[s].open /\ y.ses[s].joined = x.ses[s].joined
          /\ y.ses[s].cat = x.ses[s].cat /\ y.ses[s].bef = x.ses[s].bef
          /\ y.ses[s].chunk = x.ses[s].chunk
      BY <1>2, <3>1, QueuedDoes
    <3>3. QED
      BY <1>6, <3>2, Zenon
  <2>2. Neat(y.ses[s], y.srv.con)
    BY <1>1, <1>2, <1>6, <2>1 DEF Neat
  <2>3. s # u => Lines(y.ses[s], y.wire[s], y.srv.con)
    BY <1>1, <1>6, <2>1 DEF Lines
  <2>4. Shaped(y, u)
    BY <2>1, <2>2, <2>3, ShapedOne DEF Tidy
  <2>5. Owes(y, u)
    BY <2>1 DEF Owes, Tidy
  <2>6. Num(y) = Num(x)
    <3>1. ~Waits(x.ses[s]) /\ ~Waits(y.ses[s])
      BY <1>6, <2>1 DEF Waits
    <3>2. QED
      BY <2>1, <3>1, NumOne
  <2>7. Counted(y, 0)
    BY <2>1, <2>6 DEF Counted, Tidy
  <2>8. InTurn(y)
    BY <2>1 DEF InTurn, Tidy, Only
  <2>9. Phased(y)
    <3>1. Flags(x.srv, y.srv)
      BY <2>1 DEF Flags
    <3>2. QED
      BY <2>1, <3>1, PhasedOne DEF Tidy
  <2>10. QED
    BY <2>1, <2>4, <2>5, <2>7, <2>8, <2>9 DEF Tidy, Only
<1>7. QED
  BY <1>3, <1>4, <1>5, <1>6

LEMMA GapRetryTidy ==
    ASSUME NEW x \in Client, NEW s \in Sess, Tidy(x, s, 0), NEW ref, NEW y,
           y = GapFillRetry(x, s, ref)
    PROVE  y \in Client /\ Tidy(y, s, 0)
<1>1. y = x \/ y = RequestGapFill(x, s, "ts")
  BY DEF GapFillRetry
<1>2. QED
  BY <1>1, GapFillTidy

\* The catch-up of a session goes on with the timestamp, or ends and gives back its slot.
LEMMA RetryOver ==
    ASSUME NEW x \in Client, NEW s \in Sess, Ready(x, s), x.ses[s].cat,
           NEW z, z = RequestComplete(x, s), NEW y, y = RequestLatest(z, s, "ts")
    PROVE  y \in Client /\ Tidy(y, s, 0)
<1>1. /\ z \in Client /\ Tidy(z, s, Slot(x, s)) /\ z.srv = x.srv /\ z.ses[s].pend = NoReq
      /\ z.ses[s].act = NoReq /\ z.ses[s].open /\ z.ses[s].joined
      /\ z.ses[s].cat /\ (z.ses[s].bef <=> x.ses[s].bef)
  <2>1. Completed(x, s, z)
    BY CompleteTidy
  <2>2. QED
    BY <2>1, Zenon DEF Completed
<1>2. x.ses[s].bef => x.srv.before = s /\ x.srv.pending = 0
  BY DEF Ready, InTurn
<1>3. Slot(x, s) \in {0, 1} /\ Slot(x, s) = IF z.ses[s].bef THEN 0 ELSE 1
  BY <1>1 DEF Slot, Waits, Ready
<1>4. Rests(z, s)
  BY <1>1 DEF Rests
<1>5. z.ses[s].bef => z.srv.before = s /\ z.srv.pending = 0
  BY <1>1, <1>2
<1>6. QED
  BY <1>1, <1>3, <1>4, <1>5, RetryTidy

LEMMA EndTidy ==
    ASSUME NEW z, NEW s \in Sess, NEW k, Over(z, s, k, TRUE),
           NEW w, w = CheckIfNonePending(GiveBackSlot(FinishCatchup(z, s)))
    PROVE  w \in Client /\ Tidy(w, s, 0)
<1> DEFINE f == FinishCatchup(z, s)
           g == GiveBackSlot(f)
<1>1. /\ z \in Client /\ Tidy(z, s, k) /\ z.ses[s].act = NoReq /\ k \in {0, 1}
      /\ k = 1 \/ z.srv.pending = 0
  BY DEF Over
<1>2. f \in Client /\ Tidy(f, s, k) /\ f.srv.pending = z.srv.pending
  BY <1>1, FinishTidy DEF Who
<1>3. w = CheckIfNonePending(g)
  OBVIOUS
<1> HIDE DEF f
<1>4. g \in Client /\ Tidy(g, s, 0)
  BY <1>1, <1>2, GiveTidy
<1> HIDE DEF g
<1>5. QED
  BY <1>3, <1>4, NonePendingTidy DEF Who

LEMMA EmptyBatchTidy ==
    ASSUME NEW x \in Client, NEW s \in Sess, NEW ch \in Chunk, Ready(x, s),
           ~ch.unsol, ch.owned, ch.cat <=> x.ses[s].cat, ch.fill => ~x.ses[s].cat,
           NEW ref, NEW w, w = EmptyBatch(x, s, ch, ref)
    PROVE  w \in Client /\ Tidy(w, s, 0)
<1> DEFINE e == x.ses[s].exh \/ (ch.b.end /\ ~ch.fill /\ ~ch.unsol)
           y == SetExh(x, s, e)
           z == RequestComplete(y, s)
           h == z.ses[s].exh \/ ~ch.unsol
           k == SetExh(z, s, h)
<1>1. y = [x EXCEPT !.ses[s].exh = @ \/ (ch.b.end /\ ~ch.fill /\ ~ch.unsol)]
  BY DEF SetExh, Client
<1>2. e \in BOOLEAN
  OBVIOUS
<1> HIDE DEF e
<1>3. Alike(x, y) /\ y \in Client
  BY <1>2, ExhAlike DEF Alike
<1>4. \/ ch.fill /\ w = GapFillRetry(z, s, ref)
      \/ ch.cat /\ w = RequestLatest(z, s, "ts")
      \/ ch.cat /\ w = CheckIfNonePending(GiveBackSlot(FinishCatchup(z, s)))
      \/ ~ch.cat /\ w = [z EXCEPT !.ses[s].exh = @ \/ ~ch.unsol]
  <2>1. z = Retire(y, s, ch)
    BY DEF Retire
  <2> HIDE DEF z, y
  <2>2. QED
    BY <1>1, <2>1 DEF EmptyBatch
<1> HIDE DEF y
<1>5. Ready(y, s) /\ (y.ses[s].cat <=> x.ses[s].cat)
  <2>1. y.ses[s].cat = x.ses[s].cat
    BY <1>3 DEF Alike, Like
  <2>2. QED
    BY <1>3, <2>1, AlikeReady
<1>6. Over(z, s, Slot(y, s), y.ses[s].cat)
  BY <1>3, <1>5, CompleteOver
<1>7. z \in Client /\ Tidy(z, s, Slot(y, s)) /\ (~ch.cat => Slot(y, s) = 0)
  BY <1>5, <1>6 DEF Over
<1>8. CASE ch.fill /\ w = GapFillRetry(z, s, ref)
  <2> HIDE DEF z
  <2>1. QED
    BY <1>7, <1>8, GapRetryTidy
<1>9. CASE ch.cat /\ w = RequestLatest(z, s, "ts")
  BY <1>3, <1>5, <1>9, RetryOver
<1>10. CASE ch.cat /\ w = CheckIfNonePending(GiveBackSlot(FinishCatchup(z, s)))
  <2> HIDE DEF z
  <2>1. Over(z, s, Slot(y, s), TRUE)
    BY <1>5, <1>6, <1>10 DEF Over
  <2>2. QED
    BY <1>10, <2>1, EndTidy
<1>11. CASE ~ch.cat /\ w = [z EXCEPT !.ses[s].exh = @ \/ ~ch.unsol]
  <2> HIDE DEF z
  <2>1. w = k /\ h \in BOOLEAN
    BY <1>7, <1>11 DEF SetExh, Client
  <2> HIDE DEF h
  <2>2. Alike(z, w)
    BY <1>7, <2>1, ExhAlike
  <2>3. QED
    BY <1>7, <1>11, <2>2, AlikeTidy DEF Who, Alike
<1>12. QED
  BY <1>4, <1>8, <1>9, <1>10, <1>11

LEMMA HandleFailTidy ==
    ASSUME NEW x \in Client, NEW s \in Sess, Ready(x, s), NEW unknown \in BOOLEAN,
           NEW w, w = HandleFail(x, s, unknown)
    PROVE  w \in Client /\ Tidy(w, s, 0)
<1> DEFINE n == IF x.srv.streak < 4 THEN x.srv.streak + 1 ELSE 4
           b == x.srv.supp \/ n >= 4
           c == [x EXCEPT !.srv.streak = n, !.srv.supp = b]
           v == [x.srv EXCEPT !.streak = n, !.supp = b]
           y == FailedRequest(x, s)
           a == x.ses[s].act
           g == GiveBackSlot(y)
           f == FinishCatchup(g, s)
           k == FinishCatchup(y, s)
<1>1. x.srv \in SrvRec /\ n \in 0..4 /\ b \in BOOLEAN
  BY ClientFields DEF SrvRec
<1>2. y = RequestComplete(c, s)
  <2>1. c = [x EXCEPT !.srv.streak = n, !.srv.supp = @ \/ n >= 4]
    BY DEF Client
  <2>2. QED
    BY <2>1 DEF FailedRequest
<1>3. x.srv.supp => b
  OBVIOUS
<1>4. \/ ~x.ses[s].cat /\ w = y
      \/ a.type = "fill" /\ (w = y \/ w = GapFillRetry(y, s, a.ref))
      \/ x.ses[s].cat /\ w = RequestLatest(y, s, "ts")
      \/ x.ses[s].cat /\ ~x.ses[s].bef /\ w = CheckIfNonePending(f)
      \/ x.ses[s].cat /\ x.ses[s].bef /\ w = CheckIfNonePending(k)
  BY DEF HandleFail, SlotAfterFail, InLatestPhase
<1> HIDE DEF n, b
<1>5. /\ v \in SrvRec /\ v.supp = b /\ c = [x EXCEPT !.srv = v] /\ Flags(x.srv, v)
      /\ v.pending = x.srv.pending /\ v.before = x.srv.before
  BY <1>1, <1>3 DEF SrvRec, Client, Flags
<1> HIDE DEF v, c
<1>6. Alike(x, c) /\ c.ses = x.ses /\ c \in Client
  <2>1. Alike(x, c) /\ c.ses = x.ses
    BY <1>5, ServerAlike
  <2>2. QED
    BY <2>1 DEF Alike
<1>7. Ready(c, s)
  BY <1>6, AlikeReady
<1> HIDE DEF y
<1>8. Over(y, s, Slot(c, s), c.ses[s].cat)
  BY <1>2, <1>6, <1>7, CompleteOver
<1>9. y \in Client /\ Tidy(y, s, Slot(c, s)) /\ (~x.ses[s].cat => Slot(c, s) = 0)
  BY <1>6, <1>8 DEF Over
<1>10. a.type = "fill" => ~x.ses[s].cat
  BY NoRequest DEF Ready, Shaped, Neat
<1>11. CASE ~x.ses[s].cat /\ (w = y \/ w = GapFillRetry(y, s, a.ref))
  BY <1>9, <1>11, GapRetryTidy
<1>12. CASE x.ses[s].cat /\ w = RequestLatest(y, s, "ts")
  BY <1>2, <1>6, <1>7, <1>12, RetryOver
<1>13. CASE x.ses[s].cat /\ ~x.ses[s].bef /\ w = CheckIfNonePending(f)
  <2>1. Slot(c, s) = 1 /\ y.ses[s].act = NoReq
    BY <1>6, <1>7, <1>8, <1>13 DEF Slot, Waits, Ready, Over
  <2>2. g \in Client /\ Tidy(g, s, 0) /\ g.ses = y.ses
    BY <1>9, <2>1, GiveTidy
  <2> HIDE DEF g
  <2>3. f \in Client /\ Tidy(f, s, 0)
    BY <2>1, <2>2, FinishTidy DEF Who
  <2> HIDE DEF f
  <2>4. QED
    BY <1>13, <2>3, NonePendingTidy DEF Who
<1>14. CASE x.ses[s].cat /\ x.ses[s].bef /\ w = CheckIfNonePending(k)
  <2>1. Slot(c, s) = 0 /\ y.ses[s].act = NoReq
    BY <1>6, <1>7, <1>8, <1>14 DEF Slot, Waits, Ready, Over
  <2>2. k \in Client /\ Tidy(k, s, 0)
    BY <1>9, <2>1, FinishTidy DEF Who
  <2> HIDE DEF k
  <2>3. QED
    BY <1>14, <2>2, NonePendingTidy DEF Who
<1>15. QED
  BY <1>4, <1>10, <1>11, <1>12, <1>13, <1>14

\* No session is exempt any more.
LEMMA TidyRegular ==
    ASSUME NEW x, NEW s \in Sess, Tidy(x, s, 0), x.ses[s].chunk = NoChunk
    PROVE  Regular(x)
<1>1. Lines(x.ses[s], x.wire[s], x.srv.con)
  BY SessFacts DEF Tidy, Owes, Lines
<1>2. Shaped(x, Nobody)
  BY <1>1 DEF Shaped, Tidy
<1>3. QED
  BY <1>2 DEF Regular, Tidy, Owes

\* A batch that waits in chunks.
Chunked(x, s, ch) == [x EXCEPT !.ses[s].chunk = ch]
LEMMA ChunkRegular ==
    ASSUME NEW x \in Client, NEW s \in Sess, Ready(x, s), NEW ch \in Chunk, ~ch.unsol, ch.owned,
           ch # NoChunk, ch.cat <=> x.ses[s].cat,
           NEW w, w = Chunked(x, s, ch)
    PROVE  w \in Client /\ Regular(w)
<1> DEFINE q == [x.ses[s] EXCEPT !.chunk = ch]
           n == x.wire[s]
<1>1. x.ses[s] \in SesRec /\ n \in Nat /\ x.srv \in SrvRec
  BY ClientFields
<1>2. w = Rebuild(x, s, q, n, x.srv)
  BY DEF Client, Rebuild, Chunked
<1>2a. q \in SesRec
  BY <1>1 DEF SesRec
<1>3. /\ q.act = x.ses[s].act /\ q.pend = x.ses[s].pend
      /\ q.open = x.ses[s].open /\ q.joined = x.ses[s].joined /\ q.chunk = ch
      /\ (q.cat <=> x.ses[s].cat) /\ (q.bef <=> x.ses[s].bef)
  BY <1>1 DEF SesRec
<1> HIDE DEF q
<1>4. /\ w \in Client /\ w.srv = x.srv /\ w.ses[s] = q /\ w.wire[s] = x.wire[s]
      /\ Only(x, w, s)
  <2> HIDE DEF n
  <2>1. /\ w \in Client /\ w.srv = x.srv /\ w.ses[s] = q /\ w.wire[s] = n
        /\ \A t \in Sess : t # s => w.ses[t] = x.ses[t] /\ w.wire[t] = x.wire[t]
    BY <1>1, <1>2, <1>2a, Rebuilt
  <2>2. QED
    BY <2>1 DEF Only, n
<1>5. Neat(x.ses[s], x.srv.con) /\ x.ses[s].act # NoReq /\ x.wire[s] = 0
  BY DEF Ready, Shaped
<1>6. Neat(w.ses[s], w.srv.con)
  BY <1>3, <1>4, <1>5 DEF Neat
<1>7. Lines(w.ses[s], w.wire[s], w.srv.con)
  BY <1>3, <1>4, <1>5 DEF Lines
<1>8. Shaped(w, Nobody)
  BY <1>4, <1>6, <1>7 DEF Shaped, Ready, Only
<1>9. Num(w) = Num(x)
  <2>1. Waits(w.ses[s]) <=> Waits(x.ses[s])
    BY <1>3, <1>4 DEF Waits
  <2>2. QED
    BY <1>4, <2>1, NumOne
<1>10. Counted(w, 0)
  BY <1>4, <1>9 DEF Counted, Ready
<1>11. InTurn(w)
  BY <1>3, <1>4 DEF InTurn, Ready, Only
<1>12. Phased(w)
  <2>1. Flags(x.srv, w.srv)
    BY <1>4 DEF Flags
  <2>2. w.ses[s].cat => x.ses[s].cat
    BY <1>3, <1>4
  <2>3. Phased(x)
    BY DEF Ready
  <2>4. QED
    BY <1>4, <2>1, <2>2, <2>3, PhasedOne
<1>13. QED
  BY <1>4, <1>8, <1>10, <1>11, <1>12 DEF Regular, Tidy, Owes

LEMMA ProcessBatchTidy ==
    ASSUME NEW x \in Client, NEW s \in Sess, Ready(x, s), x.ses[s].chunk = NoChunk,
           NEW b \in Batch, NEW ref \in {"ts", "msgid"},
           NEW w, w = ProcessBatch(x, s, b, FALSE, ref)
    PROVE  w \in Client /\ Regular(w)
<1> DEFINE a    == x.ses[s].act
           fill == a.type = "fill"
           cat  == x.ses[s].cat /\ ~fill
           owed == cat /\ ~x.ses[s].bef
           ch   == ChunkOf(b, cat, FALSE, TRUE, owed, fill)
<1>1. a # NoReq /\ (fill => ~x.ses[s].cat)
  BY NoRequest DEF Ready, Shaped, Neat
<1>2. w = IF b.holds = "empty" THEN EmptyBatch(x, s, ch, a.ref)
          ELSE IF b.big THEN Chunked(x, s, ch) ELSE FinishBatch(x, s, ch)
  <2>1. (FALSE \/ a = NoReq) = FALSE
    BY <1>1
  <2>2. QED
    BY <2>1 DEF ProcessBatch, Chunked
<1>3. fill \in BOOLEAN /\ cat \in BOOLEAN /\ owed \in BOOLEAN
  BY ClientFields, SesFields
<1>4. cat <=> x.ses[s].cat
  BY <1>1
<1> HIDE DEF fill, cat, owed
<1>5. /\ ch \in Chunk /\ ~ch.unsol /\ ch.owned /\ ch.fill = fill /\ ch.cat = cat /\ ch # NoChunk
  <2>1. /\ ch \in Chunk /\ ch.unsol = FALSE /\ ch.owned = TRUE /\ ch.fill = fill /\ ch.b = b
        /\ ch.cat = cat
    BY <1>3 DEF ChunkOf, Chunk
  <2>2. NoChunk.b.holds = "none" /\ b.holds # "none"
    BY DEF NoChunk, ChunkOf, NoBatch, Batch
  <2>3. QED
    BY <2>1, <2>2
<1>6. (ch.cat <=> x.ses[s].cat) /\ (ch.fill => ~x.ses[s].cat)
  BY <1>1, <1>4, <1>5
<1> HIDE DEF ch
<1>7. CASE w = Chunked(x, s, ch)
  BY <1>5, <1>6, <1>7, ChunkRegular
<1>8. CASE w = EmptyBatch(x, s, ch, a.ref)
  <2>1. w \in Client /\ Tidy(w, s, 0)
    BY <1>5, <1>6, <1>8, EmptyBatchTidy
  <2>2. Ended(x, s, ch.unsol, w)
    BY <1>5, <1>8, EmptyBatchKeeps
  <2>3. w.ses[s].chunk = NoChunk
    BY <2>2 DEF Ended, Keeps
  <2>4. QED
    BY <2>1, <2>3, TidyRegular
<1>9. CASE w = FinishBatch(x, s, ch)
  <2>1. Answers(x, s, ch)
    BY <1>5, <1>6 DEF Answers
  <2>2. w \in Client /\ Tidy(w, s, 0)
    BY <1>5, <1>9, <2>1, FinishBatchTidy
  <2>3. Ended(x, s, ch.unsol, w)
    BY <1>5, <1>9, FinishBatchKeeps
  <2>4. w.ses[s].chunk = NoChunk
    BY <2>3 DEF Ended, Keeps
  <2>5. QED
    BY <2>2, <2>4, TidyRegular
<1>10. QED
  BY <1>2, <1>7, <1>8, <1>9

LEMMA UnchunkedTidy ==
    ASSUME NEW x \in Client, NEW s \in Sess, Tidy(x, s, 0), NEW w, w = Unchunked(x, s)
    PROVE  w \in Client /\ Tidy(w, s, 0) /\ w.ses[s].chunk = NoChunk
<1> DEFINE q == [x.ses[s] EXCEPT !.chunk = NoChunk]
           n == x.wire[s]
<1>1. x.ses[s] \in SesRec /\ n \in Nat /\ x.srv \in SrvRec
  BY ClientFields
<1>2. w = Rebuild(x, s, q, n, x.srv)
  BY DEF Client, Rebuild, Unchunked
<1>3. q \in SesRec
  BY <1>1 DEF SesRec
<1>4. /\ q.act = x.ses[s].act /\ q.pend = x.ses[s].pend
      /\ q.open = x.ses[s].open /\ q.joined = x.ses[s].joined /\ q.chunk = NoChunk
      /\ (q.cat <=> x.ses[s].cat) /\ (q.bef <=> x.ses[s].bef)
  BY <1>1 DEF SesRec
<1> HIDE DEF q
<1>5. /\ w \in Client /\ w.srv = x.srv /\ w.ses[s] = q /\ w.wire[s] = x.wire[s]
      /\ Only(x, w, s)
  <2> HIDE DEF n
  <2>1. /\ w \in Client /\ w.srv = x.srv /\ w.ses[s] = q /\ w.wire[s] = n
        /\ \A t \in Sess : t # s => w.ses[t] = x.ses[t] /\ w.wire[t] = x.wire[t]
    BY <1>1, <1>2, <1>3, Rebuilt
  <2>2. QED
    BY <2>1 DEF Only, n
<1>6. Neat(w.ses[s], w.srv.con)
  BY <1>4, <1>5 DEF Neat, Tidy, Shaped
<1>7. Shaped(w, s)
  BY <1>5, <1>6, ShapedOne DEF Tidy
<1>8. Owes(w, s)
  BY <1>4, <1>5 DEF Owes, Tidy
<1>9. Num(w) = Num(x)
  <2>1. Waits(w.ses[s]) <=> Waits(x.ses[s])
    BY <1>4, <1>5 DEF Waits
  <2>2. QED
    BY <1>5, <2>1, NumOne
<1>10. Counted(w, 0)
  BY <1>5, <1>9 DEF Counted, Tidy
<1>11. InTurn(w)
  BY <1>4, <1>5 DEF InTurn, Tidy, Only
<1>12. Phased(w)
  <2>1. Flags(x.srv, w.srv)
    BY <1>5 DEF Flags
  <2>2. w.ses[s].cat => x.ses[s].cat
    BY <1>4, <1>5
  <2>3. Phased(x)
    BY DEF Tidy
  <2>4. QED
    BY <1>5, <2>1, <2>2, <2>3, PhasedOne
<1>13. QED
  BY <1>4, <1>5, <1>7, <1>8, <1>10, <1>11, <1>12 DEF Tidy

(***************************************************************************)
(* The actions.                                                            *)
(***************************************************************************)
LEMMA BecomeRegular ==
    ASSUME NEW x \in Client, Regular(x), Become(x)
    PROVE  Regular(Here)'
<1>1. Here' = x
  BY DEF Become, Here, Client
<1>2. QED
  BY <1>1

\* Whoever is owed an answer, or has it in chunks, is ready for it.
LEMMA AnsweredReady ==
    ASSUME Typed, Regular(Here), NEW s \in Sess, srv.con, wire[s] > 0, NEW x, x = Answered(s)
    PROVE  /\ x \in Client /\ Ready(x, s) /\ x.ses[s].chunk = NoChunk /\ Target(Here, s)
<1>1. /\ Here \in Client /\ Here.ses = ses /\ Here.srv = srv /\ Here.wire = wire
  BY HereClient
<1>2. /\ x \in Client /\ x.ses = ses /\ x.srv = srv /\ x.wire[s] = wire[s] - 1
      /\ \A t \in Sess : t # s => x.wire[t] = wire[t]
  BY AnsweredClient
<1>3. \A t \in Sess : Neat(ses[t], srv.con) /\ Lines(ses[t], wire[t], srv.con)
  BY <1>1, SessFacts DEF Regular, Tidy, Shaped
<1>4. wire[s] = 1 /\ ses[s].act # NoReq /\ ses[s].chunk = NoChunk /\ ses[s].open /\ ses[s].joined
  <2>1. wire[s] \in Nat
    BY DEF Typed
  <2>2. QED
    BY <1>3, <2>1 DEF Lines, Neat
<1>5. Shaped(x, s)
  BY <1>2, <1>3 DEF Shaped
<1>6. Num(x) = Num(Here)
  BY <1>1, <1>2 DEF Num, Waiters
<1>7. Counted(x, 0) /\ InTurn(x) /\ Phased(x)
  BY <1>1, <1>2, <1>6 DEF Counted, InTurn, Phased, Regular, Tidy
<1>8. QED
  BY <1>1, <1>2, <1>4, <1>5, <1>7 DEF Ready, Target

LEMMA ReplyRegular ==
    ASSUME Typed, Regular(Here), NEW s \in Sess, NEW b \in Batch, NEW ref \in {"ts", "msgid"},
           Reply(s, b, ref)
    PROVE  Regular(Here)'
<1> DEFINE x == Answered(s)
           w == ProcessBatch(x, s, b, FALSE, ref)
<1>1. srv.con /\ wire[s] > 0
  BY DEF Reply
<1>2. x \in Client /\ Ready(x, s) /\ x.ses[s].chunk = NoChunk /\ Target(Here, s)
  BY <1>1, AnsweredReady
<1>3. Become(w)
  BY <1>2 DEF Reply
<1> HIDE DEF x
<1>4. w \in Client /\ Regular(w)
  BY <1>2, ProcessBatchTidy
<1> HIDE DEF w
<1>5. QED
  BY <1>3, <1>4, BecomeRegular

LEMMA FailRegular ==
    ASSUME Typed, Regular(Here), Plain, NEW s \in Sess, NEW named \in BOOLEAN,
           NEW unknown \in BOOLEAN, Fail(s, named, unknown)
    PROVE  Regular(Here)'
<1> DEFINE x == Answered(s)
           w == HandleFail(x, s, unknown)
<1>1. srv.con /\ wire[s] > 0 /\ named
  BY DEF Fail, Plain, Standard
<1>2. x \in Client /\ Ready(x, s) /\ x.ses[s].chunk = NoChunk /\ Target(Here, s)
  BY <1>1, AnsweredReady
<1>3. Become(w)
  BY <1>1, <1>2 DEF Fail
<1> HIDE DEF x
<1>4. w \in Client /\ Tidy(w, s, 0)
  BY <1>2, HandleFailTidy
<1>5. w.ses[s].chunk = NoChunk
  BY <1>2, HandleFailKeeps DEF Keeps
<1> HIDE DEF w
<1>6. Regular(w)
  BY <1>4, <1>5, TidyRegular
<1>7. QED
  BY <1>3, <1>4, <1>6, BecomeRegular

LEMMA ChunkDoneRegular ==
    ASSUME Typed, Regular(Here), NEW s \in Sess, ChunkDone(s)
    PROVE  Regular(Here)'
<1> DEFINE ch == ses[s].chunk
           y == FinishBatch(Here, s, ch)
           r == [y.ses[s] EXCEPT !.chunk = NoChunk]
           w == Unchunked(y, s)
<1>1. /\ Here \in Client /\ Here.ses = ses /\ Here.srv = srv /\ Here.wire = wire
      /\ \A t \in Sess : wire[t] \in Nat /\ ses[t] \in SesRec
  BY HereClient DEF Typed
<1>2. ch \in Chunk /\ ch # NoChunk
  BY <1>1, SesFields DEF ChunkDone
<1>3. Become(w)
  BY DEF ChunkDone, Unchunked
<1>4. Neat(ses[s], srv.con) /\ Lines(ses[s], wire[s], srv.con)
  BY <1>1, SessFacts DEF Regular, Tidy, Shaped
<1>5. Answers(Here, s, ch)
  <2>1. ~ch.unsol /\ ch.owned /\ wire[s] = 0
    BY <1>2, <1>4 DEF Neat, Lines
  <2>2. Shaped(Here, s) /\ Counted(Here, 0) /\ InTurn(Here) /\ Phased(Here)
    BY SessFacts DEF Regular, Tidy, Shaped
  <2>3. CASE srv.con
    <3>1. ses[s].act # NoReq /\ (ch.cat <=> ses[s].cat)
      BY <1>2, <1>4, <2>3 DEF Lines
    <3>2. QED
      BY <1>1, <2>1, <2>2, <3>1 DEF Answers, Ready
  <2>4. CASE ~srv.con
    <3>1. ses[s].act = NoReq
      BY <1>4, <2>4 DEF Neat
    <3>2. QED
      BY <1>1, <2>1, <2>2, <2>4, <3>1 DEF Answers, Tidy, Owes
  <2>5. QED
    BY <2>3, <2>4
<1> HIDE DEF ch
<1>6. y \in Client /\ Tidy(y, s, 0)
  BY <1>1, <1>2, <1>5, FinishBatchTidy
<1> HIDE DEF y
<1>7. w \in Client /\ Tidy(w, s, 0) /\ w.ses[s].chunk = NoChunk
  BY <1>6, UnchunkedTidy
<1> HIDE DEF w
<1>8. QED
  BY <1>3, <1>7, TidyRegular, BecomeRegular

\* Steps of the server record alone.
LEMMA ServerRegular ==
    ASSUME Regular(Here), UNCHANGED <<ses, wire>>, Phased(Here'),
           srv'.con = srv.con, srv'.supp = srv.supp, srv'.pending = srv.pending,
           srv'.before = srv.before
    PROVE  Regular(Here)'
<1> DEFINE x == Here
           y == Here'
<1>1. y.ses = x.ses /\ y.wire = x.wire /\ x.srv = srv /\ y.srv = srv'
  BY DEF Here
<1>2. Regular(Here)' <=> Regular(y)
  BY DEF Here
<1> HIDE DEF x, y
<1>3. Num(x) = Num(y)
  BY <1>1 DEF Num, Waiters
<1>4. Regular(x) /\ Phased(y)
  BY DEF x, y
<1>5. Shaped(y, Nobody) /\ Counted(y, 0) /\ InTurn(y) /\ Owes(y, Nobody)
  BY <1>1, <1>3, <1>4 DEF Regular, Tidy, Shaped, Counted, InTurn, Owes
<1>6. QED
  BY <1>2, <1>4, <1>5 DEF Regular, Tidy

LEMMA EndOfMotdRegular ==
    ASSUME Typed, Regular(Here), EndOfMotd
    PROVE  Regular(Here)'
<1> DEFINE g == IF srv.drives THEN "deferred" ELSE SendTargets
<1>1. srv \in SrvRec /\ "targets" \in Features /\ UNCHANGED <<ses, wire>>
  BY DEF EndOfMotd, Typed
<1>2. srv' = [srv EXCEPT !.targets = g]
  BY DEF EndOfMotd
<1> HIDE DEF g
<1>3. /\ srv'.con = srv.con /\ srv'.supp = srv.supp /\ srv'.pending = srv.pending
      /\ srv'.before = srv.before /\ srv'.startT = srv.startT /\ srv'.settled = srv.settled
      /\ srv'.wrap = srv.wrap
  BY <1>1, <1>2 DEF SrvRec
<1>4. Phased(Here')
  BY <1>1, <1>3 DEF Regular, Tidy, Phased, Here
<1>5. QED
  BY <1>1, <1>3, <1>4, ServerRegular

LEMMA TargetsReplyRegular ==
    ASSUME Typed, Regular(Here), Plain, NEW D, TargetsReply(D)
    PROVE  Regular(Here)'
<1>1. srv \in SrvRec /\ srv.targets = "asked" /\ D \subseteq Dialogs
      /\ srv' = [srv EXCEPT !.targets = "done"]
  BY DEF TargetsReply, Typed
<1>2. "targets" \in Features /\ D = {}
  BY <1>1 DEF Plain, Regular, Tidy, Phased, Here
<1>3. UNCHANGED <<ses, wire>>
  <2>1. ses \in [Sess -> SesRec] /\ wire \in [Sess -> Nat]
    BY DEF Typed
  <2>2. ses' = [s \in Sess |-> ses[s]] /\ wire' = [s \in Sess |-> wire[s]]
    BY <1>2 DEF TargetsReply
  <2>3. QED
    BY <2>1, <2>2
<1>4. /\ srv'.con = srv.con /\ srv'.supp = srv.supp /\ srv'.pending = srv.pending
      /\ srv'.before = srv.before /\ srv'.startT = srv.startT /\ srv'.settled = srv.settled
      /\ srv'.wrap = srv.wrap
  BY <1>1 DEF SrvRec
<1>5. Phased(Here')
  BY <1>2, <1>3, <1>4 DEF Regular, Tidy, Phased, Here
<1>6. QED
  BY <1>3, <1>4, <1>5, ServerRegular

LEMMA BeforeTimerRegular ==
    ASSUME Typed, Regular(Here), BeforeTimer
    PROVE  Regular(Here)'
<1> DEFINE v == [srv EXCEPT !.beforeT = FALSE]
           c == [Here EXCEPT !.srv.beforeT = FALSE]
           y == CheckBefore(c)
<1>1. Here \in Client /\ Here.srv = srv
  BY HereClient
<1>2. v \in SrvRec /\ Flags(srv, v) /\ v.pending = srv.pending /\ v.before = srv.before
  BY DEF Typed, SrvRec, Flags
<1>3. c = [Here EXCEPT !.srv = v]
  BY <1>1 DEF Client
<1>4. Become(y)
  BY DEF BeforeTimer
<1> HIDE DEF v, c
<1>5. Alike(Here, c)
  BY <1>1, <1>2, <1>3, ServerAlike
<1>6. c \in Client /\ Tidy(c, Nobody, 0)
  BY <1>5, AlikeTidy DEF Who, Regular, Alike
<1>7. y \in Client /\ Tidy(y, Nobody, 0)
  BY <1>6, CheckTidy DEF Who
<1> HIDE DEF y
<1>8. QED
  BY <1>4, <1>7, BecomeRegular DEF Regular

LEMMA TabSwitchRegular ==
    ASSUME Typed, Regular(Here), NEW s \in Sess, TabSwitch(s)
    PROVE  Regular(Here)'
<1> DEFINE c == [Here EXCEPT !.cur = s]
           y == IF srv.before # s THEN CheckIfNonePending(c) ELSE c
<1>1. Here \in Client
  BY HereClient
<1>2. c \in Client /\ c.ses = Here.ses /\ c.srv = Here.srv /\ c.wire = Here.wire
  BY <1>1 DEF Client
<1>3. Become(y)
  BY DEF TabSwitch
<1> HIDE DEF c
<1>4. Alike(Here, c)
  BY <1>2 DEF Alike, Like, Flags
<1>5. Tidy(c, Nobody, 0)
  BY <1>4, AlikeTidy DEF Who, Regular
<1>6. y \in Client /\ Tidy(y, Nobody, 0)
  BY <1>2, <1>5, NonePendingTidy DEF Who
<1> HIDE DEF y
<1>7. QED
  BY <1>3, <1>6, BecomeRegular DEF Regular

LEMMA ScrollRegular ==
    ASSUME Typed, Regular(Here), NEW s \in Sess, NEW ref \in {"ts", "msgid"},
           ScrollToGap(s, ref)
    PROVE  Regular(Here)'
<1> DEFINE y == RequestGapFill(Here, s, ref)
<1>1. Here \in Client
  BY HereClient
<1>2. Become(y)
  BY DEF ScrollToGap
<1>3. Nobody \in {s, Nobody} /\ Tidy(Here, Nobody, 0)
  BY DEF Regular
<1>4. y \in Client /\ Tidy(y, Nobody, 0)
  BY <1>1, <1>3, GapFillTidy
<1> HIDE DEF y
<1>5. QED
  BY <1>2, <1>4, BecomeRegular DEF Regular

LEMMA JoinRegular ==
    ASSUME Typed, Regular(Here), Plain, NEW s \in Sess, Join(s)
    PROVE  Regular(Here)'
<1> DEFINE r == [ses[s] EXCEPT !.joined = TRUE]
           x == Here
           y == Here'
<1>1. ses[s] \in SesRec /\ srv \in SrvRec /\ ses \in [Sess -> SesRec]
  BY DEF Typed
<1>2. /\ r.open = ses[s].open /\ r.joined = TRUE /\ r.act = ses[s].act
      /\ r.pend = ses[s].pend /\ r.chunk = ses[s].chunk /\ r.cat = ses[s].cat
      /\ r.bef = ses[s].bef
  BY <1>1 DEF SesRec
<1>3. ses' = [ses EXCEPT ![s] = r] /\ wire' = wire /\ srv' = [srv EXCEPT !.startT = TRUE]
  BY DEF Join
<1>4. srv.con /\ ~srv.settled
  BY DEF Join, Plain
<1> HIDE DEF r
<1>5. \A t \in Sess : ses'[t] = IF t = s THEN r ELSE ses[t]
  BY <1>1, <1>3
<1>6. /\ srv'.con = srv.con /\ srv'.supp = srv.supp /\ srv'.pending = srv.pending
      /\ srv'.before = srv.before /\ srv'.settled = srv.settled
      /\ srv'.wrap = srv.wrap /\ srv'.targets = srv.targets
  BY <1>1, <1>3 DEF SrvRec
<1>7. /\ x.ses = ses /\ x.srv = srv /\ x.wire = wire /\ y.ses = ses' /\ y.srv = srv'
      /\ y.wire = wire'
  BY DEF Here
<1>8. Regular(Here)' <=> Regular(y)
  BY DEF Here
<1>9. Regular(x)
  OBVIOUS
<1> HIDE DEF x, y
<1>10. \A t \in Sess : /\ Neat(ses[t], srv.con) => Neat(ses'[t], srv.con)
                       /\ Lines(ses[t], wire[t], srv.con) => Lines(ses'[t], wire[t], srv.con)
  BY <1>2, <1>5 DEF Neat, Lines
<1>11. Shaped(y, Nobody)
  BY <1>3, <1>6, <1>7, <1>9, <1>10 DEF Regular, Tidy, Shaped
<1>12. Num(x) = Num(y)
  <2>1. Waiters(x) = Waiters(y)
    BY <1>2, <1>5, <1>7 DEF Waiters, Waits
  <2>2. QED
    BY <2>1 DEF Num
<1>13. Counted(y, 0)
  BY <1>6, <1>7, <1>9, <1>12 DEF Regular, Tidy, Counted
<1>14. InTurn(y)
  BY <1>2, <1>5, <1>6, <1>7, <1>9 DEF Regular, Tidy, InTurn
<1>15. Phased(y)
  <2>1. \A t \in Sess : ses'[t].cat => ses[t].cat
    BY <1>2, <1>5
  <2>2. QED
    BY <1>4, <1>6, <1>7, <1>9, <2>1 DEF Regular, Tidy, Phased
<1>16. QED
  BY <1>8, <1>11, <1>13, <1>14, <1>15 DEF Regular, Tidy, Owes

\* A client at rest: at the start, and when the connection is made or lost.
LEMMA IdleRegular ==
    ASSUME NEW x, x.srv.con => \A t \in Sess : x.ses[t].chunk = NoChunk,
           x.srv.pending = 0, x.srv.before = Nobody, ~x.srv.startT, x.srv.wrap = "no",
           x.srv.targets = "no",
           \A t \in Sess :
             /\ x.ses[t].open /\ x.ses[t].act = NoReq /\ x.ses[t].pend = NoReq
             /\ ~x.ses[t].cat /\ x.wire[t] = 0
             /\ x.ses[t].chunk # NoChunk => ~x.ses[t].chunk.unsol /\ x.ses[t].chunk.owned
    PROVE  Regular(x)
<1>1. Shaped(x, Nobody)
  BY NoRequest DEF Shaped, Neat, Lines
<1>2. Num(x) = 0
  <2>1. Waiters(x) = {}
    BY DEF Waiters, Waits
  <2>2. QED
    BY <2>1, NumType
<1>3. Counted(x, 0)
  BY <1>2 DEF Counted
<1>4. InTurn(x) /\ Phased(x)
  BY DEF InTurn, Phased
<1>5. QED
  BY <1>1, <1>3, <1>4 DEF Regular, Tidy, Owes

LEMMA InitRegular == Init => Regular(Here)
<1> SUFFICES ASSUME Init PROVE Regular(Here)
  OBVIOUS
<1>1. Here.ses = ses /\ Here.srv = srv /\ Here.wire = wire
  BY DEF Here
<1>2. /\ ~srv.con /\ srv.pending = 0 /\ srv.before = Nobody /\ ~srv.startT /\ srv.wrap = "no"
      /\ srv.targets = "no"
  BY DEF Init, Offline
<1>3. \A t \in Sess :
        /\ ses[t].open /\ ses[t].act = NoReq /\ ses[t].pend = NoReq /\ ~ses[t].cat
        /\ wire[t] = 0 /\ ses[t].chunk = NoChunk
  BY DEF Init, Fresh
<1>4. QED
  BY <1>1, <1>2, <1>3, IdleRegular

LEMMA ConnectRegular ==
    ASSUME Regular(Here), NEW d \in BOOLEAN, Connect(d)
    PROVE  Regular(Here)'
<1>1. /\ ~srv.con /\ (\A s \in Sess : ses[s].chunk = NoChunk) /\ UNCHANGED <<ses, wire>>
      /\ srv' = [Offline EXCEPT !.con = TRUE, !.drives = d]
  BY DEF Connect
<1>2. \A t \in Sess : Neat(ses[t], srv.con) /\ Lines(ses[t], wire[t], srv.con)
  BY SessFacts DEF Regular, Tidy, Shaped, Here
<1>3. \A t \in Sess :
        /\ ses[t].open /\ ses[t].act = NoReq /\ ses[t].pend = NoReq /\ ~ses[t].cat
        /\ wire[t] = 0
  BY <1>1, <1>2 DEF Neat, Lines
<1>4. /\ srv'.pending = 0 /\ srv'.before = Nobody /\ ~srv'.startT /\ srv'.wrap = "no"
      /\ srv'.targets = "no"
  BY <1>1 DEF Offline
<1> DEFINE y == Here'
<1>5. y.ses = ses /\ y.srv = srv' /\ y.wire = wire
  BY <1>1 DEF Here
<1>6. Regular(Here)' <=> Regular(y)
  BY DEF Here
<1> HIDE DEF y
<1>7. QED
  BY <1>1, <1>3, <1>4, <1>5, <1>6, IdleRegular

LEMMA DisconnectRegular ==
    ASSUME Typed, Regular(Here), Plain, Disconnect
    PROVE  Regular(Here)'
<1>1. /\ ses' = [s \in Sess |-> IF s \in Channels THEN Left(s) ELSE ses[s]]
      /\ srv' = [Offline EXCEPT !.streak = srv.streak, !.supp = srv.supp]
      /\ wire' = [s \in Sess |-> 0] /\ "drop" \in Features
  BY DEF Disconnect, Left
<1>2. \A s \in Sess : ses'[s] = Left(s) /\ wire'[s] = 0
  BY <1>1 DEF Plain, Standard, Sess
<1>3. \A s \in Sess : /\ Left(s).open = ses[s].open /\ Left(s).chunk = ses[s].chunk
                      /\ Left(s).act = NoReq /\ Left(s).pend = NoReq /\ ~Left(s).cat
  <2> SUFFICES ASSUME NEW s \in Sess
               PROVE  /\ Left(s).open = ses[s].open /\ Left(s).chunk = ses[s].chunk
                      /\ Left(s).act = NoReq /\ Left(s).pend = NoReq /\ ~Left(s).cat
    OBVIOUS
  <2> DEFINE c == SetCat(Here, s, FALSE)
             q == QueueFree(c, s)
  <2>1. Here \in Client /\ Here.ses = ses /\ ses[s] \in SesRec
    BY HereClient DEF Typed
  <2>2. c \in Client
    BY <2>1, CatAside, SteadyAside
  <2>3. c.ses[s] = [ses[s] EXCEPT !.cat = FALSE]
    BY <2>1 DEF SetCat, Client
  <2>4. CancelCatchup(Here, s) = q
    BY DEF CancelCatchup, SetCat
  <2>5. c.ses[s].open = ses[s].open /\ c.ses[s].chunk = ses[s].chunk /\ ~c.ses[s].cat
    BY <2>1, <2>3 DEF SesRec
  <2> HIDE DEF c
  <2>6. /\ q.ses[s].act = NoReq /\ q.ses[s].pend = NoReq /\ q.ses[s].open = c.ses[s].open
        /\ q.ses[s].cat = c.ses[s].cat /\ q.ses[s].chunk = c.ses[s].chunk /\ q \in Client
    BY <2>2, FreeDoes DEF Only
  <2> HIDE DEF q
  <2>7. q.ses[s] \in SesRec
    BY <2>6, ClientFields
  <2>8. Left(s) = [q.ses[s] EXCEPT !.joined = FALSE]
    BY <2>4 DEF Left
  <2>9. /\ Left(s).open = q.ses[s].open /\ Left(s).chunk = q.ses[s].chunk
        /\ Left(s).act = q.ses[s].act /\ Left(s).pend = q.ses[s].pend
        /\ Left(s).cat = q.ses[s].cat
    BY <2>7, <2>8 DEF SesRec
  <2>10. QED
    BY <2>5, <2>6, <2>9
<1>4. \A t \in Sess : Neat(ses[t], srv.con)
  BY DEF Regular, Tidy, Shaped, Here
<1>5. \A t \in Sess :
        /\ ses[t].open /\ (ses[t].chunk # NoChunk => ~ses[t].chunk.unsol /\ ses[t].chunk.owned)
  BY <1>4 DEF Neat
<1>6. /\ ~srv'.con /\ srv'.pending = 0 /\ srv'.before = Nobody /\ ~srv'.startT
      /\ srv'.wrap = "no" /\ srv'.targets = "no"
  BY <1>1 DEF Offline
<1> DEFINE y == Here'
<1>7. y.ses = ses' /\ y.srv = srv' /\ y.wire = wire'
  BY DEF Here
<1>8. Regular(Here)' <=> Regular(y)
  BY DEF Here
<1> HIDE DEF y
<1>9. \A t \in Sess :
        /\ y.ses[t].open /\ y.ses[t].act = NoReq /\ y.ses[t].pend = NoReq /\ ~y.ses[t].cat
        /\ y.wire[t] = 0
        /\ y.ses[t].chunk # NoChunk => ~y.ses[t].chunk.unsol /\ y.ses[t].chunk.owned
  BY <1>2, <1>3, <1>5, <1>7
<1>10. QED
  BY <1>6, <1>7, <1>8, <1>9, IdleRegular

\* The deferred start for one session: it enters the LATEST phase, and waits unless requests
\* are suppressed.
Sent(x, s, y) ==
    /\ y # x /\ x.ses[s].act = NoReq /\ x.ses[s].joined
    /\ y.ses[s].open = x.ses[s].open /\ y.ses[s].joined = x.ses[s].joined
    /\ y.ses[s].pend = x.ses[s].pend /\ y.ses[s].chunk = x.ses[s].chunk
    /\ y.ses[s].cat /\ ~y.ses[s].bef
    /\ \/ x.srv.supp /\ y.ses[s].act = NoReq /\ y.wire[s] = x.wire[s]
       \/ /\ ~x.srv.supp /\ y.ses[s].act # NoReq /\ y.wire[s] = x.wire[s] + 1
          /\ y.ses[s].act.type = "latest" /\ y.ses[s].act.pri = CATCHUP

LEMMA DeferredDoes ==
    ASSUME NEW x \in Client, NEW s \in Sess, NEW ref \in {"ts", "msgid"}, x.srv.con,
           x.ses[s].pend # NoReq => x.ses[s].act # NoReq,
           NEW y, y = SendDeferredLatest(x, s, ref)
    PROVE  y = x \/ Sent(x, s, y)
<1> DEFINE e == EnterLatestPhase(x, s, ref)
           l == RequestLatest(e, s, ref)
           r == Req("latest", ref, CATCHUP)
<1>1. \/ y = x
      \/ x.ses[s].act = NoReq /\ Target(x, s) /\ y = AddPending(l)
  BY DEF SendDeferredLatest, AddPending, Loading
<1>2. CASE y = x
  BY <1>2
<1>3. CASE x.ses[s].act = NoReq /\ Target(x, s) /\ y = AddPending(l)
  <2>1. /\ r \in Request /\ r.type = "latest" /\ r.pri = CATCHUP /\ r # NoReq
    BY ReqType, NoRequest DEF Req, CATCHUP
  <2>2. Aside(x, e) /\ e \in Client
    BY EnterAside, SteadyAside
  <2>3. e.ses[s].cat /\ ~e.ses[s].bef /\ e.srv = x.srv
    <3>1. e.ses[s] = [x.ses[s] EXCEPT !.newest = ref, !.cat = TRUE, !.bef = FALSE] /\ e.srv = x.srv
      BY DEF EnterLatestPhase, Client
    <3>2. x.ses[s] \in SesRec
      BY ClientFields
    <3> HIDE DEF e
    <3>3. QED
      BY <3>1, <3>2 DEF SesRec
  <2> HIDE DEF e
  <2>4. /\ e.ses[s].open = x.ses[s].open /\ e.ses[s].joined = x.ses[s].joined
        /\ e.ses[s].act = NoReq /\ e.ses[s].pend = x.ses[s].pend
        /\ e.ses[s].chunk = x.ses[s].chunk /\ e.wire = x.wire /\ x.ses[s].pend = NoReq
    BY <1>3, <2>2 DEF Aside
  <2>5. l = DispatchNow(e, s, r)
    BY <2>3, <2>4 DEF RequestLatest, InferPriority, Submit, IsDup
  <2> HIDE DEF l, r
  <2>6. Dispatched(e, s, r, l)
    BY <2>1, <2>2, <2>5, DispatchDoes
  <2>7. Target(e, s)
    BY <1>3, <2>4 DEF Target
  <2>8. /\ l \in Client /\ l.srv = x.srv
        /\ \/ l = e /\ x.srv.supp
           \/ /\ ~x.srv.supp /\ l.wire[s] = e.wire[s] + 1 /\ l.ses[s].act = r
              /\ l.ses[s].open = e.ses[s].open /\ l.ses[s].joined = e.ses[s].joined
              /\ l.ses[s].pend = e.ses[s].pend /\ l.ses[s].cat = e.ses[s].cat
              /\ l.ses[s].bef = e.ses[s].bef /\ l.ses[s].chunk = e.ses[s].chunk
    BY <2>3, <2>6, <2>7, Zenon DEF Dispatched, Only
  <2>9. y.ses = l.ses /\ y.wire = l.wire
    BY <1>3, <2>8, PendingAside
  <2>10. y # x
    <3>1. y.srv.pending = l.srv.pending + 1 /\ l.srv.pending \in Nat
      BY <1>3, <2>8, ClientFields DEF AddPending, Client, SrvRec
    <3>2. QED
      BY <2>8, <3>1
  <2>11. x.ses[s].joined /\ x.ses[s].act = NoReq
    BY <1>3 DEF Target
  <2>12. CASE l = e /\ x.srv.supp
    BY <2>3, <2>4, <2>9, <2>10, <2>11, <2>12 DEF Sent
  <2>13. CASE ~(l = e /\ x.srv.supp)
    <3>1. y.ses[s].cat /\ ~y.ses[s].bef
      BY <2>3, <2>8, <2>9, <2>13, Zenon
    <3>2. /\ ~x.srv.supp /\ y.wire[s] = x.wire[s] + 1 /\ y.ses[s].act = r
          /\ y.ses[s].open = x.ses[s].open /\ y.ses[s].joined = x.ses[s].joined
          /\ y.ses[s].pend = x.ses[s].pend /\ y.ses[s].chunk = x.ses[s].chunk
      BY <2>4, <2>8, <2>9, <2>13
    <3>3. QED
      BY <2>1, <2>10, <2>11, <3>1, <3>2 DEF Sent
  <2>14. QED
    BY <2>12, <2>13
<1>4. QED
  BY <1>1, <1>2, <1>3

LEMMA DeferredStartRegular ==
    ASSUME Typed, Regular(Here), NEW ref \in [Sess -> {"ts", "msgid"}], DeferredStart(ref)
    PROVE  Regular(Here)'
<1> DEFINE sent(s) == SendDeferredLatest(Here, s, ref[s])
           S == {s \in Sess : sent(s) # Here}
           g == IF srv.targets = "deferred" THEN SendTargets ELSE srv.targets
           y == Here'
<1>1. Here \in Client /\ Here.ses = ses /\ Here.srv = srv /\ Here.wire = wire
  BY HereClient
<1>2. \A t \in Sess : Neat(ses[t], srv.con) /\ Lines(ses[t], wire[t], srv.con) /\ ~ses[t].cat
  BY <1>1, SessFacts DEF Regular, Tidy, Shaped, Phased, DeferredStart
<1>3. srv.con /\ srv.wrap = "no" /\ (srv.targets # "no" => "targets" \in Features)
  BY <1>1 DEF Regular, Tidy, Phased, DeferredStart
<1>4. \A s \in Sess : sent(s) = Here \/ Sent(Here, s, sent(s))
  <2> SUFFICES ASSUME NEW s \in Sess PROVE sent(s) = Here \/ Sent(Here, s, sent(s))
    OBVIOUS
  <2>1. ref[s] \in {"ts", "msgid"} /\ (Here.ses[s].pend # NoReq => Here.ses[s].act # NoReq)
        /\ Here.srv.con
    BY <1>1, <1>2, <1>3 DEF Neat
  <2>2. QED
    BY <1>1, <2>1, DeferredDoes
<1>5. /\ \A t \in Sess : ses'[t] = sent(t).ses[t] /\ wire'[t] = sent(t).wire[t]
  BY DEF DeferredStart
<1>6. srv' = [srv EXCEPT !.startT = FALSE, !.settled = TRUE, !.targets = g,
                         !.pending = Cardinality(S)]
  <2>1. srv \in SrvRec
    BY DEF Typed
  <2>2. srv' = [srv EXCEPT !.startT = FALSE, !.settled = TRUE,
                     !.targets = IF @ = "deferred" THEN SendTargets ELSE @,
                     !.pending = Cardinality(S)]
    BY DEF DeferredStart
  <2> HIDE DEF S
  <2>3. QED
    BY <2>1, <2>2 DEF SrvRec
<1> HIDE DEF sent, g
<1>7. /\ srv'.con = srv.con /\ srv'.supp = srv.supp /\ srv'.before = srv.before
      /\ ~srv'.startT /\ srv'.settled /\ srv'.wrap = srv.wrap
      /\ srv'.pending = Cardinality(S) /\ srv'.targets = g
  <2> HIDE DEF S
  <2>1. srv \in SrvRec
    BY DEF Typed
  <2>2. QED
    BY <1>6, <2>1 DEF SrvRec
<1>8. \A t \in Sess : \/ t \notin S /\ ses'[t] = ses[t] /\ wire'[t] = wire[t]
                      \/ t \in S /\ Sent(Here, t, sent(t))
  BY <1>1, <1>4, <1>5 DEF Sent
<1>9. y.ses = ses' /\ y.srv = srv' /\ y.wire = wire'
  BY DEF Here
<1>10. Regular(Here)' <=> Regular(y)
  BY DEF Here
<1> HIDE DEF y
<1>11. \A t \in S :
         /\ ses[t].act = NoReq /\ ses[t].joined
         /\ ses'[t].open = ses[t].open /\ ses'[t].joined = ses[t].joined
         /\ ses'[t].pend = ses[t].pend /\ ses'[t].chunk = ses[t].chunk
         /\ ses'[t].cat /\ ~ses'[t].bef
         /\ \/ srv.supp /\ ses'[t].act = NoReq /\ wire'[t] = wire[t]
            \/ /\ ~srv.supp /\ ses'[t].act # NoReq /\ wire'[t] = wire[t] + 1
               /\ ses'[t].act.type = "latest" /\ ses'[t].act.pri = CATCHUP
  BY <1>1, <1>5, <1>8 DEF Sent
<1>12. S \subseteq Sess
  OBVIOUS
<1>13. \A t \in Sess \ S : ses'[t] = ses[t] /\ wire'[t] = wire[t]
  BY <1>8
<1> HIDE DEF S
<1>14. Shaped(y, Nobody)
  <2> SUFFICES ASSUME NEW t \in Sess
               PROVE  Neat(ses'[t], srv.con) /\ Lines(ses'[t], wire'[t], srv.con)
    BY <1>7, <1>9 DEF Shaped
  <2>1. CASE t \notin S
    BY <1>2, <1>13, <2>1
  <2>2. CASE t \in S
    <3>1. Neat(ses[t], srv.con) /\ Lines(ses[t], wire[t], srv.con)
      BY <1>2
    <3>2. Neat(ses'[t], srv.con)
      BY <1>3, <1>11, <2>2, <3>1, NoRequest DEF Neat
    <3>3. Lines(ses'[t], wire'[t], srv.con)
      BY <1>3, <1>11, <2>2, <3>1 DEF Lines
    <3>4. QED
      BY <3>2, <3>3
  <2>3. QED
    BY <2>1, <2>2
<1>15. Counted(y, 0)
  <2>1. IsFiniteSet(S) /\ Cardinality(S) \in Nat
    BY <1>12, SessFacts, FS_Subset, FS_CardinalityType
  <2>2. y.srv.con /\ y.srv.pending = Cardinality(S)
    BY <1>3, <1>7, <1>9, Zenon
  <2>3. CASE ~srv.supp
    <3>1. Waiters(y) = S
      BY <1>2, <1>9, <1>11, <1>12, <1>13, <2>3 DEF Waiters, Waits
    <3>2. QED
      BY <2>1, <2>2, <3>1 DEF Counted, Num
  <2>4. CASE srv.supp
    <3>1. Waiters(y) = {}
      BY <1>2, <1>9, <1>11, <1>12, <1>13, <2>4 DEF Waiters, Waits
    <3>2. Num(y) = 0
      BY <3>1, NumType
    <3>3. y.srv.supp
      BY <1>7, <1>9, <2>4, Zenon
    <3>4. QED
      BY <2>1, <2>2, <3>2, <3>3 DEF Counted
  <2>5. QED
    BY <2>3, <2>4
<1>16. InTurn(y)
  BY <1>2, <1>9, <1>11, <1>13 DEF InTurn
<1>17. Phased(y)
  <2>1. g # "no" => srv.targets # "no"
    BY DEF g
  <2>2. QED
    BY <1>3, <1>7, <1>9, <2>1 DEF Phased
<1>18. QED
  BY <1>10, <1>14, <1>15, <1>16, <1>17 DEF Regular, Tidy, Owes

LEMMA NextRegular ==
    ASSUME Plain, Typed, Regular(Here), [Next]_vars
    PROVE  Regular(Here)'
<1>1. CASE UNCHANGED vars
  <2>1. Here' = Here
    BY <1>1 DEF vars, Here
  <2>2. QED
    BY <2>1
<1>2. CASE SystemStep
  <2>1. ~WrapperEnd
    BY DEF WrapperEnd, Regular, Tidy, Phased, Here
  <2>2. QED
    BY <1>2, <2>1, DeferredStartRegular, BeforeTimerRegular, ChunkDoneRegular, ReplyRegular,
       FailRegular DEF SystemStep, Answer
<1>3. CASE ServerStep
  <2>1. ~WrapperBegin
    BY DEF WrapperBegin, Plain
  <2>2. \A s \in Sess, b \in Batch, ref \in {"ts", "msgid"} : ~ReplayChild(s, b, ref)
    BY DEF ReplayChild, Regular, Tidy, Phased, Here
  <2>3. QED
    BY <1>3, <2>1, <2>2, ConnectRegular, EndOfMotdRegular, JoinRegular, DisconnectRegular,
       TargetsReplyRegular DEF ServerStep
<1>4. CASE UserStep
  <2>1. {"older", "part", "close", "quote"} \cap Features = {}
    BY DEF Plain
  <2>2. ~ScrollToTop /\ \A s \in Sess : ~Part(s)
    BY <2>1 DEF ScrollToTop, Part
  <2>3. \A s \in Sess, junk \in BOOLEAN : ~Close(s, junk)
    BY <2>1 DEF Close
  <2>4. \A s \in Sess, b \in Batch, ref \in {"ts", "msgid"} : ~QuotedBatch(s, b, ref)
    BY <2>1 DEF QuotedBatch
  <2>5. QED
    BY <1>4, <2>2, <2>3, <2>4, ScrollRegular, TabSwitchRegular DEF UserStep
<1>5. QED
  BY <1>1, <1>2, <1>3, <1>4 DEF Next

LEMMA AlwaysRegular == ASSUME Plain PROVE Spec => [](Typed /\ Regular(Here))
<1>1. Init => Typed /\ Regular(Here)
  BY InitTyped, InitRegular
<1>2. Typed /\ Regular(Here) /\ [Next]_vars => (Typed /\ Regular(Here))'
  <2> SUFFICES ASSUME Typed, Regular(Here), [Next]_vars PROVE (Typed /\ Regular(Here))'
    OBVIOUS
  <2>1. Typed'
    BY NextStepped DEF Stepped
  <2>2. Regular(Here)'
    BY NextRegular
  <2>3. QED
    BY <2>1, <2>2
<1>3. QED
  BY <1>1, <1>2, PTL DEF Spec

\* Whoever waits is a waiter, and nobody else is.
LEMMA AwaitingWaits ==
    ASSUME Regular(Here), NEW s \in Sess
    PROVE  Awaiting(s) <=> Waits(ses[s])
<1>1. Neat(ses[s], srv.con)
  BY DEF Regular, Tidy, Shaped, Here
<1>2. ses[s].cat => ses[s].pend.type # "latest"
  BY <1>1, NoRequest DEF Neat
<1>3. ~ses[s].chunk.unsol
  BY <1>1 DEF Neat, NoChunk, ChunkOf
<1>4. Awaiting(s) => Waits(ses[s])
  BY <1>2, <1>3, NoRequest DEF Awaiting, Waits
<1>5. Waits(ses[s]) => Awaiting(s)
  BY <1>1 DEF Awaiting, Waits, Neat
<1>6. QED
  BY <1>4, <1>5

\* A catch-up BEFORE is the request of the session in turn, and no slot is taken.
LEMMA BeforeInTurn ==
    ASSUME Typed, Regular(Here), NEW s \in Sess, CatchupBefore(s)
    PROVE  srv.before = s /\ \A t \in Sess : ~Awaiting(t)
<1>1. Neat(ses[s], srv.con)
  BY DEF Regular, Tidy, Shaped, Here
<1>2. ses[s].act # NoReq /\ ses[s].cat /\ ses[s].bef /\ srv.con
  BY <1>1, NoRequest DEF CatchupBefore, Neat
<1>3. srv.before = s /\ srv.pending = 0
  BY <1>2 DEF Regular, Tidy, InTurn, Here
<1>4. Num(Here) = 0
  BY <1>2, <1>3, NumType DEF Regular, Tidy, Counted, Here
<1>5. Waiters(Here) = {}
  BY <1>4, NumType
<1>6. \A t \in Sess : ~Waits(ses[t])
  BY <1>5 DEF Waiters, Here
<1>7. QED
  BY <1>3, <1>6, AwaitingWaits

(***************************************************************************)
(* chathistory_latest_pending counts the sessions that wait for the answer *)
(* to a LATEST, in every state of a connection that is not suppressed.     *)
(***************************************************************************)
THEOREM Slots == ASSUME Plain PROVE Spec => []SlotsMatchWaiters
<1>1. Typed /\ Regular(Here) => SlotsMatchWaiters
  <2> SUFFICES ASSUME Regular(Here), srv.con, ~srv.supp
               PROVE  srv.pending = Cardinality({s \in Sess : Awaiting(s)})
    BY DEF SlotsMatchWaiters
  <2>1. {s \in Sess : Awaiting(s)} = Waiters(Here)
    BY AwaitingWaits DEF Waiters, Here
  <2>2. srv.pending = Num(Here) + 0 /\ Num(Here) \in Nat
    BY NumType DEF Regular, Tidy, Counted, Here
  <2>3. QED
    BY <2>1, <2>2 DEF Num
<1>2. QED
  BY <1>1, AlwaysRegular, PTL

(***************************************************************************)
(* Two sessions never have a BEFORE of their catch-up in flight.           *)
(***************************************************************************)
THEOREM Turns == ASSUME Plain PROVE Spec => []OneBeforeAtATime
<1>1. Typed /\ Regular(Here) => OneBeforeAtATime
  BY BeforeInTurn DEF OneBeforeAtATime
<1>2. QED
  BY <1>1, AlwaysRegular, PTL

(***************************************************************************)
(* When a BEFORE of a catch-up is sent, nobody waits for a LATEST.         *)
(***************************************************************************)
THEOREM Order == ASSUME Plain PROVE Spec => BeforeAfterLatest
<1> DEFINE Calm == \A s \in Sess : CatchupBefore(s) => \A t \in Sess : ~Awaiting(t)
<1>1. Typed /\ Regular(Here) => Calm
  BY BeforeInTurn
<1>2. Calm' => \A s \in Sess : CatchupBefore(s)' /\ ~CatchupBefore(s) =>
                   \A t \in Sess : ~Awaiting(t)'
  OBVIOUS
<1> HIDE DEF Calm
<1>3. QED
  BY <1>1, <1>2, AlwaysRegular, PTL DEF BeforeAfterLatest

=============================================================================
