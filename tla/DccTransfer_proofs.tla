------------------------ MODULE DccTransfer_proofs -------------------------
(***************************************************************************)
(* Proofs about DccTransfer: one transfer at a time writes a file, what is *)
(* on disk can always be resumed, and a transfer that ended well left the  *)
(* file, for any number of transfers, any sizes of file, block, window and *)
(* modulus, and any number of clicks, limits and acknowledgements that     *)
(* come in pieces.                                                         *)
(***************************************************************************)
EXTENDS DccTransfer, TLAPS, SequenceTheorems, FiniteSetTheorems

Offer == [ctcp |-> "SEND"]
Accept == [ctcp |-> "ACCEPT"]
Resume(n) == [ctcp |-> "RESUME", at |-> n]

(***************************************************************************)
(* The inductive invariant.  It holds as long as the requests are orderly. *)
(***************************************************************************)
Snd == [stat : Stats, pos : Nat, ack : Nat, resumable : Nat, ackoffset : BOOLEAN,
        wiotag : BOOLEAN, throttled : BOOLEAN, garbled : BOOLEAN]
Rcv == [stat : Stats, pos : Nat, resumable : Nat, resume_sent : BOOLEAN, fp : BOOLEAN,
        file : Names, throttled : BOOLEAN]
\* As long as the requests are orderly each direction carries one CTCP message at a time.
ToS == {<<>>, <<Offer>>} \cup {<<Resume(n)>> : n \in Nat}
ToR == {<<>>, <<Offer>>, <<Accept>>}
Net == [data : Seq(Nat), acks : Seq(Nat), sok : {"none", "open"}, eofS : BOOLEAN,
        eofR : BOOLEAN, toS : ToS, toR : ToR]

Typed ==
    /\ cfg \in ConfigType
    /\ snd \in [Transfers -> Snd] /\ rcv \in [Transfers -> Rcv] /\ net \in [Transfers -> Net]
    /\ disk \in [Names -> Seq(Int)]

Live == {"CONNECTING", "ACTIVE"}
\* A receiver that waits for the ACCEPT, or resumes.
Resuming(r) == r.resume_sent /\ r.stat \notin Over

(***************************************************************************)
(* The receiver's record: a file is open only while the transfer is        *)
(* active, its name is chosen when it is opened, and only a RESUME makes   *)
(* a transfer connect with an offset.                                      *)
(***************************************************************************)
RcvOK(r) ==
    /\ r.resumable < cfg.size
    /\ r.fp => r.stat = "ACTIVE" /\ r.resumable <= r.pos
    /\ r.stat = "NONE" => ~r.resume_sent /\ r.resumable = 0
    /\ r.resume_sent => r.resumable > 0
    /\ r.stat \notin Over /\ ~r.fp => r.file = 0
    /\ r.stat \in Live /\ r.resumable > 0 => r.resume_sent
    /\ r.stat \in Live /\ r.resumable = 0 /\ ~r.fp => r.pos = 0
    /\ Resuming(r) => r.file = 0

(***************************************************************************)
(* The offer, RESUME and ACCEPT.  A RESUME that is under way names the     *)
(* offset of the receiver, and when its ACCEPT is, or when the receiver    *)
(* has gone on, both ends agree about it.                                  *)
(***************************************************************************)
Shaken(s, r, n) ==
    /\ s.pos <= cfg.size
    /\ s.stat = "NONE" => n.toR = <<>>
    /\ s.stat = "NONE" \/ n.toR = <<Offer>> => r.stat = "NONE"
    /\ r.stat = "NONE" => n.toS = <<>> /\ s.resumable = 0 /\ s.pos = 0
    /\ r.stat = "NONE" /\ s.stat # "NONE" => n.toR = <<Offer>>
    /\ r.stat \in {"NONE", "QUEUED"} => s.stat \notin Live /\ n.acks = <<>> /\ n.data = <<>>
    /\ ~r.resume_sent => s.resumable = 0 /\ n.toR # <<Accept>>
    /\ ~r.resume_sent /\ r.stat = "QUEUED" => n.toS = <<>> /\ s.pos = 0
    /\ n.toS = <<Offer>> => r.stat \in Live \cup Over
    /\ \A k \in Nat : n.toS = <<Resume(k)>> =>
        /\ r.resume_sent /\ k = r.resumable
        /\ n.toR = <<>> /\ r.stat \notin Live /\ s.stat \notin Live
    /\ n.toR = <<Accept>> =>
        /\ n.toS = <<>> /\ s.pos = r.resumable
        /\ r.stat \notin Live /\ s.stat \notin Live
    /\ s.resumable \in {0, r.resumable}

(***************************************************************************)
(* What is under way continues what the receiver has, and the sender is at *)
(* the end of it.                                                          *)
(***************************************************************************)
Base(r) == IF r.fp THEN r.pos ELSE r.resumable
Piece(from, len) == [i \in 1..len |-> from + i - 1]
Streams(s, r, n) ==
    /\ Len(n.data) <= Window
    /\ r.stat \in Live =>
        /\ n.data = Piece(Base(r), Len(n.data))
        /\ Base(r) + Len(n.data) <= cfg.size
        /\ s.stat \notin Over => s.pos = Base(r) + Len(n.data)

\* Below 4 GB an acknowledgement that was read whole is a position the receiver has reached.
Acked(s, r, n) ==
    cfg.size < Mod /\ ~s.garbled =>
        /\ ~s.ackoffset /\ s.ack <= cfg.size /\ (s.ack = cfg.size => r.stat = "DONE")
        /\ \A i \in 1..Len(n.acks) :
            /\ r.resumable <= n.acks[i] /\ n.acks[i] <= cfg.size
            /\ n.acks[i] = cfg.size => r.stat = "DONE"
        /\ s.stat = "DONE" => r.stat = "DONE"

EachOK ==
    \A t \in Transfers :
        /\ RcvOK(rcv[t])
        /\ Shaken(snd[t], rcv[t], net[t])
        /\ Streams(snd[t], rcv[t], net[t])
        /\ Acked(snd[t], rcv[t], net[t])

(***************************************************************************)
(* The files.  A receiver that resumes is alone with the file, which stays *)
(* as long as it was when the RESUME was sent.  Every file but the plain   *)
(* name was made by a transfer that still has it, so that there is a free  *)
(* name for the next one.                                                  *)
(***************************************************************************)
Begun == \A n \in Names : disk[n] = Absent \/ \E k \in Nat : disk[n] = Whole(k)
Written ==
    \A t \in Transfers :
        /\ rcv[t].fp => disk[rcv[t].file] = Whole(rcv[t].pos)
        /\ rcv[t].stat = "DONE" => disk[rcv[t].file] = Whole(cfg.size)
        /\ Resuming(rcv[t]) /\ ~rcv[t].fp => disk[0] = Whole(rcv[t].resumable)
Alone ==
    \A t, u \in Transfers : t # u =>
        /\ rcv[t].fp /\ rcv[u].fp => rcv[t].file # rcv[u].file
        /\ Resuming(rcv[t]) => ~Resuming(rcv[u]) /\ (rcv[u].fp => rcv[u].file # 0)
Owned == \A n \in Names \ {0} : disk[n] # Absent => \E t \in Transfers : rcv[t].file = n

Sound == Typed /\ EachOK /\ Begun /\ Written /\ Alone /\ Owned
HistOK ==
    /\ hist = [clash |-> hist.clash, unasked |-> hist.unasked, upset |-> hist.upset,
               clicks |-> hist.clicks, limits |-> hist.limits, splits |-> hist.splits]
    /\ hist.clash \in BOOLEAN /\ hist.unasked \in BOOLEAN
IInv == HistOK /\ (Orderly => Sound)

-----------------------------------------------------------------------------
(***************************************************************************)
(* Numbers and sequences.                                                  *)
(***************************************************************************)
LEMMA BelowMod ==
    ASSUME NEW x \in Nat, x < Mod
    PROVE  x % Mod = x /\ x \div Mod = 0
BY DccAssumption, SMT

LEMMA ModType ==
    ASSUME NEW x \in Nat
    PROVE  x % Mod \in Nat /\ x \div Mod \in Nat
BY DccAssumption, SMT

LEMMA ExtendType ==
    ASSUME NEW x \in Nat, NEW y \in Nat
    PROVE  (x \div Mod) * Mod + (y % Mod) \in Nat
<1>1. x \div Mod \in Nat /\ y % Mod \in Nat /\ Mod \in Nat
  BY ModType, DccAssumption
<1> DEFINE d == x \div Mod
           m == y % Mod
<1> HIDE DEF d, m
<1>2. d * Mod + m \in Nat
  <2>1. d \in Nat /\ m \in Nat /\ Mod \in Nat
    BY <1>1 DEF d, m
  <2>2. QED
    BY <2>1, SMT
<1>3. QED
  BY <1>2 DEF d, m

LEMMA PieceLen ==
    ASSUME NEW from \in Nat, NEW len \in Nat
    PROVE  /\ Piece(from, len) \in Seq(Nat) /\ Len(Piece(from, len)) = len
           /\ \A i \in 1..len : Piece(from, len)[i] = from + i - 1
BY DEF Piece

LEMMA PieceEmpty ==
    ASSUME NEW from \in Nat
    PROVE  Piece(from, 0) = <<>>
BY PieceLen, SeqEqual, EmptySeq

LEMMA PieceConcat ==
    ASSUME NEW from \in Nat, NEW j \in Nat, NEW k \in Nat
    PROVE  Piece(from, j) \o Piece(from + j, k) = Piece(from, j + k)
<1> DEFINE p == Piece(from, j)
           q == Piece(from + j, k)
           w == Piece(from, j + k)
<1>0. from + j \in Nat /\ j + k \in Nat
  OBVIOUS
<1>1. /\ p \in Seq(Nat) /\ Len(p) = j /\ \A i \in 1..j : p[i] = from + i - 1
      /\ q \in Seq(Nat) /\ Len(q) = k /\ \A i \in 1..k : q[i] = from + j + i - 1
      /\ w \in Seq(Nat) /\ Len(w) = j + k /\ \A i \in 1..j + k : w[i] = from + i - 1
  BY <1>0, PieceLen
<1> HIDE DEF p, q, w
<1>2. /\ p \o q \in Seq(Nat) /\ Len(p \o q) = j + k
      /\ \A i \in 1..j + k : (p \o q)[i] = IF i <= j THEN p[i] ELSE q[i - j]
  BY <1>1, ConcatProperties
<1>3. \A i \in 1..j + k : (p \o q)[i] = w[i]
  BY <1>1, <1>2, SMTT(30)
<1>4. p \o q = w
  BY <1>1, <1>2, <1>3, SeqEqual
<1>5. QED
  BY <1>4 DEF p, q, w

LEMMA WholeIsPiece ==
    ASSUME NEW k \in Nat
    PROVE  /\ Whole(k) = Piece(0, k) /\ Whole(k) \in Seq(Nat) /\ Len(Whole(k)) = k
           /\ Whole(k) \in Seq(Int) /\ Whole(k) # Absent
<1>1. Whole(k) = Piece(0, k)
  BY DEF Whole, Piece
<1>2. /\ Piece(0, k) \in Seq(Nat) /\ Len(Piece(0, k)) = k
      /\ \A i \in 1..k : Piece(0, k)[i] = 0 + i - 1
  BY PieceLen
<1>3. Piece(0, k) # Absent
  <2>1. CASE k = 1
    BY <1>2, <2>1 DEF Absent
  <2>2. CASE k # 1
    BY <1>2, <2>2 DEF Absent
  <2>3. QED
    BY <2>1, <2>2
<1>4. Piece(0, k) \in Seq(Int)
  BY <1>2, SeqMonotonic
<1>5. QED
  BY <1>1, <1>2, <1>3, <1>4

LEMMA WholeOnce ==
    ASSUME NEW j \in Nat, NEW k \in Nat, Whole(j) = Whole(k)
    PROVE  j = k
BY WholeIsPiece

LEMMA WholeGrows ==
    ASSUME NEW j \in Nat, NEW k \in Nat
    PROVE  Whole(j) \o Piece(j, k) = Whole(j + k)
<1>1. Piece(0, j) \o Piece(0 + j, k) = Piece(0, j + k)
  BY PieceConcat
<1>2. 0 + j = j /\ j + k \in Nat
  OBVIOUS
<1>3. QED
  BY <1>1, <1>2, WholeIsPiece

(***************************************************************************)
(* What the steps of the sender do to its record and its connection.       *)
(***************************************************************************)
LEMMA SndFields ==
    ASSUME NEW s \in Snd
    PROVE  /\ s.stat \in Stats /\ s.pos \in Nat /\ s.ack \in Nat /\ s.resumable \in Nat
           /\ s.ackoffset \in BOOLEAN /\ s.wiotag \in BOOLEAN /\ s.throttled \in BOOLEAN
           /\ s.garbled \in BOOLEAN
BY DEF Snd

LEMMA NetFields ==
    ASSUME NEW n \in Net
    PROVE  /\ n.data \in Seq(Nat) /\ n.acks \in Seq(Nat) /\ n.sok \in {"none", "open"}
           /\ n.eofS \in BOOLEAN /\ n.eofR \in BOOLEAN /\ n.toS \in ToS /\ n.toR \in ToR
           /\ Len(n.data) \in Nat /\ Len(n.acks) \in Nat
<1>1. /\ n.data \in Seq(Nat) /\ n.acks \in Seq(Nat) /\ n.sok \in {"none", "open"}
      /\ n.eofS \in BOOLEAN /\ n.eofR \in BOOLEAN /\ n.toS \in ToS /\ n.toR \in ToR
  BY DEF Net
<1>2. QED
  BY <1>1, LenProperties

LEMMA CfgFields ==
    ASSUME cfg \in ConfigType
    PROVE  /\ cfg.size \in Nat /\ cfg.size > 0 /\ cfg.old \in Nat /\ cfg.passive \in BOOLEAN
           /\ cfg.fast \in BOOLEAN /\ cfg.auto \in BOOLEAN /\ cfg.limit \in BOOLEAN
BY DEF ConfigType

\* What the properties know of a sender but its stat, pos and ack.
Keeps(s, s2) ==
    s2.resumable = s.resumable /\ s2.ackoffset = s.ackoffset /\ s2.garbled = s.garbled
\* Everything but the data in flight.
SameNet(n, n2) == n2.acks = n.acks /\ n2.toS = n.toS /\ n2.toR = n.toR

LEMMA HungUpEffect ==
    ASSUME NEW n \in Net, NEW m \in HungUp(n)
    PROVE  m \in Net /\ SameNet(n, m) /\ (m.data = n.data \/ m.data = <<>>)
<1>1. <<>> \in Seq(Nat)
  BY EmptySeq
<1>2. m = [n EXCEPT !.eofS = TRUE] \/ m = [n EXCEPT !.eofS = TRUE, !.data = <<>>]
  BY DEF HungUp
<1>3. QED
  BY <1>1, <1>2 DEF Net, SameNet

LEMMA ClosedSndEffect ==
    ASSUME NEW s \in Snd, NEW stat \in Stats
    PROVE  /\ ClosedSnd(s, stat) \in Snd /\ ClosedSnd(s, stat).stat = stat
           /\ ClosedSnd(s, stat).pos = s.pos /\ ClosedSnd(s, stat).ack = s.ack
           /\ Keeps(s, ClosedSnd(s, stat))
BY DEF ClosedSnd, Snd, Keeps

Fine(s, r, n) == Shaken(s, r, n) /\ Streams(s, r, n) /\ Acked(s, r, n)

\* A sender that gives up.
LEMMA FineClosed ==
    ASSUME cfg \in ConfigType, NEW s \in Snd, NEW r \in Rcv, NEW n \in Net, Fine(s, r, n),
           s.stat # "NONE", NEW stat \in Over, NEW m \in HungUp(n),
           stat = "DONE" /\ cfg.size < Mod /\ ~s.garbled => r.stat = "DONE"
    PROVE  ClosedSnd(s, stat) \in Snd /\ m \in Net /\ Fine(ClosedSnd(s, stat), r, m)
<1> DEFINE c == ClosedSnd(s, stat)
<1>1. c \in Snd /\ c.stat = stat /\ c.pos = s.pos /\ c.ack = s.ack /\ Keeps(s, c)
  BY ClosedSndEffect DEF Over, Stats
<1>2. m \in Net /\ SameNet(n, m) /\ (m.data = n.data \/ m.data = <<>>)
  BY HungUpEffect
<1>3. Len(<<>>) = 0 /\ Len(n.data) \in Nat /\ cfg.size \in Nat
  BY NetFields, CfgFields, EmptySeq
<1>4. stat \notin Live /\ stat # "NONE"
  BY DEF Over, Live
<1> HIDE DEF c
<1>5. Shaken(c, r, m)
  BY <1>1, <1>2, <1>4 DEF Fine, Shaken, Keeps, SameNet
<1>6. r.resumable \in Nat /\ r.pos \in Nat
  BY DEF Rcv
<1>7. \A b \in Nat : Piece(b, 0) = <<>>
  BY PieceEmpty
<1>8. Base(r) \in Nat
  BY <1>6 DEF Base
<1>9. Streams(c, r, m)
  BY <1>1, <1>2, <1>3, <1>7, <1>8, DccAssumption DEF Fine, Streams
<1>10. Acked(c, r, m)
  BY <1>1, <1>2 DEF Fine, Acked, Keeps, SameNet
<1>11. QED
  BY <1>1, <1>2, <1>5, <1>9, <1>10 DEF Fine, c

LEMMA LeastProps ==
    ASSUME NEW a \in Int, NEW b \in Int
    PROVE  Least(a, b) \in Int /\ Least(a, b) <= a /\ Least(a, b) <= b
           /\ (Least(a, b) = a \/ Least(a, b) = b)
BY DEF Least

\* dcc_send_data fails, or sends the next bytes (perhaps none).
LEMMA SendDataEffect ==
    ASSUME cfg \in ConfigType, NEW s \in Snd, NEW n \in Net, s.pos <= cfg.size,
           Len(n.data) <= Window, NEW p \in dcc_send_data(s, n)
    PROVE  \/ \E m \in HungUp(n) : p = <<ClosedSnd(s, "FAILED"), m>>
           \/ \E s2 \in Snd, n2 \in Net, k \in Nat :
                /\ p = <<s2, n2>>
                /\ s2.stat = s.stat /\ s2.ack = s.ack /\ Keeps(s, s2) /\ SameNet(n, n2)
                /\ s2.pos = s.pos + k /\ s2.pos <= cfg.size
                /\ n2.data = n.data \o Piece(s.pos, k) /\ Len(n.data) + k <= Window
<1> DEFINE len == Least(Block, cfg.size - s.pos)
           sent == Least(len, Window - Len(n.data))
           pos == s.pos + sent
           A == [s EXCEPT !.wiotag = FALSE]
           B == [s EXCEPT !.pos = pos, !.wiotag = cfg.fast /\ pos < cfg.size]
           D == [n EXCEPT !.data = @ \o Piece(s.pos, sent)]
<1>1. /\ cfg.size \in Nat /\ s.pos \in Nat /\ Len(n.data) \in Nat /\ n.data \in Seq(Nat)
      /\ Block \in Nat /\ Window \in Nat
  BY SndFields, NetFields, CfgFields, DccAssumption
<1>2. len \in Int /\ len <= cfg.size - s.pos /\ sent \in Int /\ sent <= len
      /\ sent <= Window - Len(n.data) /\ (sent = len \/ sent = Window - Len(n.data))
  <2>1. cfg.size - s.pos \in Int /\ Window - Len(n.data) \in Int /\ Block \in Int
    BY <1>1
  <2>2. len \in Int /\ len <= cfg.size - s.pos
    BY <2>1, LeastProps
  <2> HIDE DEF len
  <2>3. QED
    BY <2>1, <2>2, LeastProps
<1>3. \/ p = <<A, n>> \/ p = <<s, n>>
      \/ \E m \in HungUp(n) : p = <<ClosedSnd(s, "FAILED"), m>>
      \/ len >= 1 /\ p = <<B, D>>
  <2> DEFINE P == [i \in 1..sent |-> s.pos + i - 1]
             E == [n EXCEPT !.data = @ \o P]
             H == {<<ClosedSnd(s, "FAILED"), m>> : m \in HungUp(n)}
  <2>1. p \in IF s.throttled THEN {<<A, n>>}
              ELSE IF ~cfg.fast /\ s.ack < s.pos % Mod THEN {<<s, n>>}
              ELSE IF len < 1 THEN H ELSE {<<B, E>>}
    BY DEF dcc_send_data
  <2>2. D = E
    BY DEF Piece
  <2> HIDE DEF A, B, D, E, H, len
  <2>3. p = <<A, n>> \/ p = <<s, n>> \/ p \in H \/ (~(len < 1) /\ p = <<B, D>>)
    BY <2>1, <2>2
  <2>4. p \in H => \E m \in HungUp(n) : p = <<ClosedSnd(s, "FAILED"), m>>
    BY DEF H
  <2>5. QED
    BY <1>2, <2>3, <2>4
<1>4. n.data \o Piece(s.pos, 0) = n.data
  BY <1>1, PieceEmpty, ConcatEmptySeq
<1>5. A \in Snd /\ A.stat = s.stat /\ A.ack = s.ack /\ Keeps(s, A) /\ A.pos = s.pos
  BY DEF Snd, Keeps
<1>6. SameNet(n, n) /\ Keeps(s, s)
  BY DEF SameNet, Keeps
<1>7. ASSUME len >= 1
      PROVE  /\ B \in Snd /\ B.stat = s.stat /\ B.ack = s.ack /\ Keeps(s, B)
             /\ B.pos = s.pos + sent /\ sent \in Nat /\ B.pos <= cfg.size
             /\ D \in Net /\ SameNet(n, D) /\ D.data = n.data \o Piece(s.pos, sent)
             /\ Len(n.data) + sent <= Window
  <2>1. sent \in Nat /\ pos \in Nat /\ pos <= cfg.size /\ Len(n.data) + sent <= Window
    BY <1>1, <1>2, <1>7, SMTT(30)
  <2>2. Piece(s.pos, sent) \in Seq(Nat)
    BY <1>1, <2>1, PieceLen
  <2> DEFINE d == n.data \o Piece(s.pos, sent)
             w == cfg.fast /\ pos < cfg.size
  <2>3. d \in Seq(Nat)
    BY <1>1, <2>2, ConcatProperties
  <2>4. w \in BOOLEAN
    BY CfgFields
  <2> HIDE DEF sent, len, d, w
  <2>5. D = [n EXCEPT !.data = d]
    BY DEF d
  <2>6. B = [s EXCEPT !.pos = pos, !.wiotag = w]
    BY DEF w
  <2> HIDE DEF pos
  <2>7. /\ [s EXCEPT !.pos = pos, !.wiotag = w] \in Snd
        /\ Keeps(s, [s EXCEPT !.pos = pos, !.wiotag = w])
        /\ [s EXCEPT !.pos = pos, !.wiotag = w].stat = s.stat
        /\ [s EXCEPT !.pos = pos, !.wiotag = w].ack = s.ack
        /\ [s EXCEPT !.pos = pos, !.wiotag = w].pos = pos
    BY <2>1, <2>4 DEF Snd, Keeps
  <2>8. /\ [n EXCEPT !.data = d] \in Net /\ SameNet(n, [n EXCEPT !.data = d])
        /\ [n EXCEPT !.data = d].data = d
    BY <2>3 DEF Net, SameNet
  <2>9. QED
    BY <2>1, <2>5, <2>6, <2>7, <2>8 DEF d, pos
<1> HIDE DEF A, B, D
<1>8. CASE len >= 1 /\ p = <<B, D>>
  <2>1. /\ B \in Snd /\ B.stat = s.stat /\ B.ack = s.ack /\ Keeps(s, B)
        /\ B.pos = s.pos + sent /\ sent \in Nat /\ B.pos <= cfg.size
        /\ D \in Net /\ SameNet(n, D) /\ D.data = n.data \o Piece(s.pos, sent)
        /\ Len(n.data) + sent <= Window
    BY <1>7, <1>8
  <2> HIDE DEF sent
  <2>2. QED
    BY <1>8, <2>1, Zenon
<1>9. CASE p = <<A, n>>
  <2>1. A.pos = s.pos + 0 /\ A.pos <= cfg.size /\ Len(n.data) + 0 <= Window /\ 0 \in Nat
    BY <1>1, <1>5
  <2>2. QED
    BY <1>4, <1>5, <1>6, <1>9, <2>1, Zenon
<1>10. CASE p = <<s, n>>
  <2>1. s.pos = s.pos + 0 /\ Len(n.data) + 0 <= Window /\ 0 \in Nat
    BY <1>1
  <2>2. QED
    BY <1>4, <1>6, <1>10, <2>1, Zenon
<1>11. QED
  BY <1>3, <1>8, <1>9, <1>10

\* What goes out continues what is under way.
LEMMA FineSending ==
    ASSUME cfg \in ConfigType, NEW s \in Snd, NEW r \in Rcv, NEW n \in Net, Fine(s, r, n),
           s.stat = "ACTIVE", NEW p \in dcc_send_data(s, n)
    PROVE  \E s2 \in Snd, n2 \in Net : p = <<s2, n2>> /\ Fine(s2, r, n2)
<1>1. s.pos <= cfg.size /\ Len(n.data) <= Window
  BY DEF Fine, Shaken, Streams
<1>2. CASE \E m \in HungUp(n) : p = <<ClosedSnd(s, "FAILED"), m>>
  <2>1. PICK m \in HungUp(n) : p = <<ClosedSnd(s, "FAILED"), m>>
    BY <1>2
  <2>2. "FAILED" \in Over /\ "FAILED" # "DONE" /\ s.stat # "NONE"
    BY DEF Over
  <2>3. ClosedSnd(s, "FAILED") \in Snd /\ m \in Net /\ Fine(ClosedSnd(s, "FAILED"), r, m)
    BY <2>2, FineClosed
  <2>4. QED
    BY <2>1, <2>3
<1>3. CASE \E s2 \in Snd, n2 \in Net, k \in Nat :
                /\ p = <<s2, n2>>
                /\ s2.stat = s.stat /\ s2.ack = s.ack /\ Keeps(s, s2) /\ SameNet(n, n2)
                /\ s2.pos = s.pos + k /\ s2.pos <= cfg.size
                /\ n2.data = n.data \o Piece(s.pos, k) /\ Len(n.data) + k <= Window
  <2>1. PICK s2 \in Snd, n2 \in Net, k \in Nat :
                /\ p = <<s2, n2>>
                /\ s2.stat = s.stat /\ s2.ack = s.ack /\ Keeps(s, s2) /\ SameNet(n, n2)
                /\ s2.pos = s.pos + k /\ s2.pos <= cfg.size
                /\ n2.data = n.data \o Piece(s.pos, k) /\ Len(n.data) + k <= Window
    BY <1>3
  <2>2. r.stat \notin {"NONE", "QUEUED"}
    BY DEF Fine, Shaken, Live
  <2>3. Shaken(s2, r, n2)
    BY <2>1, <2>2 DEF Fine, Shaken, Keeps, SameNet, Live
  <2>4. /\ Len(n.data) \in Nat /\ n.data \in Seq(Nat) /\ s.pos \in Nat /\ cfg.size \in Nat
        /\ r.resumable \in Nat /\ r.pos \in Nat /\ Base(r) \in Nat /\ Window \in Nat
    BY NetFields, SndFields, CfgFields, DccAssumption DEF Rcv, Base
  <2>5. Len(n2.data) = Len(n.data) + k
    <3>1. Piece(s.pos, k) \in Seq(Nat) /\ Len(Piece(s.pos, k)) = k
      BY <2>4, PieceLen
    <3>2. Len(n.data \o Piece(s.pos, k)) = Len(n.data) + Len(Piece(s.pos, k))
      BY <2>4, <3>1, ConcatProperties, Zenon
    <3>3. QED
      BY <2>1, <3>1, <3>2
  <2>6. Streams(s2, r, n2)
    <3>1. Len(n2.data) <= Window
      BY <2>1, <2>5
    <3>2. ASSUME r.stat \in Live
          PROVE  /\ n2.data = Piece(Base(r), Len(n2.data))
                 /\ Base(r) + Len(n2.data) <= cfg.size
                 /\ s2.stat \notin Over => s2.pos = Base(r) + Len(n2.data)
      <4>1. n.data = Piece(Base(r), Len(n.data)) /\ s.pos = Base(r) + Len(n.data)
        BY <3>2 DEF Fine, Streams, Over
      <4>2. Piece(Base(r), Len(n.data)) \o Piece(Base(r) + Len(n.data), k)
                = Piece(Base(r), Len(n.data) + k)
        BY <2>4, PieceConcat, ZenonT(30)
      <4>3. n2.data = Piece(Base(r), Len(n2.data))
        BY <2>1, <2>5, <4>1, <4>2
      <4>4. s2.pos = Base(r) + Len(n2.data)
        BY <2>1, <2>4, <2>5, <4>1
      <4>5. QED
        BY <2>1, <4>3, <4>4
    <3>3. QED
      BY <3>1, <3>2 DEF Streams
  <2>7. Acked(s2, r, n2)
    BY <2>1 DEF Fine, Acked, Keeps, SameNet
  <2>8. QED
    BY <2>1, <2>3, <2>6, <2>7 DEF Fine
<1>4. QED
  BY <1>1, <1>2, <1>3, SendDataEffect

(***************************************************************************)
(* The steps of the sender.                                                *)
(***************************************************************************)
LEMMA RcvFields ==
    ASSUME NEW r \in Rcv
    PROVE  /\ r.stat \in Stats /\ r.pos \in Nat /\ r.resumable \in Nat /\ r.file \in Names
           /\ r.resume_sent \in BOOLEAN /\ r.fp \in BOOLEAN /\ r.throttled \in BOOLEAN
           /\ Base(r) \in Nat
BY DEF Rcv, Base

LEMMA OfTransfer ==
    ASSUME Sound, NEW t \in Transfers
    PROVE  /\ cfg \in ConfigType /\ snd[t] \in Snd /\ rcv[t] \in Rcv /\ net[t] \in Net
           /\ RcvOK(rcv[t]) /\ Fine(snd[t], rcv[t], net[t])
BY DEF Sound, Typed, EachOK, Fine

\* A step of the sender and its connection leaves the files and the receivers alone.
LEMMA SenderStep ==
    ASSUME Sound, NEW t \in Transfers, NEW s \in Snd, NEW n \in Net, Fine(s, rcv[t], n),
           snd' = [snd EXCEPT ![t] = s], net' = [net EXCEPT ![t] = n],
           UNCHANGED <<cfg, rcv, disk>>
    PROVE  Sound'
<1>1. Typed'
  BY DEF Sound, Typed
<1>2. EachOK'
  <2> SUFFICES ASSUME NEW u \in Transfers
               PROVE  /\ RcvOK(rcv[u])' /\ Shaken(snd[u], rcv[u], net[u])'
                      /\ Streams(snd[u], rcv[u], net[u])' /\ Acked(snd[u], rcv[u], net[u])'
    BY DEF EachOK
  <2>1. RcvOK(rcv[u]) /\ Fine(snd[u], rcv[u], net[u])
    BY OfTransfer
  <2>2. Fine(snd'[u], rcv[u], net'[u])
    BY <2>1 DEF Sound, Typed
  <2>3. RcvOK(rcv[u])' = RcvOK(rcv[u])
    BY DEF RcvOK
  <2>4. Shaken(snd[u], rcv[u], net[u])' = Shaken(snd'[u], rcv[u], net'[u])
    BY DEF Shaken
  <2>5. Streams(snd[u], rcv[u], net[u])' = Streams(snd'[u], rcv[u], net'[u])
    BY DEF Streams
  <2>6. Acked(snd[u], rcv[u], net[u])' = Acked(snd'[u], rcv[u], net'[u])
    BY DEF Acked
  <2>7. QED
    BY <2>1, <2>2, <2>3, <2>4, <2>5, <2>6 DEF Fine
<1>3. (Begun /\ Written /\ Alone /\ Owned)'
  BY DEF Sound, Begun, Written, Alone, Owned
<1>4. QED
  BY <1>1, <1>2, <1>3 DEF Sound

LEMMA SendsKeeps ==
    ASSUME Sound, NEW t \in Transfers, NEW s \in Snd, NEW n \in Net, Fine(s, rcv[t], n),
           s.stat = "ACTIVE", Sends(t, s, n), UNCHANGED <<cfg, rcv, disk>>
    PROVE  Sound'
<1>1. PICK p \in dcc_send_data(s, n) :
        snd' = [snd EXCEPT ![t] = p[1]] /\ net' = [net EXCEPT ![t] = p[2]]
  BY DEF Sends
<1>2. PICK s2 \in Snd, n2 \in Net : p = <<s2, n2>> /\ Fine(s2, rcv[t], n2)
  BY OfTransfer, FineSending
<1>3. snd' = [snd EXCEPT ![t] = s2] /\ net' = [net EXCEPT ![t] = n2]
  BY <1>1, <1>2
<1>4. QED
  BY <1>2, <1>3, SenderStep

LEMMA SameNetRecord ==
    ASSUME Sound, NEW t \in Transfers
    PROVE  net = [net EXCEPT ![t] = net[t]] /\ snd = [snd EXCEPT ![t] = snd[t]]
BY DEF Sound, Typed

\* A sender that goes on in another state, or is throttled.
LEMMA FineStat ==
    ASSUME cfg \in ConfigType, NEW s \in Snd, NEW r \in Rcv, NEW n \in Net, Fine(s, r, n),
           NEW s2 \in Snd, s.stat \notin Over, s.stat # "NONE",
           s2.pos = s.pos, s2.ack = s.ack, Keeps(s, s2),
           \/ s2.stat = s.stat
           \/ s2.stat \in Live /\ (s.stat \in Live \/ r.stat \in Live)
    PROVE  Fine(s2, r, n)
<1>1. r.stat \notin {"NONE", "QUEUED"} \/ s2.stat = s.stat
  BY DEF Fine, Shaken, Live
<1>2. s2.stat \notin Over /\ s2.stat # "NONE"
  BY DEF Live, Over
<1>3. Shaken(s2, r, n)
  BY <1>1, <1>2 DEF Fine, Shaken, Keeps
<1>4. Streams(s2, r, n)
  BY <1>2 DEF Fine, Streams
<1>5. Acked(s2, r, n)
  BY <1>2 DEF Fine, Acked, Keeps, Over
<1>6. QED
  BY <1>3, <1>4, <1>5 DEF Fine

LEMMA SendReadyKeeps ==
    ASSUME Sound, NEW t \in Transfers, SendReady(t)
    PROVE  Sound'
<1>1. snd[t].stat = "ACTIVE" /\ Sends(t, snd[t], net[t]) /\ UNCHANGED <<cfg, rcv, disk>>
  BY DEF SendReady
<1>2. QED
  BY <1>1, OfTransfer, SendsKeeps

LEMMA SenderAcceptsKeeps ==
    ASSUME Sound, NEW t \in Transfers, SenderAccepts(t)
    PROVE  Sound'
<1> DEFINE s == [snd[t] EXCEPT !.stat = "ACTIVE"]
           n == [net[t] EXCEPT !.sok = "open"]
<1>1. /\ snd[t].stat = "QUEUED" /\ rcv[t].stat = "CONNECTING" /\ Sends(t, s, n)
      /\ UNCHANGED <<cfg, rcv, disk>>
  BY DEF SenderAccepts
<1>2. /\ s \in Snd /\ s.stat = "ACTIVE" /\ s.pos = snd[t].pos /\ s.ack = snd[t].ack
      /\ Keeps(snd[t], s)
  BY OfTransfer DEF Snd, Stats, Keeps
<1>3. n \in Net /\ SameNet(net[t], n) /\ n.data = net[t].data
  BY OfTransfer DEF Net, SameNet
<1> HIDE DEF s, n
<1>4. Fine(s, rcv[t], net[t])
  BY <1>1, <1>2, OfTransfer, FineStat DEF Live, Over
<1>5. Fine(s, rcv[t], n)
  BY <1>3, <1>4 DEF Fine, Shaken, Streams, Acked, SameNet
<1>6. QED
  BY <1>1, <1>2, <1>3, <1>5, SendsKeeps

LEMMA SenderConnectedKeeps ==
    ASSUME Sound, NEW t \in Transfers, SenderConnected(t)
    PROVE  Sound'
<1> DEFINE s == [snd[t] EXCEPT !.stat = "ACTIVE"]
<1>1. /\ snd[t].stat = "CONNECTING" /\ Sends(t, s, net[t]) /\ UNCHANGED <<cfg, rcv, disk>>
  BY DEF SenderConnected
<1>2. /\ s \in Snd /\ s.stat = "ACTIVE" /\ s.pos = snd[t].pos /\ s.ack = snd[t].ack
      /\ Keeps(snd[t], s)
  BY OfTransfer DEF Snd, Stats, Keeps
<1> HIDE DEF s
<1>3. Fine(s, rcv[t], net[t])
  BY <1>1, <1>2, OfTransfer, FineStat DEF Live, Over
<1>4. QED
  BY <1>1, <1>2, <1>3, OfTransfer, SendsKeeps

LEMMA SenderThrottleKeeps ==
    ASSUME Sound, NEW t \in Transfers, snd[t].stat = "ACTIVE", NEW b \in BOOLEAN,
           UNCHANGED <<cfg, rcv, disk>>,
           \/ snd' = [snd EXCEPT ![t] = [snd[t] EXCEPT !.throttled = b]] /\ UNCHANGED net
           \/ Sends(t, [snd[t] EXCEPT !.throttled = b], net[t])
    PROVE  Sound'
<1> DEFINE s == [snd[t] EXCEPT !.throttled = b]
<1>1. /\ s \in Snd /\ s.stat = "ACTIVE" /\ s.pos = snd[t].pos /\ s.ack = snd[t].ack
      /\ Keeps(snd[t], s)
  BY OfTransfer DEF Snd, Keeps
<1>2. \/ snd' = [snd EXCEPT ![t] = s] /\ UNCHANGED net
      \/ Sends(t, s, net[t])
  OBVIOUS
<1> HIDE DEF s
<1>3. Fine(s, rcv[t], net[t])
  BY <1>1, OfTransfer, FineStat DEF Over
<1>4. CASE snd' = [snd EXCEPT ![t] = s] /\ UNCHANGED net
  BY <1>1, <1>3, <1>4, OfTransfer, SenderStep, SameNetRecord
<1>5. CASE Sends(t, s, net[t])
  BY <1>1, <1>3, <1>5, OfTransfer, SendsKeeps
<1>6. QED
  BY <1>2, <1>4, <1>5

(***************************************************************************)
(* One CTCP message at a time.                                             *)
(***************************************************************************)
LEMMA Single ==
    ASSUME NEW m
    PROVE  /\ Head(<<m>>) = m /\ Tail(<<m>>) = <<>> /\ Append(<<>>, m) = <<m>> /\ <<m>> # <<>>
           /\ \A k : <<m>> = <<k>> => m = k
OBVIOUS

LEMMA Messages ==
    /\ <<Offer>> # <<Accept>> /\ <<Offer>> # <<>> /\ <<Accept>> # <<>>
    /\ \A k : <<Resume(k)>> # <<>> /\ <<Resume(k)>> # <<Offer>>
    /\ \A j, k : <<Resume(j)>> = <<Resume(k)>> => j = k
    /\ Offer.ctcp = "SEND" /\ Accept.ctcp = "ACCEPT"
    /\ \A k : Resume(k).ctcp = "RESUME" /\ Resume(k).at = k
<1>1. Offer.ctcp = "SEND" /\ Accept.ctcp = "ACCEPT"
  BY DEF Offer, Accept
<1>2. \A k : Resume(k).ctcp = "RESUME" /\ Resume(k).at = k
  BY DEF Resume
<1>3. \A k : <<Resume(k)>> # <<>> /\ <<Resume(k)>> # <<Offer>>
  BY <1>1, <1>2, Single
<1>4. \A j, k : <<Resume(j)>> = <<Resume(k)>> => j = k
  BY <1>2, Single
<1>5. <<Offer>> # <<Accept>> /\ <<Offer>> # <<>> /\ <<Accept>> # <<>>
  BY <1>1, Single
<1>6. QED
  BY <1>1, <1>2, <1>3, <1>4, <1>5

LEMMA ToSMessage ==
    ASSUME NEW q \in ToS, q # <<>>
    PROVE  /\ Tail(q) = <<>>
           /\ Head(q).ctcp = "SEND" => q = <<Offer>>
           /\ Head(q).ctcp = "RESUME" => Head(q).at \in Nat /\ q = <<Resume(Head(q).at)>>
<1>1. CASE q = <<Offer>>
  BY <1>1, Single, Messages
<1>2. ASSUME NEW k \in Nat, q = <<Resume(k)>>
      PROVE  Tail(q) = <<>> /\ Head(q).ctcp = "RESUME" /\ Head(q).at = k
  BY <1>2, Single, Messages
<1>3. q = <<Offer>> \/ \E k \in Nat : q = <<Resume(k)>>
  BY DEF ToS
<1>4. QED
  BY <1>1, <1>2, <1>3

LEMMA ToRMessage ==
    ASSUME NEW q \in ToR, q # <<>>
    PROVE  /\ Tail(q) = <<>>
           /\ Head(q).ctcp = "SEND" => q = <<Offer>>
           /\ Head(q).ctcp = "ACCEPT" => q = <<Accept>>
<1>1. CASE q = <<Offer>>
  BY <1>1, Single, Messages
<1>2. CASE q = <<Accept>>
  BY <1>2, Single, Messages
<1>3. QED
  BY <1>1, <1>2 DEF ToR

LEMMA SenderAbortsKeeps ==
    ASSUME Sound, NEW t \in Transfers, SenderAborts(t)
    PROVE  Sound'
<1> DEFINE s == ClosedSnd(snd[t], "ABORTED")
<1>1. PICK m \in HungUp(net[t]) : net' = [net EXCEPT ![t] = m]
  BY DEF SenderAborts
<1>2. /\ snd[t].stat # "NONE" /\ UNCHANGED <<cfg, rcv, disk>>
      /\ snd' = [snd EXCEPT ![t] = s]
  BY DEF SenderAborts
<1>3. "ABORTED" \in Over /\ "ABORTED" # "DONE"
  BY DEF Over
<1>4. s \in Snd /\ m \in Net /\ Fine(s, rcv[t], m)
  BY <1>2, <1>3, OfTransfer, FineClosed
<1>5. QED
  BY <1>1, <1>2, <1>4, SenderStep

LEMMA AcksEndKeeps ==
    ASSUME Sound, NEW t \in Transfers, AcksEnd(t)
    PROVE  Sound'
<1> DEFINE s == ClosedSnd(snd[t], "FAILED")
           m == [net[t] EXCEPT !.eofS = TRUE]
<1>1. /\ snd[t].stat = "ACTIVE" /\ UNCHANGED <<cfg, rcv, disk>>
      /\ snd' = [snd EXCEPT ![t] = s] /\ net' = [net EXCEPT ![t] = m]
  BY DEF AcksEnd
<1>2. "FAILED" \in Over /\ "FAILED" # "DONE" /\ m \in HungUp(net[t])
  BY DEF Over, HungUp
<1>3. s \in Snd /\ m \in Net /\ Fine(s, rcv[t], m)
  BY <1>1, <1>2, OfTransfer, FineClosed
<1>4. QED
  BY <1>1, <1>3, SenderStep

LEMMA SenderRefused ==
    ASSUME Sound, NEW t \in Transfers, snd[t].stat = "CONNECTING",
           snd' = [snd EXCEPT ![t] = [snd[t] EXCEPT !.stat = "FAILED"]],
           UNCHANGED <<cfg, rcv, net, disk>>
    PROVE  Sound'
<1> DEFINE s == [snd[t] EXCEPT !.stat = "FAILED"]
<1>1. /\ s \in Snd /\ s.stat = "FAILED" /\ s.pos = snd[t].pos /\ s.ack = snd[t].ack
      /\ Keeps(snd[t], s)
  BY OfTransfer DEF Snd, Stats, Keeps
<1>2. snd' = [snd EXCEPT ![t] = s]
  OBVIOUS
<1> HIDE DEF s
<1>3. Fine(s, rcv[t], net[t])
  BY <1>1, OfTransfer DEF Fine, Shaken, Streams, Acked, Keeps, Live, Over
<1>4. net' = [net EXCEPT ![t] = net[t]] /\ UNCHANGED <<cfg, rcv, disk>>
  BY SameNetRecord
<1>5. QED
  BY <1>1, <1>2, <1>3, <1>4, OfTransfer, SenderStep

LEMMA dcc_sendKeeps ==
    ASSUME Sound, NEW t \in Transfers, dcc_send(t)
    PROVE  Sound'
<1> DEFINE s == [snd[t] EXCEPT !.stat = "QUEUED"]
           n == [net[t] EXCEPT !.toR = Append(@, [ctcp |-> "SEND"])]
<1>1. /\ snd[t].stat = "NONE" /\ UNCHANGED <<cfg, rcv, disk>>
      /\ snd' = [snd EXCEPT ![t] = s] /\ net' = [net EXCEPT ![t] = n]
  BY DEF dcc_send
<1>2. rcv[t].stat = "NONE" /\ net[t].toR = <<>> /\ net[t].toS = <<>>
  BY <1>1, OfTransfer DEF Fine, Shaken
<1>3. /\ s \in Snd /\ s.stat = "QUEUED" /\ s.pos = snd[t].pos /\ s.ack = snd[t].ack
      /\ Keeps(snd[t], s)
  BY OfTransfer DEF Snd, Stats, Keeps
<1>4. n = [net[t] EXCEPT !.toR = <<Offer>>]
  BY <1>2, Single DEF Offer
<1> HIDE DEF n, s
<1>5. /\ n \in Net /\ n.data = net[t].data /\ n.acks = net[t].acks /\ n.toR = <<Offer>>
      /\ n.toS = <<>>
  <2>1. <<Offer>> \in ToR
    BY DEF ToR
  <2>2. QED
    BY <1>2, <1>4, <2>1, OfTransfer DEF Net
<1>6. Shaken(s, rcv[t], n)
  BY <1>1, <1>2, <1>3, <1>5, OfTransfer, Messages DEF Fine, Shaken, Keeps, Live
<1>7. Streams(s, rcv[t], n) /\ Acked(s, rcv[t], n)
  BY <1>1, <1>2, <1>3, <1>5, OfTransfer DEF Fine, Streams, Acked, Keeps, Live
<1>8. QED
  BY <1>1, <1>3, <1>5, <1>6, <1>7, SenderStep DEF Fine

LEMMA HandleSendKeeps ==
    ASSUME Sound, NEW t \in Transfers, HandleSend(t)
    PROVE  Sound'
<1>0. PICK stat \in {"CONNECTING", "FAILED"} :
        snd' = IF snd[t].stat = "QUEUED"
               THEN [snd EXCEPT ![t] = [snd[t] EXCEPT !.stat = stat]] ELSE snd
  BY DEF HandleSend
<1> DEFINE s == IF snd[t].stat = "QUEUED" THEN [snd[t] EXCEPT !.stat = stat] ELSE snd[t]
           n == [net[t] EXCEPT !.toS = Tail(@)]
<1>1. /\ net[t].toS # <<>> /\ Head(net[t].toS).ctcp = "SEND" /\ UNCHANGED <<cfg, rcv, disk>>
      /\ net' = [net EXCEPT ![t] = n]
  BY DEF HandleSend
<1>2. snd' = [snd EXCEPT ![t] = s]
  BY <1>0, SameNetRecord
<1>3. net[t].toS = <<Offer>> /\ Tail(net[t].toS) = <<>>
  BY <1>1, OfTransfer, NetFields, ToSMessage
<1>4. rcv[t].stat \in Live \cup Over /\ net[t].toR # <<Accept>>
  BY <1>3, OfTransfer, Messages DEF Fine, Shaken
<1>5. /\ s \in Snd /\ s.pos = snd[t].pos /\ s.ack = snd[t].ack /\ Keeps(snd[t], s)
      /\ s.stat = snd[t].stat
            \/ (snd[t].stat = "QUEUED" /\ s.stat \in {"CONNECTING", "FAILED"})
  BY OfTransfer DEF Snd, Stats, Keeps
<1>6. n \in Net /\ n.data = net[t].data /\ n.acks = net[t].acks /\ n.toR = net[t].toR
      /\ n.toS = <<>>
  <2>1. <<>> \in ToS /\ n = [net[t] EXCEPT !.toS = <<>>]
    BY <1>3 DEF ToS
  <2> HIDE DEF n
  <2>2. QED
    BY <2>1, OfTransfer DEF Net
<1> HIDE DEF n, s
<1>7. Shaken(s, rcv[t], n)
  BY <1>3, <1>4, <1>5, <1>6, OfTransfer, Messages DEF Fine, Shaken, Keeps, Live, Over
<1>8. Streams(s, rcv[t], n) /\ Acked(s, rcv[t], n)
  BY <1>5, <1>6, OfTransfer DEF Fine, Streams, Acked, Keeps, Over
<1>9. QED
  BY <1>1, <1>2, <1>5, <1>6, <1>7, <1>8, SenderStep DEF Fine

\* A RESUME finds the sender where the receiver left it, and both agree from then on.
LEMMA HandleResumeKeeps ==
    ASSUME Sound, NEW t \in Transfers, HandleResume(t)
    PROVE  Sound'
<1> DEFINE at == Head(net[t].toS).at
           s == [snd[t] EXCEPT !.resumable = at, !.pos = at, !.ack = at]
           n == [net[t] EXCEPT !.toS = <<>>, !.toR = <<Accept>>]
<1>1. net[t].toS # <<>> /\ Head(net[t].toS).ctcp = "RESUME" /\ UNCHANGED <<cfg, rcv, disk>>
  BY DEF HandleResume
<1>2. net[t].toS = <<Resume(at)>> /\ at \in Nat /\ Tail(net[t].toS) = <<>>
  BY <1>1, OfTransfer, NetFields, ToSMessage
<1>3. /\ rcv[t].resume_sent /\ at = rcv[t].resumable /\ net[t].toR = <<>>
      /\ rcv[t].stat \notin Live /\ snd[t].stat \notin Live
  <2> HIDE DEF at
  <2>1. QED
    BY <1>2, OfTransfer DEF Fine, Shaken
<1>4. at < cfg.size /\ at > 0
  BY <1>3, OfTransfer DEF RcvOK
<1>5. snd' = [snd EXCEPT ![t] = s]
  <2>1. snd' = [snd EXCEPT ![t] = [[snd[t] EXCEPT !.resumable = at] EXCEPT !.pos = at, !.ack = at]]
    BY <1>4 DEF HandleResume
  <2> HIDE DEF at
  <2>2. s = [[snd[t] EXCEPT !.resumable = at] EXCEPT !.pos = at, !.ack = at]
    BY OfTransfer DEF Snd
  <2>3. QED
    BY <2>1, <2>2
<1>6. net' = [net EXCEPT ![t] = n]
  <2>1. net' = [net EXCEPT ![t].toS = Tail(@), ![t].toR = Append(@, [ctcp |-> "ACCEPT"])]
    BY <1>4 DEF HandleResume
  <2>2. Append(net[t].toR, [ctcp |-> "ACCEPT"]) = <<Accept>>
    BY <1>3, Single DEF Accept
  <2>3. net' = [net EXCEPT ![t] = [net[t] EXCEPT !.toS = Tail(@),
                                    !.toR = Append(@, [ctcp |-> "ACCEPT"])]]
    BY <2>1 DEF Sound, Typed, Net
  <2>4. [net[t] EXCEPT !.toS = Tail(@), !.toR = Append(@, [ctcp |-> "ACCEPT"])] = n
    BY <1>2, <2>2
  <2>5. QED
    BY <2>3, <2>4
<1> HIDE DEF at
<1>7. /\ s \in Snd /\ s.stat = snd[t].stat /\ s.pos = at /\ s.ack = at /\ s.resumable = at
      /\ s.ackoffset = snd[t].ackoffset /\ s.garbled = snd[t].garbled
  BY <1>2, OfTransfer DEF Snd
<1>8. /\ n \in Net /\ n.data = net[t].data /\ n.acks = net[t].acks /\ n.toS = <<>>
      /\ n.toR = <<Accept>>
  <2>1. <<>> \in ToS /\ <<Accept>> \in ToR
    BY DEF ToS, ToR
  <2>2. QED
    BY <2>1, OfTransfer DEF Net
<1> HIDE DEF n, s
<1>9. cfg.size \in Nat /\ rcv[t].stat # "NONE" /\ snd[t].stat # "NONE"
  BY <1>3, OfTransfer, CfgFields DEF Fine, Shaken, RcvOK
<1>10. Shaken(s, rcv[t], n)
  BY <1>2, <1>3, <1>4, <1>7, <1>8, <1>9, OfTransfer, Messages DEF Fine, Shaken
<1>11. Streams(s, rcv[t], n) /\ Acked(s, rcv[t], n)
  BY <1>2, <1>3, <1>4, <1>7, <1>8, <1>9, OfTransfer DEF Fine, Streams, Acked
<1>12. QED
  BY <1>1, <1>5, <1>6, <1>7, <1>8, <1>10, <1>11, SenderStep DEF Fine

(***************************************************************************)
(* Acknowledgements.                                                       *)
(***************************************************************************)
LEMMA AckReadEffect ==
    ASSUME cfg \in ConfigType, NEW s \in Snd, NEW a \in Nat
    PROVE  /\ AckRead(s, a) \in Snd /\ AckRead(s, a).stat = s.stat
           /\ AckRead(s, a).pos = s.pos /\ AckRead(s, a).resumable = s.resumable
           /\ AckRead(s, a).garbled = s.garbled
           /\ ~s.ackoffset /\ s.resumable <= a =>
                ~AckRead(s, a).ackoffset /\ AckRead(s, a).ack = a
<1> DEFINE offset == cfg.size < Mod /\ (s.ackoffset \/ a < s.resumable)
           b == s.ackoffset \/ offset
           k == IF offset THEN a + s.resumable ELSE a
<1>1. AckRead(s, a) = [s EXCEPT !.ackoffset = b, !.ack = k]
  BY DEF AckRead
<1>2. k \in Nat /\ b \in BOOLEAN /\ (~s.ackoffset /\ s.resumable <= a => ~b /\ k = a)
  BY SndFields
<1> HIDE DEF k, b
<1>3. QED
  BY <1>1, <1>2 DEF Snd

LEMMA ExtendedEffect ==
    ASSUME NEW s \in Snd
    PROVE  /\ Extended(s) \in Snd /\ Extended(s).stat = s.stat /\ Extended(s).pos = s.pos
           /\ Keeps(s, Extended(s))
           /\ s.pos < Mod /\ s.ack < Mod => Extended(s).ack = s.ack
<1> DEFINE k == (s.pos \div Mod) * Mod + (s.ack % Mod)
<1>1. k \in Nat
  BY SndFields, ExtendType
<1>2. s.pos < Mod /\ s.ack < Mod => k = s.ack
  <2> SUFFICES ASSUME s.pos < Mod, s.ack < Mod PROVE k = s.ack
    OBVIOUS
  <2>1. s.pos \div Mod = 0 /\ s.ack % Mod = s.ack /\ s.ack \in Nat /\ Mod \in Nat
    BY SndFields, BelowMod, DccAssumption
  <2>2. QED
    BY <2>1
<1>3. Extended(s) = [s EXCEPT !.ack = k]
  BY DEF Extended
<1> HIDE DEF k
<1>4. QED
  BY <1>1, <1>2, <1>3 DEF Snd, Keeps

LEMMA FineExtended ==
    ASSUME cfg \in ConfigType, NEW s \in Snd, NEW r \in Rcv, NEW n \in Net, Fine(s, r, n)
    PROVE  Extended(s) \in Snd /\ Fine(Extended(s), r, n)
<1> DEFINE e == Extended(s)
<1>1. /\ e \in Snd /\ e.stat = s.stat /\ e.pos = s.pos /\ Keeps(s, e)
      /\ s.pos < Mod /\ s.ack < Mod => e.ack = s.ack
  BY ExtendedEffect
<1>2. cfg.size \in Nat /\ s.pos \in Nat /\ s.ack \in Nat /\ Mod \in Nat
  BY CfgFields, SndFields, DccAssumption
<1> HIDE DEF e
<1>3. Shaken(e, r, n) /\ Streams(e, r, n)
  BY <1>1 DEF Fine, Shaken, Streams, Keeps
<1>4. Acked(e, r, n)
  <2>1. cfg.size < Mod /\ ~s.garbled => e.ack = s.ack
    BY <1>1, <1>2 DEF Fine, Acked, Shaken
  <2>2. QED
    BY <1>1, <2>1 DEF Fine, Acked, Keeps
<1>5. QED
  BY <1>1, <1>3, <1>4 DEF Fine, e

LEMMA FirstAck ==
    ASSUME NEW q \in Seq(Nat), q # <<>>
    PROVE  /\ Head(q) \in Nat /\ Head(q) = q[1] /\ 1 \in 1..Len(q) /\ Tail(q) \in Seq(Nat)
           /\ \A i \in 1..Len(Tail(q)) : i + 1 \in 1..Len(q) /\ Tail(q)[i] = q[i + 1]
<1>1. Len(q) \in Nat /\ Len(q) # 0 /\ Head(q) \in Nat /\ Tail(q) \in Seq(Nat)
      /\ Len(Tail(q)) = Len(q) - 1 /\ Head(q) = q[1]
  BY EmptySeq, HeadTailProperties, LenProperties
<1>2. \A i \in 1..Len(q) - 1 : Tail(q)[i] = q[i + 1]
  OBVIOUS
<1>3. QED
  BY <1>1, <1>2

LEMMA FineAckRead ==
    ASSUME cfg \in ConfigType, NEW s \in Snd, NEW r \in Rcv, NEW n \in Net, Fine(s, r, n),
           s.stat = "ACTIVE", n.acks # <<>>
    PROVE  /\ AckRead(s, Head(n.acks)) \in Snd /\ [n EXCEPT !.acks = Tail(@)] \in Net
           /\ AckRead(s, Head(n.acks)).stat = "ACTIVE"
           /\ Fine(AckRead(s, Head(n.acks)), r, [n EXCEPT !.acks = Tail(@)])
<1> DEFINE a == Head(n.acks)
           q == AckRead(s, a)
           m == [n EXCEPT !.acks = Tail(@)]
<1>1. /\ a \in Nat /\ a = n.acks[1] /\ 1 \in 1..Len(n.acks) /\ Tail(n.acks) \in Seq(Nat)
      /\ \A i \in 1..Len(Tail(n.acks)) :
            i + 1 \in 1..Len(n.acks) /\ Tail(n.acks)[i] = n.acks[i + 1]
  BY NetFields, FirstAck
<1>2. /\ q \in Snd /\ q.stat = s.stat /\ q.pos = s.pos /\ q.resumable = s.resumable
      /\ q.garbled = s.garbled
      /\ ~s.ackoffset /\ s.resumable <= a => ~q.ackoffset /\ q.ack = a
  <2> HIDE DEF a
  <2>1. QED
    BY <1>1, AckReadEffect
<1>3. /\ m \in Net /\ m.data = n.data /\ m.toS = n.toS /\ m.toR = n.toR
      /\ m.acks = Tail(n.acks)
  BY <1>1 DEF Net
<1> HIDE DEF a, q, m
<1>4. /\ s.resumable \in Nat /\ r.resumable \in Nat /\ cfg.size \in Nat
      /\ s.resumable \in {0, r.resumable} /\ r.stat \notin {"NONE", "QUEUED"}
  BY SndFields, RcvFields, CfgFields DEF Fine, Shaken, Live
<1>5. Shaken(q, r, m)
  BY <1>2, <1>3, <1>4 DEF Fine, Shaken
<1>6. Streams(q, r, m)
  BY <1>2, <1>3 DEF Fine, Streams
<1>7. Acked(q, r, m)
  <2> SUFFICES ASSUME cfg.size < Mod, ~q.garbled
               PROVE  /\ ~q.ackoffset /\ q.ack <= cfg.size
                      /\ (q.ack = cfg.size => r.stat = "DONE")
                      /\ \A i \in 1..Len(m.acks) :
                            /\ r.resumable <= m.acks[i] /\ m.acks[i] <= cfg.size
                            /\ m.acks[i] = cfg.size => r.stat = "DONE"
                      /\ q.stat = "DONE" => r.stat = "DONE"
    BY DEF Acked
  <2>1. /\ ~s.ackoffset
        /\ \A i \in 1..Len(n.acks) :
            /\ r.resumable <= n.acks[i] /\ n.acks[i] <= cfg.size
            /\ n.acks[i] = cfg.size => r.stat = "DONE"
    BY <1>2 DEF Fine, Acked
  <2>2. r.resumable <= a /\ a <= cfg.size /\ (a = cfg.size => r.stat = "DONE")
    BY <1>1, <2>1
  <2>3. ~q.ackoffset /\ q.ack = a
    BY <1>1, <1>2, <1>4, <2>1, <2>2
  <2>4. \A i \in 1..Len(m.acks) :
            /\ r.resumable <= m.acks[i] /\ m.acks[i] <= cfg.size
            /\ m.acks[i] = cfg.size => r.stat = "DONE"
    BY <1>1, <1>3, <2>1
  <2>5. QED
    BY <1>2, <2>2, <2>3, <2>4
<1>8. QED
  BY <1>2, <1>3, <1>5, <1>6, <1>7 DEF Fine, a, q, m

\* An acknowledgement that came in pieces may say anything.
LEMMA FineGarbled ==
    ASSUME cfg \in ConfigType, NEW s \in Snd, NEW r \in Rcv, NEW n \in Net, Fine(s, r, n),
           s.stat = "ACTIVE", n.acks # <<>>, NEW a \in Nat
    PROVE  /\ [AckRead(s, a) EXCEPT !.garbled = TRUE] \in Snd
           /\ [n EXCEPT !.acks = Tail(@)] \in Net
           /\ [AckRead(s, a) EXCEPT !.garbled = TRUE].stat = "ACTIVE"
           /\ Fine([AckRead(s, a) EXCEPT !.garbled = TRUE], r, [n EXCEPT !.acks = Tail(@)])
<1> DEFINE k == AckRead(s, a)
           q == [k EXCEPT !.garbled = TRUE]
           m == [n EXCEPT !.acks = Tail(@)]
<1>1. k \in Snd /\ k.stat = s.stat /\ k.pos = s.pos /\ k.resumable = s.resumable
  BY AckReadEffect
<1> HIDE DEF k
<1>2. /\ q \in Snd /\ q.stat = s.stat /\ q.pos = s.pos /\ q.resumable = s.resumable
      /\ q.garbled
  BY <1>1 DEF Snd
<1>3. Tail(n.acks) \in Seq(Nat)
  BY NetFields, FirstAck
<1>4. m \in Net /\ m.data = n.data /\ m.toS = n.toS /\ m.toR = n.toR
  BY <1>3 DEF Net
<1> HIDE DEF q, m
<1>5. r.stat \notin {"NONE", "QUEUED"}
  BY DEF Fine, Shaken, Live
<1>6. Shaken(q, r, m)
  BY <1>2, <1>4, <1>5 DEF Fine, Shaken
<1>7. Streams(q, r, m) /\ Acked(q, r, m)
  BY <1>2, <1>4 DEF Fine, Streams, Acked
<1>8. QED
  BY <1>2, <1>4, <1>6, <1>7 DEF Fine, k, q, m

\* A sender that reports success has the receiver's word for it, or a garbled one.
LEMMA FineDone ==
    ASSUME cfg \in ConfigType, NEW s \in Snd, NEW r \in Rcv, NEW n \in Net, Fine(s, r, n),
           s.stat = "ACTIVE", Complete(s), NEW m \in HungUp(n)
    PROVE  /\ [ClosedSnd(s, "DONE") EXCEPT !.ack = cfg.size] \in Snd /\ m \in Net
           /\ Fine([ClosedSnd(s, "DONE") EXCEPT !.ack = cfg.size], r, m)
<1> DEFINE c == ClosedSnd(s, "DONE")
           d == [c EXCEPT !.ack = cfg.size]
<1>1. cfg.size \in Nat /\ s.ack \in Nat
  BY CfgFields, SndFields
<1>2. cfg.size < Mod /\ ~s.garbled => r.stat = "DONE"
  <2> SUFFICES ASSUME cfg.size < Mod, ~s.garbled PROVE r.stat = "DONE"
    OBVIOUS
  <2>1. cfg.size % Mod = cfg.size
    BY <1>1, BelowMod
  <2>2. s.ack = cfg.size
    BY <1>1, <2>1 DEF Complete, Fine, Acked
  <2>3. QED
    BY <2>2 DEF Fine, Acked
<1>3. "DONE" \in Over /\ s.stat # "NONE"
  BY DEF Over
<1>4. c \in Snd /\ m \in Net /\ Fine(c, r, m)
  BY <1>2, <1>3, FineClosed
<1> HIDE DEF c
<1>5. d \in Snd /\ d.stat = c.stat /\ d.pos = c.pos /\ Keeps(c, d) /\ d.ack = cfg.size
  BY <1>1, <1>4 DEF Snd, Keeps
<1>6. c.garbled = s.garbled
  BY ClosedSndEffect DEF c, Keeps, Stats
<1> HIDE DEF d
<1>7. Shaken(d, r, m) /\ Streams(d, r, m)
  BY <1>4, <1>5 DEF Fine, Shaken, Streams, Keeps
<1>8. Acked(d, r, m)
  BY <1>1, <1>2, <1>4, <1>5, <1>6 DEF Fine, Acked, Keeps
<1>9. QED
  BY <1>4, <1>5, <1>7, <1>8 DEF Fine, c, d

LEMMA NewAckKeeps ==
    ASSUME Sound, NEW t \in Transfers, NEW s \in Snd, s.stat = "ACTIVE",
           [net[t] EXCEPT !.acks = Tail(@)] \in Net,
           Fine(s, rcv[t], [net[t] EXCEPT !.acks = Tail(@)]),
           dcc_handle_new_ack(t, s), UNCHANGED <<cfg, rcv, disk>>
    PROVE  Sound'
<1> DEFINE n == [net[t] EXCEPT !.acks = Tail(@)]
           D == {<<[ClosedSnd(s, "DONE") EXCEPT !.ack = cfg.size], m>> : m \in HungUp(n)}
           P == IF Complete(s) THEN D
                ELSE IF ~cfg.fast /\ s.ack >= s.pos % Mod THEN dcc_send_data(s, n)
                ELSE {<<s, n>>}
<1>2. PICK p \in P : snd' = [snd EXCEPT ![t] = Extended(p[1])] /\ net' = [net EXCEPT ![t] = p[2]]
  BY DEF dcc_handle_new_ack
<1>3. n \in Net /\ Fine(s, rcv[t], n)
  OBVIOUS
<1> HIDE DEF n
<1>4. \E s2 \in Snd, n2 \in Net : p = <<s2, n2>> /\ Fine(s2, rcv[t], n2)
  <2>1. CASE Complete(s) /\ p \in D
    <3>1. PICK m \in HungUp(n) : p = <<[ClosedSnd(s, "DONE") EXCEPT !.ack = cfg.size], m>>
      BY <2>1
    <3>2. /\ [ClosedSnd(s, "DONE") EXCEPT !.ack = cfg.size] \in Snd /\ m \in Net
          /\ Fine([ClosedSnd(s, "DONE") EXCEPT !.ack = cfg.size], rcv[t], m)
      BY <1>3, <2>1, OfTransfer, FineDone
    <3>3. QED
      BY <3>1, <3>2
  <2>2. CASE p \in dcc_send_data(s, n)
    BY <1>3, <2>2, OfTransfer, FineSending
  <2>3. CASE p = <<s, n>>
    BY <1>3, <2>3
  <2>4. QED
    <3> HIDE DEF D
    <3>1. QED
      BY <2>1, <2>2, <2>3
<1>5. PICK s2 \in Snd, n2 \in Net : p = <<s2, n2>> /\ Fine(s2, rcv[t], n2)
  BY <1>4
<1>6. Extended(s2) \in Snd /\ Fine(Extended(s2), rcv[t], n2)
  BY <1>5, OfTransfer, FineExtended
<1>7. snd' = [snd EXCEPT ![t] = Extended(s2)] /\ net' = [net EXCEPT ![t] = n2]
  BY <1>2, <1>5
<1>8. QED
  BY <1>5, <1>6, <1>7, SenderStep

LEMMA ReadAckKeeps ==
    ASSUME Sound, NEW t \in Transfers, dcc_read_ack(t)
    PROVE  Sound'
<1>1. snd[t].stat = "ACTIVE" /\ net[t].acks # <<>> /\ UNCHANGED <<cfg, rcv, disk>>
  BY DEF dcc_read_ack
<1>2. CASE dcc_handle_new_ack(t, AckRead(snd[t], Head(net[t].acks)))
  BY <1>1, <1>2, OfTransfer, FineAckRead, NewAckKeeps
<1>3. ASSUME NEW a \in 0..Mod - 1,
             dcc_handle_new_ack(t, [AckRead(snd[t], a) EXCEPT !.garbled = TRUE])
      PROVE  Sound'
  <2>1. a \in Nat
    BY DccAssumption
  <2>2. QED
    BY <1>1, <1>3, <2>1, OfTransfer, FineGarbled, NewAckKeeps
<1>4. QED
  BY <1>2, <1>3 DEF dcc_read_ack

(***************************************************************************)
(* The steps of the receiver that leave the files alone.                   *)
(***************************************************************************)
\* Nobody else writes the plain name or is about to, and it is k bytes long.
Claims(t, k) ==
    /\ disk[0] = Whole(k)
    /\ \A u \in Transfers \ {t} : ~Resuming(rcv[u]) /\ (rcv[u].fp => rcv[u].file # 0)

LEMMA FineEach ==
    ASSUME Sound, cfg' = cfg,
           \A u \in Transfers : RcvOK(rcv'[u]) /\ Fine(snd'[u], rcv'[u], net'[u])
    PROVE  EachOK'
<1> SUFFICES ASSUME NEW u \in Transfers
             PROVE  /\ RcvOK(rcv[u])' /\ Shaken(snd[u], rcv[u], net[u])'
                    /\ Streams(snd[u], rcv[u], net[u])' /\ Acked(snd[u], rcv[u], net[u])'
  BY DEF EachOK
<1>1. RcvOK(rcv[u])' = RcvOK(rcv'[u])
  BY DEF RcvOK
<1>2. Shaken(snd[u], rcv[u], net[u])' = Shaken(snd'[u], rcv'[u], net'[u])
  BY DEF Shaken
<1>3. Streams(snd[u], rcv[u], net[u])' = Streams(snd'[u], rcv'[u], net'[u])
  BY DEF Streams
<1>4. Acked(snd[u], rcv[u], net[u])' = Acked(snd'[u], rcv'[u], net'[u])
  BY DEF Acked
<1>5. QED
  BY <1>1, <1>2, <1>3, <1>4 DEF Fine

LEMMA ReceiverStep ==
    ASSUME Sound, NEW t \in Transfers, NEW r \in Rcv, NEW n \in Net,
           RcvOK(r), Fine(snd[t], r, n),
           r.file = rcv[t].file, r.fp => rcv[t].fp /\ r.pos = rcv[t].pos,
           r.stat = "DONE" => rcv[t].stat = "DONE",
           Resuming(r) => \/ /\ Resuming(rcv[t]) /\ r.resumable = rcv[t].resumable
                             /\ rcv[t].fp => r.fp
                          \/ Claims(t, r.resumable),
           rcv' = [rcv EXCEPT ![t] = r], net' = [net EXCEPT ![t] = n],
           UNCHANGED <<cfg, snd, disk>>
    PROVE  Sound'
<1>1. Typed'
  BY DEF Sound, Typed
<1>2. rcv'[t] = r /\ net'[t] = n
      /\ \A u \in Transfers \ {t} : rcv'[u] = rcv[u] /\ net'[u] = net[u]
  BY DEF Sound, Typed
<1>3. EachOK'
  <2>1. \A u \in Transfers : RcvOK(rcv'[u]) /\ Fine(snd'[u], rcv'[u], net'[u])
    BY <1>2, OfTransfer
  <2>2. QED
    BY <2>1, FineEach
<1>4. Begun'
  BY DEF Sound, Begun
<1>5. Written'
  <2> SUFFICES ASSUME NEW u \in Transfers
               PROVE  /\ rcv'[u].fp => disk[rcv'[u].file] = Whole(rcv'[u].pos)
                      /\ rcv'[u].stat = "DONE" => disk[rcv'[u].file] = Whole(cfg.size)
                      /\ Resuming(rcv'[u]) /\ ~rcv'[u].fp => disk[0] = Whole(rcv'[u].resumable)
    BY DEF Written, Resuming
  <2>1. Written
    BY DEF Sound
  <2>2. CASE u # t
    BY <1>2, <2>1, <2>2 DEF Written
  <2>3. CASE u = t
    BY <1>2, <2>1, <2>3 DEF Written, Claims
  <2>4. QED
    BY <2>2, <2>3
<1>6. Alone'
  <2>1. Alone
    BY DEF Sound
  <2> SUFFICES ASSUME NEW a \in Transfers, NEW b \in Transfers, a # b
               PROVE  /\ rcv'[a].fp /\ rcv'[b].fp => rcv'[a].file # rcv'[b].file
                      /\ Resuming(rcv'[a]) =>
                            ~Resuming(rcv'[b]) /\ (rcv'[b].fp => rcv'[b].file # 0)
    BY DEF Alone, Resuming
  <2>2. rcv'[a].fp /\ rcv'[b].fp => rcv'[a].file # rcv'[b].file
    BY <1>2, <2>1 DEF Alone
  <2>3. CASE a = t
    BY <1>2, <2>1, <2>2, <2>3 DEF Alone, Claims
  <2>4. CASE b = t
    BY <1>2, <2>1, <2>2, <2>4 DEF Alone, Claims
  <2>5. CASE a # t /\ b # t
    BY <1>2, <2>1, <2>5 DEF Alone
  <2>6. QED
    BY <2>3, <2>4, <2>5
<1>7. Owned'
  BY <1>2 DEF Sound, Owned
<1>8. QED
  BY <1>1, <1>3, <1>4, <1>5, <1>6, <1>7 DEF Sound

LEMMA SameRcvRecord ==
    ASSUME Sound, NEW t \in Transfers
    PROVE  rcv = [rcv EXCEPT ![t] = rcv[t]]
BY DEF Sound, Typed

\* A receiver that stops.
LEMMA ReceiverStops ==
    ASSUME Sound, NEW t \in Transfers, rcv[t].stat \in {"QUEUED", "CONNECTING", "ACTIVE"},
           NEW r \in Rcv, NEW n \in Net, NEW stat \in {"FAILED", "ABORTED"},
           r.stat = stat, ~r.fp, r.file = rcv[t].file, r.resumable = rcv[t].resumable,
           r.resume_sent = rcv[t].resume_sent,
           SameNet(net[t], n), n.data = net[t].data,
           rcv' = [rcv EXCEPT ![t] = r], net' = [net EXCEPT ![t] = n],
           UNCHANGED <<cfg, snd, disk>>
    PROVE  Sound'
<1>1. RcvOK(rcv[t]) /\ Fine(snd[t], rcv[t], net[t])
  BY OfTransfer
<1>2. r.stat \in Over /\ r.stat \notin Live /\ r.stat \notin {"NONE", "QUEUED", "DONE"}
  BY DEF Over, Live
<1>3. RcvOK(r)
  BY <1>1, <1>2 DEF RcvOK, Resuming
<1>4. Shaken(snd[t], r, n)
  BY <1>1, <1>2 DEF Fine, Shaken, SameNet
<1>5. Streams(snd[t], r, n) /\ Acked(snd[t], r, n)
  BY <1>1, <1>2 DEF Fine, Streams, Acked, SameNet
<1>6. ~Resuming(r)
  BY <1>2 DEF Resuming
<1>7. QED
  BY <1>2, <1>3, <1>4, <1>5, <1>6, ReceiverStep DEF Fine

LEMMA ReceiverAbortsKeeps ==
    ASSUME Sound, NEW t \in Transfers, ReceiverAborts(t)
    PROVE  Sound'
<1> DEFINE r == ClosedRcv(rcv[t], "ABORTED")
           n == [net[t] EXCEPT !.eofR = TRUE]
<1>1. /\ rcv[t].stat \in {"QUEUED", "CONNECTING", "ACTIVE"} /\ UNCHANGED <<cfg, snd, disk>>
      /\ rcv' = [rcv EXCEPT ![t] = r] /\ net' = [net EXCEPT ![t] = n]
  BY DEF ReceiverAborts
<1>2. /\ r \in Rcv /\ r.stat = "ABORTED" /\ ~r.fp /\ r.file = rcv[t].file
      /\ r.resumable = rcv[t].resumable /\ r.resume_sent = rcv[t].resume_sent
  BY OfTransfer DEF ClosedRcv, Rcv, Stats
<1>3. n \in Net /\ SameNet(net[t], n) /\ n.data = net[t].data
  BY OfTransfer DEF Net, SameNet
<1> HIDE DEF r, n
<1>4. QED
  BY <1>1, <1>2, <1>3, ReceiverStops

LEMMA ReceiverRefused ==
    ASSUME Sound, NEW t \in Transfers, rcv[t].stat = "CONNECTING",
           rcv' = [rcv EXCEPT ![t] = [rcv[t] EXCEPT !.stat = "FAILED"]],
           UNCHANGED <<cfg, snd, net, disk>>
    PROVE  Sound'
<1> DEFINE r == [rcv[t] EXCEPT !.stat = "FAILED"]
<1>1. /\ r \in Rcv /\ r.stat = "FAILED" /\ r.fp = rcv[t].fp /\ r.file = rcv[t].file
      /\ r.resumable = rcv[t].resumable /\ r.resume_sent = rcv[t].resume_sent
  BY OfTransfer DEF Rcv, Stats
<1>2. ~rcv[t].fp
  BY OfTransfer DEF RcvOK
<1>3. rcv' = [rcv EXCEPT ![t] = r] /\ net' = [net EXCEPT ![t] = net[t]] 
      /\ SameNet(net[t], net[t])
  BY SameNetRecord DEF SameNet
<1> HIDE DEF r
<1>4. QED
  BY <1>1, <1>2, <1>3, OfTransfer, ReceiverStops

LEMMA RefusedKeeps ==
    ASSUME Sound, NEW t \in Transfers, Refused(t)
    PROVE  Sound'
<1>1. CASE /\ rcv[t].stat = "CONNECTING"
           /\ rcv' = [rcv EXCEPT ![t] = [rcv[t] EXCEPT !.stat = "FAILED"]]
           /\ UNCHANGED <<cfg, snd, net, disk>>
  BY <1>1, ReceiverRefused
<1>2. CASE /\ snd[t].stat = "CONNECTING"
           /\ snd' = [snd EXCEPT ![t] = [snd[t] EXCEPT !.stat = "FAILED"]]
           /\ UNCHANGED <<cfg, rcv, net, disk>>
  BY <1>2, SenderRefused
<1>3. QED
  BY <1>1, <1>2 DEF Refused

\* A receiver that goes on with the connection or is throttled.
LEMMA ReceiverGoesOn ==
    ASSUME Sound, NEW t \in Transfers, rcv[t].stat \in Live,
           NEW r \in Rcv, NEW n \in Net, r.stat = "ACTIVE", r.fp = rcv[t].fp,
           r.pos = rcv[t].pos, r.file = rcv[t].file, r.resumable = rcv[t].resumable,
           r.resume_sent = rcv[t].resume_sent,
           SameNet(net[t], n), n.data = net[t].data,
           rcv' = [rcv EXCEPT ![t] = r], net' = [net EXCEPT ![t] = n],
           UNCHANGED <<cfg, snd, disk>>
    PROVE  Sound'
<1>1. RcvOK(rcv[t]) /\ Fine(snd[t], rcv[t], net[t])
  BY OfTransfer
<1>2. /\ r.stat \in Live /\ r.stat \notin Over /\ rcv[t].stat \notin Over
      /\ rcv[t].stat \notin {"NONE", "QUEUED", "DONE"}
  BY DEF Over, Live
<1>3. RcvOK(r) /\ (Resuming(r) <=> Resuming(rcv[t])) /\ Base(r) = Base(rcv[t])
  BY <1>1, <1>2 DEF RcvOK, Resuming, Base
<1>4. Shaken(snd[t], r, n)
  BY <1>1, <1>2 DEF Fine, Shaken, SameNet, Live
<1>5. Streams(snd[t], r, n) /\ Acked(snd[t], r, n)
  BY <1>1, <1>2, <1>3 DEF Fine, Streams, Acked, SameNet
<1>6. QED
  BY <1>2, <1>3, <1>4, <1>5, ReceiverStep DEF Fine

LEMMA ReceiverThrottleKeeps ==
    ASSUME Sound, NEW t \in Transfers, rcv[t].stat = "ACTIVE", NEW b \in BOOLEAN,
           rcv' = [rcv EXCEPT ![t] = [rcv[t] EXCEPT !.throttled = b]],
           UNCHANGED <<cfg, snd, net, disk>>
    PROVE  Sound'
<1> DEFINE r == [rcv[t] EXCEPT !.throttled = b]
<1>1. /\ r \in Rcv /\ r.stat = "ACTIVE" /\ r.fp = rcv[t].fp /\ r.file = rcv[t].file
      /\ r.resumable = rcv[t].resumable /\ r.resume_sent = rcv[t].resume_sent
      /\ r.pos = rcv[t].pos
  BY OfTransfer DEF Rcv
<1>2. rcv' = [rcv EXCEPT ![t] = r] /\ net' = [net EXCEPT ![t] = net[t]]
      /\ SameNet(net[t], net[t]) /\ rcv[t].stat \in Live
  BY SameNetRecord DEF SameNet, Live
<1> HIDE DEF r
<1>3. QED
  BY <1>1, <1>2, OfTransfer, ReceiverGoesOn

LEMMA ThrottleKeeps ==
    ASSUME Sound, NEW t \in Transfers, Throttle(t)
    PROVE  Sound'
<1>1. CASE /\ snd[t].stat = "ACTIVE" /\ UNCHANGED <<cfg, rcv, net, disk>>
           /\ snd' = [snd EXCEPT ![t] = [snd[t] EXCEPT !.throttled = TRUE]]
  BY <1>1, SenderThrottleKeeps
<1>2. CASE /\ rcv[t].stat = "ACTIVE" /\ UNCHANGED <<cfg, snd, net, disk>>
           /\ rcv' = [rcv EXCEPT ![t] = [rcv[t] EXCEPT !.throttled = TRUE]]
  BY <1>2, ReceiverThrottleKeeps
<1>3. QED
  BY <1>1, <1>2 DEF Throttle

LEMMA UnthrottleKeeps ==
    ASSUME Sound, NEW t \in Transfers, dcc_unthrottle(t)
    PROVE  Sound'
<1>1. CASE /\ snd[t].stat = "ACTIVE" /\ UNCHANGED <<cfg, rcv, disk>>
           /\ Sends(t, [snd[t] EXCEPT !.throttled = FALSE], net[t])
  BY <1>1, SenderThrottleKeeps
<1>2. CASE /\ rcv[t].stat = "ACTIVE" /\ UNCHANGED <<cfg, snd, net, disk>>
           /\ rcv' = [rcv EXCEPT ![t] = [rcv[t] EXCEPT !.throttled = FALSE]]
  BY <1>2, ReceiverThrottleKeeps
<1>3. QED
  BY <1>1, <1>2 DEF dcc_unthrottle

LEMMA ReceiverConnectedKeeps ==
    ASSUME Sound, NEW t \in Transfers, ReceiverConnected(t)
    PROVE  Sound'
<1> DEFINE r == [rcv[t] EXCEPT !.stat = "ACTIVE"]
           n == IF cfg.passive THEN [net[t] EXCEPT !.sok = "open"] ELSE net[t]
<1>1. /\ rcv[t].stat = "CONNECTING" /\ UNCHANGED <<cfg, snd, disk>>
      /\ rcv' = [rcv EXCEPT ![t] = r]
  BY DEF ReceiverConnected
<1>2. net' = [net EXCEPT ![t] = n]
  BY SameNetRecord DEF ReceiverConnected
<1>3. /\ r \in Rcv /\ r.stat = "ACTIVE" /\ r.fp = rcv[t].fp /\ r.file = rcv[t].file
      /\ r.resumable = rcv[t].resumable /\ r.resume_sent = rcv[t].resume_sent
      /\ r.pos = rcv[t].pos
  BY OfTransfer DEF Rcv, Stats
<1>4. n \in Net /\ SameNet(net[t], n) /\ n.data = net[t].data
  BY OfTransfer DEF Net, SameNet
<1> HIDE DEF r, n
<1>5. QED
  BY <1>1, <1>2, <1>3, <1>4, ReceiverGoesOn DEF Live

(***************************************************************************)
(* Offers and requests.                                                    *)
(***************************************************************************)
LEMMA NamesZero == 0 \in Names /\ Names \subseteq Nat /\ Cardinality(Transfers) \in Nat
<1>1. Cardinality(Transfers) \in Nat
  BY DccAssumption, FS_CardinalityType
<1>2. QED
  BY <1>1 DEF Names

LEMMA UpdateEffect ==
    ASSUME Sound, NEW t \in Transfers, NEW r \in Rcv
    PROVE  LET q == update_is_resumable(t, r)
           IN /\ q \in Rcv /\ q.stat = r.stat /\ q.resume_sent = r.resume_sent
              /\ q.fp = r.fp /\ q.file = r.file /\ q.resumable < cfg.size
              /\ q.resumable > 0 =>
                    disk[r.file] = Whole(q.resumable) /\ ~InProgress(t, r)
<1> DEFINE have == IF disk[r.file] = Absent THEN 0 ELSE Len(disk[r.file])
           q == update_is_resumable(t, r)
<1>1. cfg.size \in Nat /\ cfg.size > 0 /\ r.file \in Names /\ r.pos \in Nat /\ r \in Rcv
  BY CfgFields, RcvFields DEF Sound, Typed
<1>2. have \in Nat /\ (have > 0 => disk[r.file] = Whole(have))
  BY <1>1, WholeIsPiece, SMTT(30) DEF Sound, Begun
<1>3. \/ q = [r EXCEPT !.resumable = 0, !.pos = 0]
      \/ q = [r EXCEPT !.resumable = have, !.pos = have] /\ have < cfg.size
            /\ ~(have > 0 /\ InProgress(t, r))
      \/ q = [r EXCEPT !.resumable = 0]
  <2> DEFINE X == [r EXCEPT !.resumable = 0, !.pos = 0]
             Y == [r EXCEPT !.resumable = have, !.pos = have]
             Z == [r EXCEPT !.resumable = 0]
  <2>1. q = IF have > 0 /\ InProgress(t, r) /\ have < cfg.size THEN X
            ELSE IF have < cfg.size THEN Y ELSE Z
    BY DEF update_is_resumable
  <2> HIDE DEF X, Y, Z, q, have
  <2>2. q = X \/ (q = Y /\ have < cfg.size /\ ~(have > 0 /\ InProgress(t, r))) \/ q = Z
    BY <2>1
  <2>3. QED
    BY <2>2 DEF X, Y, Z
<1> HIDE DEF have, q
<1>4. /\ q \in Rcv /\ q.stat = r.stat /\ q.resume_sent = r.resume_sent
      /\ q.fp = r.fp /\ q.file = r.file
      /\ q.resumable = 0
            \/ (q.resumable = have /\ have < cfg.size /\ ~(have > 0 /\ InProgress(t, r)))
  <2>1. CASE q = [r EXCEPT !.resumable = 0, !.pos = 0]
    BY <1>1, <2>1 DEF Rcv
  <2>2. CASE q = [r EXCEPT !.resumable = have, !.pos = have] /\ have < cfg.size
            /\ ~(have > 0 /\ InProgress(t, r))
    BY <1>1, <1>2, <2>2 DEF Rcv
  <2>3. CASE q = [r EXCEPT !.resumable = 0]
    BY <1>1, <2>3 DEF Rcv
  <2>4. QED
    BY <1>3, <2>1, <2>2, <2>3
<1>5. QED
  BY <1>1, <1>2, <1>4 DEF q

\* A queued receiver that has not asked: nothing is under way.
LEMMA Queued ==
    ASSUME Sound, NEW t \in Transfers, rcv[t].stat = "QUEUED", ~rcv[t].resume_sent
    PROVE  /\ net[t].toS = <<>> /\ net[t].toR = <<>> /\ net[t].data = <<>>
           /\ net[t].acks = <<>> /\ snd[t].pos = 0 /\ snd[t].resumable = 0
           /\ snd[t].stat \notin Live /\ snd[t].stat # "NONE"
           /\ ~rcv[t].fp /\ rcv[t].file = 0
<1>1. net[t].toR \in ToR
  BY OfTransfer, NetFields
<1>2. QED
  BY <1>1, OfTransfer DEF ToR, Fine, Shaken, RcvOK, Over

LEMMA NoAcks == 1..Len(<<>>) = {} /\ Len(<<>>) = 0
BY EmptySeq

\* A queued receiver whose offset is looked at again.
LEMMA FineQueued ==
    ASSUME Sound, NEW t \in Transfers, NEW r \in Rcv, r.stat = "QUEUED",
           ~r.resume_sent, ~r.fp, r.file = 0, r.resumable < cfg.size, NEW n \in Net,
           n.toS = <<>>, n.toR = <<>>, n.data = <<>>, n.acks = <<>>,
           snd[t].pos = 0, snd[t].resumable = 0, snd[t].stat \notin Live,
           snd[t].stat # "NONE", rcv[t].stat \in {"NONE", "QUEUED"}
    PROVE  RcvOK(r) /\ Fine(snd[t], r, n)
<1>1. RcvOK(r)
  BY DEF RcvOK, Live, Over, Resuming
<1>2. cfg.size \in Nat /\ cfg.size > 0 /\ Window \in Nat
  BY OfTransfer, CfgFields, DccAssumption
<1>3. Shaken(snd[t], r, n)
  BY <1>2, Messages DEF Shaken, Live
<1>4. Streams(snd[t], r, n)
  BY <1>2, NoAcks DEF Streams, Live
<1>5. Acked(snd[t], r, n)
  BY NoAcks, OfTransfer DEF Fine, Acked
<1>6. QED
  BY <1>1, <1>3, <1>4, <1>5 DEF Fine

LEMMA AddFileKeeps ==
    ASSUME Sound, NEW t \in Transfers, dcc_add_file(t)
    PROVE  Sound'
<1> DEFINE r0 == [NewRcv EXCEPT !.stat = "QUEUED"]
           r == update_is_resumable(t, r0)
           n == [net[t] EXCEPT !.toR = Tail(@)]
<1>1. /\ net[t].toR # <<>> /\ Head(net[t].toR).ctcp = "SEND" /\ UNCHANGED <<cfg, snd, disk>>
      /\ rcv' = [rcv EXCEPT ![t] = r] /\ net' = [net EXCEPT ![t] = n]
  BY DEF dcc_add_file
<1>2. net[t].toR = <<Offer>> /\ Tail(net[t].toR) = <<>>
  BY <1>1, OfTransfer, NetFields, ToRMessage
<1>3. /\ rcv[t].stat = "NONE" /\ snd[t].stat # "NONE" /\ ~rcv[t].fp /\ rcv[t].file = 0
      /\ net[t].toS = <<>> /\ net[t].data = <<>> /\ net[t].acks = <<>>
      /\ snd[t].pos = 0 /\ snd[t].resumable = 0 /\ snd[t].stat \notin Live
  BY <1>2, OfTransfer, Messages DEF Fine, Shaken, RcvOK, Over
<1>4. r0 \in Rcv /\ r0.stat = "QUEUED" /\ ~r0.resume_sent /\ ~r0.fp /\ r0.file = 0
  BY NamesZero DEF NewRcv, Rcv, Stats
<1> HIDE DEF r0
<1>5. /\ r \in Rcv /\ r.stat = "QUEUED" /\ ~r.resume_sent /\ ~r.fp /\ r.file = 0
      /\ r.resumable < cfg.size
  BY <1>4, UpdateEffect
<1> HIDE DEF r
<1>6. n = [net[t] EXCEPT !.toR = <<>>] /\ <<>> \in ToR
  BY <1>2 DEF ToR
<1> HIDE DEF n
<1>7. n \in Net /\ n.toS = <<>> /\ n.toR = <<>> /\ n.data = <<>> /\ n.acks = <<>>
  BY <1>3, <1>6, OfTransfer DEF Net
<1>8. RcvOK(r) /\ Fine(snd[t], r, n)
  BY <1>3, <1>5, <1>7, FineQueued
<1>9. ~Resuming(r) /\ r.stat # "DONE"
  BY <1>5 DEF Resuming
<1>10. QED
  BY <1>1, <1>3, <1>5, <1>7, <1>8, <1>9, ReceiverStep

\* A request that does not overlap with others.
LEMMA NoClash ==
    ASSUME Sound, NEW t \in Transfers, rcv[t].stat = "QUEUED", rcv[t].file = 0,
           ~Clashes(t, TRUE), ~InProgress(t, rcv[t])
    PROVE  \A u \in Transfers \ {t} : ~Resuming(rcv[u]) /\ (rcv[u].fp => rcv[u].file # 0)
<1> SUFFICES ASSUME NEW u \in Transfers \ {t}
             PROVE  ~Resuming(rcv[u]) /\ (rcv[u].fp => rcv[u].file # 0)
  OBVIOUS
<1>1. rcv[u] \in Rcv /\ RcvOK(rcv[u]) /\ rcv[u].stat \in Stats
  BY OfTransfer, RcvFields
<1>2. ASSUME Resuming(rcv[u]) PROVE FALSE
  <2>1. rcv[u].file = 0 /\ rcv[u].resume_sent /\ rcv[u].stat \notin Over
        /\ rcv[u].stat # "NONE"
    BY <1>1, <1>2 DEF RcvOK, Resuming
  <2>2. rcv[u].stat # "QUEUED"
    BY <2>1 DEF Clashes
  <2>3. rcv[u].stat \in {"CONNECTING", "ACTIVE"}
    BY <1>1, <2>1, <2>2 DEF Stats, Over
  <2>4. QED
    BY <2>1, <2>3 DEF InProgress
<1>3. ASSUME rcv[u].fp, rcv[u].file = 0 PROVE FALSE
  BY <1>1, <1>3 DEF RcvOK, InProgress
<1>4. QED
  BY <1>2, <1>3

LEMMA NotAsked ==
    ASSUME NEW t \in Transfers, NEW asks, ~Clashes(t, asks)
    PROVE  ~rcv[t].resume_sent
BY DEF Clashes

\* What the request of a transfer that may be resumed turns on.
Found(t) == update_is_resumable(t, rcv[t])

\* The receiver looks at the file again and, when there is something to resume, asks.
LEMMA ResumesKeeps ==
    ASSUME Sound, NEW t \in Transfers, rcv[t].stat = "QUEUED",
           ~Clashes(t, Found(t).resumable > 0), Resumes(t), UNCHANGED <<cfg, snd, disk>>
    PROVE  Sound'
<1> DEFINE r == update_is_resumable(t, rcv[t])
           q == [r EXCEPT !.resume_sent = TRUE]
           m == [ctcp |-> "RESUME", at |-> r.resumable]
           n == [net[t] EXCEPT !.toS = Append(@, m)]
<1>1. ~rcv[t].resume_sent
  BY NotAsked
<1>2. /\ net[t].toS = <<>> /\ net[t].toR = <<>> /\ net[t].data = <<>>
      /\ net[t].acks = <<>> /\ snd[t].pos = 0 /\ snd[t].resumable = 0
      /\ snd[t].stat \notin Live /\ snd[t].stat # "NONE"
      /\ ~rcv[t].fp /\ rcv[t].file = 0
  BY <1>1, Queued
<1>3. /\ r \in Rcv /\ r.stat = "QUEUED" /\ ~r.resume_sent /\ ~r.fp /\ r.file = 0
      /\ r.resumable < cfg.size
      /\ r.resumable > 0 => disk[0] = Whole(r.resumable) /\ ~InProgress(t, rcv[t])
  BY <1>1, <1>2, OfTransfer, UpdateEffect
<1>4. \/ r.resumable > 0 /\ rcv' = [rcv EXCEPT ![t] = q] /\ net' = [net EXCEPT ![t] = n]
      \/ rcv' = [rcv EXCEPT ![t] = r] /\ UNCHANGED net
  BY DEF Resumes
<1>5. CASE rcv' = [rcv EXCEPT ![t] = r] /\ UNCHANGED net
  <2> HIDE DEF r
  <2>1. RcvOK(r) /\ Fine(snd[t], r, net[t])
    BY <1>2, <1>3, OfTransfer, FineQueued
  <2>2. ~Resuming(r) /\ r.stat # "DONE"
    BY <1>3 DEF Resuming
  <2>3. net' = [net EXCEPT ![t] = net[t]]
    BY <1>5, SameNetRecord
  <2>4. QED
    BY <1>2, <1>3, <1>5, <2>1, <2>2, <2>3, OfTransfer, ReceiverStep
<1>6. CASE r.resumable > 0 /\ rcv' = [rcv EXCEPT ![t] = q] /\ net' = [net EXCEPT ![t] = n]
  <2>1. m = Resume(r.resumable) /\ r.resumable \in Nat
    BY <1>3, RcvFields DEF Resume
  <2>2. n = [net[t] EXCEPT !.toS = <<Resume(r.resumable)>>]
    BY <1>2, <2>1, Single
  <2> HIDE DEF r, m, n
  <2>3. /\ q \in Rcv /\ q.stat = "QUEUED" /\ q.resume_sent /\ ~q.fp /\ q.file = 0
        /\ q.resumable = r.resumable
    BY <1>3 DEF Rcv
  <2> HIDE DEF q
  <2>4. /\ n \in Net /\ n.toS = <<Resume(r.resumable)>> /\ n.toR = <<>>
        /\ n.data = <<>> /\ n.acks = <<>>
    <3>1. <<Resume(r.resumable)>> \in ToS
      BY <2>1 DEF ToS
    <3> DEFINE w == <<Resume(r.resumable)>>
    <3> HIDE DEF w
    <3>2. n = [net[t] EXCEPT !.toS = w] /\ w \in ToS
      BY <2>2, <3>1 DEF w
    <3>3. n \in Net /\ n.toS = w /\ n.toR = <<>> /\ n.data = <<>> /\ n.acks = <<>>
      BY <1>2, <3>2, OfTransfer DEF Net
    <3>4. QED
      BY <3>3 DEF w
  <2>5. cfg.size \in Nat /\ cfg.size > 0 /\ Window \in Nat
    BY OfTransfer, CfgFields, DccAssumption
  <2>6. RcvOK(q)
    BY <1>3, <1>6, <2>3 DEF RcvOK, Live, Over, Resuming
  <2>7. Shaken(snd[t], q, n)
    BY <1>2, <1>6, <2>1, <2>3, <2>4, <2>5, Messages DEF Shaken, Live
  <2>8. Streams(snd[t], q, n)
    BY <2>3, <2>4, <2>5, NoAcks DEF Streams, Live
  <2>9. Acked(snd[t], q, n)
    BY <2>3, <2>4, NoAcks, OfTransfer DEF Fine, Acked
  <2>10. Claims(t, q.resumable)
    <3>1. ~Clashes(t, TRUE)
      BY <1>6 DEF Clashes, Found, r
    <3>2. ~InProgress(t, rcv[t]) /\ disk[0] = Whole(q.resumable)
      BY <1>3, <1>6, <2>3
    <3>3. QED
      BY <1>2, <3>1, <3>2, NoClash DEF Claims
  <2>11. QED
    BY <1>2, <1>6, <2>3, <2>4, <2>6, <2>7, <2>8, <2>9, <2>10, ReceiverStep DEF Fine
<1>7. QED
  BY <1>4, <1>5, <1>6

\* Both ends connect where they agree.
LEMMA ConnectKeeps ==
    ASSUME Sound, NEW t \in Transfers, rcv[t].stat = "QUEUED", NEW r \in Rcv,
           r.stat = "CONNECTING", ~r.fp, r.file = 0, rcv[t].file = 0,
           r.resumable < cfg.size, r.resumable = 0 => r.pos = 0,
           r.resume_sent = rcv[t].resume_sent, r.resume_sent <=> r.resumable > 0,
           r.resume_sent => r.resumable = rcv[t].resumable,
           snd[t].pos = r.resumable, snd[t].resumable \in {0, r.resumable},
           NEW n \in Net, n.data = <<>>, n.acks = <<>>, n.toS \in {<<>>, <<Offer>>},
           n.toR = <<>>, rcv' = [rcv EXCEPT ![t] = r], net' = [net EXCEPT ![t] = n],
           UNCHANGED <<cfg, snd, disk>>
    PROVE  Sound'
<1>1. /\ cfg.size \in Nat /\ cfg.size > 0 /\ Window \in Nat /\ r.resumable \in Nat
      /\ snd[t].resumable \in Nat
  BY OfTransfer, CfgFields, RcvFields, SndFields, DccAssumption
<1>2. r.stat \in Live /\ r.stat \notin Over /\ Base(r) = r.resumable /\ ~rcv[t].fp
      /\ snd[t].stat # "NONE"
  BY OfTransfer DEF Live, Over, Base, RcvOK, Fine, Shaken
<1>3. RcvOK(r)
  BY <1>1, <1>2 DEF RcvOK, Resuming
<1>4. Shaken(snd[t], r, n)
  <2>1. n.toR # <<Offer>> /\ n.toR # <<Accept>> /\ \A k \in Nat : n.toS # <<Resume(k)>>
    BY Messages
  <2>2. ~r.resume_sent => snd[t].resumable = 0
    BY <1>1
  <2>3. QED
    BY <1>1, <1>2, <2>1, <2>2 DEF Shaken
<1>5. Streams(snd[t], r, n)
  <2>1. Piece(r.resumable, 0) = <<>>
    BY <1>1, PieceEmpty
  <2>2. QED
    BY <1>1, <1>2, <2>1, NoAcks DEF Streams
<1>6. Acked(snd[t], r, n)
  BY NoAcks, OfTransfer DEF Fine, Acked
<1>7. Resuming(r) => Resuming(rcv[t]) /\ r.resumable = rcv[t].resumable
  BY DEF Resuming, Over
<1>8. QED
  BY <1>2, <1>3, <1>4, <1>5, <1>6, <1>7, ReceiverStep DEF Fine

\* A receiver that cannot connect.
LEMMA ConnectFails ==
    ASSUME Sound, NEW t \in Transfers, rcv[t].stat = "QUEUED", NEW r \in Rcv,
           r.stat = "FAILED", ~r.fp, r.file = 0, rcv[t].file = 0, r.resumable < cfg.size,
           r.resume_sent <=> r.resumable > 0, snd[t].resumable \in {0, r.resumable},
           NEW n \in Net, n.data = <<>>, n.acks = <<>>, n.toS = <<>>, n.toR = <<>>,
           rcv' = [rcv EXCEPT ![t] = r], net' = [net EXCEPT ![t] = n],
           UNCHANGED <<cfg, snd, disk>>
    PROVE  Sound'
<1>1. cfg.size \in Nat /\ Window \in Nat /\ r.resumable \in Nat /\ snd[t].resumable \in Nat
  BY OfTransfer, CfgFields, RcvFields, SndFields, DccAssumption
<1>2. r.stat \in Over /\ r.stat \notin Live /\ snd[t].stat # "NONE" /\ snd[t].pos <= cfg.size
  BY OfTransfer DEF Live, Over, Fine, Shaken
<1>3. RcvOK(r) /\ ~Resuming(r)
  BY <1>1, <1>2 DEF RcvOK, Resuming
<1>4. Shaken(snd[t], r, n)
  <2>1. n.toR # <<Offer>> /\ n.toR # <<Accept>> /\ \A k \in Nat : n.toS # <<Resume(k)>>
    BY Messages
  <2>2. ~r.resume_sent => snd[t].resumable = 0
    BY <1>1
  <2>3. QED
    BY <1>1, <1>2, <2>1, <2>2, Messages DEF Shaken
<1>5. Streams(snd[t], r, n)
  BY <1>1, <1>2, NoAcks DEF Streams
<1>6. Acked(snd[t], r, n)
  BY NoAcks, OfTransfer DEF Fine, Acked
<1>7. QED
  BY <1>2, <1>3, <1>4, <1>5, <1>6, ReceiverStep DEF Fine

\* dcc_connect, where both ends agree about the offset: M is what is under way without the
\* message that led here.
LEMMA dcc_connectKeeps ==
    ASSUME Sound, NEW t \in Transfers, rcv[t].stat = "QUEUED", NEW r0 \in Rcv,
           ~r0.fp, r0.file = 0, rcv[t].file = 0,
           r0.resumable < cfg.size, r0.resumable = 0 => r0.pos = 0,
           r0.resume_sent = rcv[t].resume_sent, r0.resume_sent <=> r0.resumable > 0,
           r0.resume_sent => r0.resumable = rcv[t].resumable,
           snd[t].pos = r0.resumable, snd[t].resumable \in {0, r0.resumable},
           NEW M \in Net, M.data = <<>>, M.acks = <<>>, M.toS = <<>>, M.toR = <<>>,
           NEW N, N = [net EXCEPT ![t] = M],
           dcc_connect(t, r0, N), UNCHANGED <<cfg, snd, disk>>
    PROVE  Sound'
<1>1. CASE rcv' = [rcv EXCEPT ![t] = [r0 EXCEPT !.stat = "FAILED"]] /\ net' = N
  <2> DEFINE r == [r0 EXCEPT !.stat = "FAILED"]
  <2>1. /\ r \in Rcv /\ r.stat = "FAILED" /\ ~r.fp /\ r.file = 0 /\ r.resumable = r0.resumable
        /\ r.resume_sent = r0.resume_sent
    BY DEF Rcv, Stats
  <2> HIDE DEF r
  <2>2. rcv' = [rcv EXCEPT ![t] = r] /\ net' = [net EXCEPT ![t] = M]
    BY <1>1 DEF r
  <2>3. QED
    BY <2>1, <2>2, ConnectFails
<1>2. CASE /\ rcv' = [rcv EXCEPT ![t] = [r0 EXCEPT !.stat = "CONNECTING"]]
           /\ net' = IF cfg.passive THEN [N EXCEPT ![t].toS = Append(@, [ctcp |-> "SEND"])] ELSE N
  <2> DEFINE r == [r0 EXCEPT !.stat = "CONNECTING"]
             n == IF cfg.passive THEN [M EXCEPT !.toS = <<Offer>>] ELSE M
  <2>1. /\ r \in Rcv /\ r.stat = "CONNECTING" /\ ~r.fp /\ r.file = 0 /\ r.pos = r0.pos
        /\ r.resumable = r0.resumable /\ r.resume_sent = r0.resume_sent
    BY DEF Rcv, Stats
  <2>2. rcv' = [rcv EXCEPT ![t] = r]
    BY <1>2
  <2> HIDE DEF r
  <2>3. net' = [net EXCEPT ![t] = n]
    <3>1. Append(M.toS, [ctcp |-> "SEND"]) = <<Offer>>
      BY Single DEF Offer
    <3>2. N[t] = M /\ net \in [Transfers -> Net]
      BY DEF Sound, Typed
    <3>3. CASE cfg.passive
      <4>1. net' = [N EXCEPT ![t].toS = Append(@, [ctcp |-> "SEND"])]
        BY <1>2, <3>3
      <4>2. net' = [N EXCEPT ![t] = [M EXCEPT !.toS = <<Offer>>]]
        BY <3>1, <3>2, <4>1
      <4>3. n = [M EXCEPT !.toS = <<Offer>>]
        BY <3>3
      <4> HIDE DEF n
      <4>4. QED
        BY <3>2, <4>2, <4>3
    <3>4. CASE ~cfg.passive
      BY <1>2, <3>4
    <3>5. QED
      BY <3>3, <3>4
  <2>4. /\ n \in Net /\ n.data = <<>> /\ n.acks = <<>> /\ n.toR = <<>>
        /\ n.toS \in {<<>>, <<Offer>>}
    <3>1. <<Offer>> \in ToS
      BY DEF ToS
    <3>2. CASE n = [M EXCEPT !.toS = <<Offer>>]
      <4> HIDE DEF n
      <4>1. QED
        BY <3>1, <3>2 DEF Net
    <3>3. CASE n = M
      BY <3>3
    <3>4. QED
      BY <3>2, <3>3
  <2> HIDE DEF n
  <2>5. QED
    BY <2>1, <2>2, <2>3, <2>4, ConnectKeeps
<1>3. QED
  BY <1>1, <1>2 DEF dcc_connect

LEMMA ClickEffect ==
    ASSUME HistOK, NEW c, NEW u, Click(c, u)
    PROVE  HistOK' /\ (Orderly' => Orderly /\ ~c /\ ~u)
<1>1. hist' = [hist EXCEPT !.clicks = @ + 1, !.clash = @ \/ c, !.unasked = @ \/ u]
  BY DEF Click
<1>2. hist'.clash = (hist.clash \/ c) /\ hist'.unasked = (hist.unasked \/ u) /\ HistOK'
  BY <1>1 DEF HistOK
<1>3. QED
  BY <1>2 DEF Orderly

LEMMA ResumesEffect ==
    ASSUME HistOK, NEW t \in Transfers, Resumes(t)
    PROVE  HistOK' /\ (Orderly' => Orderly /\ ~Clashes(t, Found(t).resumable > 0))
<1>1. CASE Found(t).resumable > 0 /\ Click(Clashes(t, TRUE), FALSE)
  BY <1>1, ClickEffect DEF Clashes
<1>2. CASE ~(Found(t).resumable > 0) /\ Click(Clashes(t, FALSE), FALSE)
  BY <1>2, ClickEffect DEF Clashes
<1>3. QED
  BY <1>1, <1>2 DEF Resumes, Found

LEMMA dcc_resumeKeeps ==
    ASSUME HistOK, NEW t \in Transfers, dcc_resume(t)
    PROVE  HistOK' /\ (Orderly' => Orderly /\ (Sound => Sound'))
<1>1. rcv[t].stat = "QUEUED" /\ UNCHANGED <<cfg, snd, disk>> /\ Resumes(t)
  BY DEF dcc_resume
<1>2. QED
  BY <1>1, ResumesKeeps, ResumesEffect

\* A receiver that has not asked connects to have the file from its start.
LEMMA FromStart ==
    ASSUME Sound, NEW t \in Transfers, rcv[t].stat = "QUEUED", ~rcv[t].resume_sent,
           NEW r0 \in Rcv, r0.resumable = 0, r0.pos = 0, r0.fp = rcv[t].fp,
           r0.file = rcv[t].file, r0.resume_sent = rcv[t].resume_sent,
           dcc_connect(t, r0, net), UNCHANGED <<cfg, snd, disk>>
    PROVE  Sound'
<1>1. /\ net[t].toS = <<>> /\ net[t].toR = <<>> /\ net[t].data = <<>>
      /\ net[t].acks = <<>> /\ snd[t].pos = 0 /\ snd[t].resumable = 0
      /\ ~rcv[t].fp /\ rcv[t].file = 0
  BY Queued
<1>2. cfg.size > 0 /\ cfg.size \in Nat /\ net[t] \in Net
  BY OfTransfer, CfgFields
<1>3. net = [net EXCEPT ![t] = net[t]]
  BY SameNetRecord
<1> DEFINE M == net[t]
<1>4. /\ M \in Net /\ M.data = <<>> /\ M.acks = <<>> /\ M.toS = <<>> /\ M.toR = <<>>
      /\ net = [net EXCEPT ![t] = M]
  BY <1>1, <1>2, <1>3
<1> HIDE DEF M
<1>5. /\ r0.resume_sent <=> r0.resumable > 0
      /\ r0.resumable < cfg.size /\ snd[t].pos = r0.resumable
      /\ snd[t].resumable \in {0, r0.resumable} /\ ~r0.fp /\ r0.file = 0 /\ ~r0.resume_sent
  BY <1>1, <1>2
<1>6. QED
  BY <1>1, <1>4, <1>5, dcc_connectKeeps

LEMMA dcc_getKeeps ==
    ASSUME HistOK, NEW t \in Transfers, dcc_get(t)
    PROVE  HistOK' /\ (Orderly' => Orderly /\ (Sound => Sound'))
<1> DEFINE r0 == [rcv[t] EXCEPT !.resumable = 0, !.pos = 0]
<1>1. rcv[t].stat = "QUEUED" /\ UNCHANGED <<cfg, snd, disk>>
  BY DEF dcc_get
<1>2. CASE Resumes(t)
  BY <1>1, <1>2, ResumesKeeps, ResumesEffect
<1>3. CASE dcc_connect(t, r0, net) /\ Click(Clashes(t, FALSE), FALSE)
  <2>1. HistOK' /\ (Orderly' => Orderly /\ ~Clashes(t, FALSE))
    BY <1>3, ClickEffect
  <2>2. ASSUME Sound, ~Clashes(t, FALSE) PROVE Sound'
    <3>1. ~rcv[t].resume_sent /\ rcv[t] \in Rcv
      BY <2>2, NotAsked, OfTransfer
    <3>2. /\ r0 \in Rcv /\ r0.resumable = 0 /\ r0.pos = 0 /\ r0.fp = rcv[t].fp
          /\ r0.file = rcv[t].file /\ r0.resume_sent = rcv[t].resume_sent
      BY <3>1 DEF Rcv
    <3> HIDE DEF r0
    <3>3. QED
      BY <1>1, <1>3, <2>2, <3>1, <3>2, FromStart
  <2>3. QED
    BY <2>1, <2>2
<1>4. QED
  BY <1>2, <1>3 DEF dcc_get

LEMMA dcc_get_nickKeeps ==
    ASSUME HistOK, NEW t \in Transfers, dcc_get_nick(t)
    PROVE  HistOK' /\ (Orderly' => Orderly /\ (Sound => Sound'))
<1> DEFINE r == Found(t)
           r0 == [r EXCEPT !.pos = 0]
<1>1. rcv[t].stat = "QUEUED" /\ UNCHANGED <<cfg, snd, disk>>
  BY DEF dcc_get_nick
<1>2. CASE Resumes(t)
  BY <1>1, <1>2, ResumesKeeps, ResumesEffect
<1>3. CASE dcc_connect(t, r0, net) /\ Click(Clashes(t, FALSE), r.resumable > 0)
  <2>1. HistOK' /\ (Orderly' => Orderly /\ ~Clashes(t, FALSE) /\ ~(r.resumable > 0))
    BY <1>3, ClickEffect
  <2>2. ASSUME Sound, ~Clashes(t, FALSE), ~(r.resumable > 0) PROVE Sound'
    <3>1. ~rcv[t].resume_sent /\ rcv[t] \in Rcv
      BY <2>2, NotAsked, OfTransfer
    <3>2. /\ r \in Rcv /\ r.fp = rcv[t].fp /\ r.file = rcv[t].file
          /\ r.resume_sent = rcv[t].resume_sent
      BY <2>2, <3>1, UpdateEffect DEF Found
    <3> HIDE DEF r
    <3>3. /\ r0 \in Rcv /\ r0.resumable = r.resumable /\ r0.pos = 0 /\ r0.fp = rcv[t].fp
          /\ r0.file = rcv[t].file /\ r0.resume_sent = rcv[t].resume_sent
      BY <3>2 DEF Rcv
    <3>4. r0.resumable = 0
      BY <2>2, <3>2, <3>3, RcvFields
    <3> HIDE DEF r0
    <3>5. QED
      BY <1>1, <1>3, <2>2, <3>1, <3>3, <3>4, FromStart
  <2>3. QED
    BY <2>1, <2>2
<1>4. QED
  BY <1>2, <1>3 DEF dcc_get_nick, Found

LEMMA AcceptedKeeps ==
    ASSUME HistOK, NEW t \in Transfers, NEW u, hist' = [hist EXCEPT !.clash = @ \/ u # t]
    PROVE  HistOK' /\ (Orderly' => Orderly /\ u = t)
<1>1. hist'.clash = (hist.clash \/ u # t) /\ hist'.unasked = hist.unasked /\ HistOK'
  BY DEF HistOK
<1>2. QED
  BY <1>1 DEF Orderly

LEMMA HandleAcceptKeeps ==
    ASSUME Sound, HistOK, NEW t \in Transfers, HandleAccept(t)
    PROVE  Orderly' => Sound'
<1> DEFINE N == [net EXCEPT ![t].toR = Tail(@)]
           M == [net[t] EXCEPT !.toR = <<>>]
<1>1. net[t].toR # <<>> /\ Head(net[t].toR).ctcp = "ACCEPT" /\ UNCHANGED <<cfg, snd, disk>>
  BY DEF HandleAccept
<1>2. net[t].toR = <<Accept>> /\ Tail(net[t].toR) = <<>>
  BY <1>1, OfTransfer, NetFields, ToRMessage
<1>3. /\ net[t].toS = <<>> /\ snd[t].pos = rcv[t].resumable /\ rcv[t].stat \notin Live
      /\ snd[t].stat \notin Live /\ rcv[t].resume_sent /\ rcv[t].stat # "NONE"
      /\ snd[t].stat # "NONE" /\ rcv[t].resumable > 0
  BY <1>2, OfTransfer, Messages DEF Fine, Shaken, RcvOK
<1>4. N = [net EXCEPT ![t] = M]
  BY <1>2 DEF Sound, Typed
<1>5. /\ M \in Net /\ M.toR = <<>> /\ M.toS = <<>> /\ M.data = net[t].data
      /\ M.acks = net[t].acks
  <2>1. <<>> \in ToR
    BY DEF ToR
  <2>2. QED
    BY <1>3, <2>1, OfTransfer DEF Net
<1>6. CASE net' = N /\ UNCHANGED <<rcv, hist>>
  <2>1. net' = [net EXCEPT ![t] = M] /\ rcv' = [rcv EXCEPT ![t] = rcv[t]]
    BY <1>4, <1>6, SameRcvRecord
  <2> HIDE DEF M
  <2>2. Shaken(snd[t], rcv[t], M)
    BY <1>3, <1>5, OfTransfer, Messages DEF Fine, Shaken
  <2>3. Streams(snd[t], rcv[t], M) /\ Acked(snd[t], rcv[t], M)
    BY <1>5, OfTransfer DEF Fine, Streams, Acked
  <2>4. QED
    BY <1>1, <1>5, <2>1, <2>2, <2>3, OfTransfer, ReceiverStep DEF Fine
<1>7. ASSUME NEW u \in Accepted(t), dcc_connect(u, rcv[u], N),
             hist' = [hist EXCEPT !.clash = @ \/ u # t]
      PROVE  Orderly' => Sound'
  <2>1. Orderly' => u = t
    BY <1>7, AcceptedKeeps
  <2> SUFFICES ASSUME u = t PROVE Sound'
    BY <2>1
  <2>2. rcv[t].stat = "QUEUED" /\ dcc_connect(t, rcv[t], N)
    BY <1>7 DEF Accepted
  <2>3. ~rcv[t].fp /\ rcv[t].file = 0 /\ net[t].data = <<>> /\ net[t].acks = <<>>
        /\ rcv[t].resumable < cfg.size /\ snd[t].resumable \in {0, rcv[t].resumable}
    BY <2>2, OfTransfer DEF RcvOK, Fine, Shaken, Over
  <2> DEFINE r0 == rcv[t]
  <2>4. r0 \in Rcv /\ r0.resumable # 0 /\ (r0.resume_sent <=> r0.resumable > 0)
    BY <1>3, OfTransfer, RcvFields
  <2>5. /\ M \in Net /\ M.data = <<>> /\ M.acks = <<>> /\ M.toS = <<>> /\ M.toR = <<>>
    BY <1>5, <2>3
  <2> HIDE DEF M, N
  <2>6. QED
    BY <1>1, <1>3, <1>4, <2>2, <2>3, <2>4, <2>5, dcc_connectKeeps
<1>8. QED
  BY <1>6, <1>7 DEF HandleAccept

(***************************************************************************)
(* The receiver's files.  There is a free name for a transfer without one: *)
(* the others cannot hold all of 1..Cardinality(Transfers).                *)
(***************************************************************************)
LEMMA LeastNat ==
    ASSUME NEW S, S \subseteq Nat, S # {}
    PROVE  \E m \in S : \A n \in S : m <= n
<1> DEFINE R == OpToRel(<, Nat)
<1>1. PICK m \in S : \A n \in S : <<n, m>> \notin R
  <2>1. IsWellFoundedOn(R, Nat)
    BY NatLessThanWellFounded
  <2> HIDE DEF R
  <2>2. QED
    BY <2>1, WFMin
<1>2. \A n \in S : ~(n < m)
  BY <1>1 DEF OpToRel
<1>3. QED
  BY <1>2

LEMMA FreshProps ==
    ASSUME Sound, NEW t \in Transfers, rcv[t].file = 0
    PROVE  Fresh(0) \in Names /\ disk[Fresh(0)] = Absent
<1> DEFINE C == Cardinality(Transfers)
           F == {n \in Names : n >= 0 /\ disk[n] = Absent}
           Others == Transfers \ {t}
           f == [u \in Others |-> rcv[u].file]
           T == {rcv[u].file : u \in Others}
<1>1. C \in Nat /\ IsFiniteSet(Transfers) /\ Names \subseteq Nat
  BY NamesZero, DccAssumption
<1>2. F # {}
  <2> SUFFICES ASSUME F = {} PROVE FALSE
    OBVIOUS
  <2>1. \A n \in 1..C : n \in Names \ {0} /\ disk[n] # Absent
    BY <1>1 DEF Names
  <2>2. 1..C \subseteq T
    <3> SUFFICES ASSUME NEW n \in 1..C PROVE n \in T
      OBVIOUS
    <3>1. PICK u \in Transfers : rcv[u].file = n
      BY <2>1 DEF Sound, Owned
    <3>2. u # t
      BY <3>1
    <3>3. QED
      BY <3>1, <3>2
  <2>3. f \in Surjection(Others, T)
    BY DEF Surjection
  <2>4. IsFiniteSet(Others) /\ Cardinality(Others) = C - 1
    BY <1>1, FS_RemoveElement
  <2> HIDE DEF f, T, Others
  <2>5. IsFiniteSet(T) /\ Cardinality(T) <= C - 1
    BY <2>3, <2>4, FS_Surjection
  <2>6. Cardinality(1..C) <= Cardinality(T)
    BY <2>2, <2>5, FS_Subset
  <2>7. Cardinality(1..C) = C
    <3> HIDE DEF C
    <3>1. Cardinality(1..C) = IF 1 > C THEN 0 ELSE C - 1 + 1
      BY <1>1, FS_Interval
    <3>2. QED
      BY <1>1, <3>1
  <2>8. Cardinality(T) \in Nat
    BY <2>5, FS_CardinalityType
  <2> HIDE DEF C
  <2>9. QED
    BY <1>1, <2>5, <2>6, <2>7, <2>8
<1>3. \E m \in F : \A n \in F : m <= n
  <2>1. F \subseteq Nat
    BY <1>1
  <2> HIDE DEF F
  <2>2. QED
    BY <1>2, <2>1, LeastNat
<1>4. Fresh(0) = Min(F)
  BY DEF Fresh
<1>5. Min(F) \in F
  <2> HIDE DEF F
  <2>1. QED
    BY <1>3 DEF Min
<1>6. QED
  BY <1>4, <1>5

\* What opening the file gives: a record and the files, and nobody else writes that file.
IsOpened(t, r, d) ==
    /\ r \in Rcv /\ r.fp /\ r.stat = "ACTIVE" /\ r.pos = Base(rcv[t])
    /\ r.resumable = rcv[t].resumable /\ r.resume_sent = rcv[t].resume_sent
    /\ d \in [Names -> Seq(Int)] /\ d[r.file] = Whole(r.pos)
    /\ \A n \in Names \ {r.file} : d[n] = disk[n]
    /\ disk[r.file] \in {Absent, Whole(r.pos)}
    /\ rcv[t].file \in {0, r.file}
    /\ \A u \in Transfers \ {t} :
        /\ rcv[u].fp => rcv[u].file # r.file
        /\ Resuming(rcv[u]) => r.file # 0
    /\ Resuming(rcv[t]) => r.file = 0

LEMMA OpenedEffect ==
    ASSUME Sound, NEW t \in Transfers, rcv[t].stat = "ACTIVE"
    PROVE  IsOpened(t, Opened(rcv[t])[1], Opened(rcv[t])[2])
<1> DEFINE r == rcv[t]
           A == [r EXCEPT !.fp = TRUE, !.pos = r.resumable]
           n == Fresh(r.file)
           B == [r EXCEPT !.fp = TRUE, !.file = n]
           D == [disk EXCEPT ![n] = <<>>]
           o == Opened(r)
<1>1. o = IF r.fp THEN <<r, disk>> ELSE IF r.resumable > 0 THEN <<A, disk>> ELSE <<B, D>>
  BY DEF Opened
<1>2. r \in Rcv /\ RcvOK(r) /\ r.resumable \in Nat /\ r.file \in Names
      /\ disk \in [Names -> Seq(Int)] /\ Written /\ Alone
  BY OfTransfer, RcvFields DEF Sound, Typed
<1>3. r.stat \notin Over /\ r.stat \in Live
  BY DEF Over, Live
<1>4. CASE r.fp
  <2>1. o[1] = r /\ o[2] = disk
    BY <1>1, <1>4
  <2>2. r.pos = Base(r) /\ disk[r.file] = Whole(r.pos)
    BY <1>2, <1>4 DEF Base, Written
  <2>3. \A u \in Transfers \ {t} :
            (rcv[u].fp => rcv[u].file # r.file) /\ (Resuming(rcv[u]) => r.file # 0)
    BY <1>2, <1>4 DEF Alone
  <2>4. Resuming(r) => r.file = 0
    BY <1>2 DEF RcvOK
  <2>5. IsOpened(t, r, disk)
    BY <1>2, <1>4, <2>2, <2>3, <2>4 DEF IsOpened
  <2>6. QED
    BY <2>1, <2>5
<1>5. CASE ~r.fp /\ r.resumable > 0
  <2>1. o[1] = A /\ o[2] = disk
    BY <1>1, <1>5
  <2>2. Resuming(r) /\ r.file = 0
    BY <1>2, <1>3, <1>5 DEF RcvOK, Resuming
  <2>3. disk[0] = Whole(r.resumable)
    BY <1>2, <1>5, <2>2 DEF Written
  <2>4. \A u \in Transfers \ {t} :
            (rcv[u].fp => rcv[u].file # 0) /\ ~Resuming(rcv[u])
    BY <1>2, <2>2 DEF Alone
  <2>5. /\ A \in Rcv /\ A.fp /\ A.stat = "ACTIVE" /\ A.pos = r.resumable /\ A.file = 0
        /\ A.resumable = r.resumable /\ A.resume_sent = r.resume_sent
    BY <1>2, <2>2 DEF Rcv
  <2>6. Base(r) = r.resumable
    BY <1>5 DEF Base
  <2> HIDE DEF A
  <2>7. IsOpened(t, A, disk)
    BY <1>2, <2>2, <2>3, <2>4, <2>5, <2>6 DEF IsOpened
  <2>8. QED
    BY <2>1, <2>7
<1>6. CASE ~r.fp /\ r.resumable = 0
  <2>1. o[1] = B /\ o[2] = D
    BY <1>1, <1>6
  <2>2. r.file = 0 /\ r.pos = 0 /\ ~r.resume_sent
    BY <1>2, <1>3, <1>6 DEF RcvOK
  <2>3. n \in Names /\ disk[n] = Absent
    BY <2>2, FreshProps
  <2>4. \A k \in Nat : Whole(k) # Absent
    BY WholeIsPiece
  <2> HIDE DEF n
  <2>5. /\ B \in Rcv /\ B.fp /\ B.stat = "ACTIVE" /\ B.pos = 0 /\ B.file = n
        /\ B.resumable = r.resumable /\ B.resume_sent = r.resume_sent
    BY <1>2, <2>2, <2>3 DEF Rcv
  <2>6. Whole(0) = <<>> /\ Whole(0) \in Seq(Int) /\ Base(r) = 0
    BY <1>6, WholeIsPiece, PieceEmpty DEF Base
  <2>7. D \in [Names -> Seq(Int)] /\ D[n] = Whole(0) /\ \A k \in Names \ {n} : D[k] = disk[k]
    BY <1>2, <2>3, <2>6
  <2>8. ASSUME NEW u \in Transfers \ {t}
        PROVE  (rcv[u].fp => rcv[u].file # n) /\ (Resuming(rcv[u]) => n # 0)
    <3>1. rcv[u].pos \in Nat /\ rcv[u].resumable \in Nat /\ RcvOK(rcv[u])
      BY OfTransfer, RcvFields
    <3>2. rcv[u].fp => disk[rcv[u].file] = Whole(rcv[u].pos)
      BY <1>2 DEF Written
    <3>3. Resuming(rcv[u]) => rcv[u].file = 0
      BY <3>1 DEF RcvOK
    <3>4. Resuming(rcv[u]) /\ ~rcv[u].fp => disk[0] = Whole(rcv[u].resumable)
      BY <1>2 DEF Written
    <3>5. QED
      BY <2>3, <2>4, <3>1, <3>2, <3>3, <3>4
  <2>9. ~Resuming(r)
    BY <2>2 DEF Resuming
  <2> HIDE DEF B, D
  <2>10. IsOpened(t, B, D)
    BY <2>2, <2>3, <2>5, <2>6, <2>7, <2>8, <2>9 DEF IsOpened
  <2>11. QED
    BY <2>1, <2>10
<1>7. QED
  BY <1>2, <1>4, <1>5, <1>6

\* The file grows by what arrived, and by nothing once it is whole.
LEMMA FileStep ==
    ASSUME Sound, NEW t \in Transfers, rcv[t].stat = "ACTIVE", NEW o, NEW d, IsOpened(t, o, d),
           NEW len \in Nat, o.pos + len <= cfg.size, NEW r \in Rcv, NEW n \in Net,
           RcvOK(r), Fine(snd[t], r, n), r.file = o.file,
           r.resumable = o.resumable, r.resume_sent = o.resume_sent,
           r.fp => r.pos = o.pos + len, r.stat \notin Over => r.fp,
           r.stat = "DONE" => o.pos + len = cfg.size,
           rcv' = [rcv EXCEPT ![t] = r], net' = [net EXCEPT ![t] = n],
           disk' = [d EXCEPT ![o.file] = Whole(o.pos + len)], UNCHANGED <<cfg, snd>>
    PROVE  Sound'
<1> DEFINE f == o.file
           k == o.pos + len
<1>1. f \in Names /\ o.pos \in Nat /\ k \in Nat /\ cfg.size \in Nat /\ Whole(k) \in Seq(Int)
      /\ Whole(k) # Absent
  <2>1. o \in Rcv /\ cfg \in ConfigType
    BY OfTransfer DEF IsOpened
  <2>2. f \in Names /\ o.pos \in Nat /\ cfg.size \in Nat
    BY <2>1, RcvFields, CfgFields
  <2>3. k \in Nat
    BY <2>2
  <2> HIDE DEF f, k
  <2>4. Whole(k) \in Seq(Int) /\ Whole(k) # Absent
    BY <2>3, WholeIsPiece
  <2>5. QED
    BY <2>2, <2>3, <2>4
<1>2. /\ disk' \in [Names -> Seq(Int)] /\ disk'[f] = Whole(k)
      /\ \A m \in Names \ {f} : disk'[m] = disk[m]
  BY <1>1 DEF IsOpened
<1>3. Typed'
  BY <1>2 DEF Sound, Typed
<1>4. rcv'[t] = r /\ net'[t] = n
      /\ \A u \in Transfers \ {t} : rcv'[u] = rcv[u] /\ net'[u] = net[u]
  BY DEF Sound, Typed
<1>5. EachOK'
  <2>1. \A u \in Transfers : RcvOK(rcv'[u]) /\ Fine(snd'[u], rcv'[u], net'[u])
    BY <1>4, OfTransfer
  <2>2. QED
    BY <2>1, FineEach
<1>6. Begun'
  BY <1>1, <1>2, SMTT(30) DEF Sound, Begun
<1>7. Resuming(r) => Resuming(rcv[t])
  BY DEF Resuming, IsOpened, Over
<1>8. Written'
  <2> SUFFICES ASSUME NEW u \in Transfers
               PROVE  /\ rcv'[u].fp => disk'[rcv'[u].file] = Whole(rcv'[u].pos)
                      /\ rcv'[u].stat = "DONE" => disk'[rcv'[u].file] = Whole(cfg.size)
                      /\ Resuming(rcv'[u]) /\ ~rcv'[u].fp
                            => disk'[0] = Whole(rcv'[u].resumable)
    BY DEF Written, Resuming
  <2>1. CASE u = t
    BY <1>2, <1>4, <2>1 DEF Resuming
  <2>2. CASE u # t
    <3>1. /\ rcv[u].fp => disk[rcv[u].file] = Whole(rcv[u].pos)
          /\ rcv[u].stat = "DONE" => disk[rcv[u].file] = Whole(cfg.size)
          /\ Resuming(rcv[u]) /\ ~rcv[u].fp => disk[0] = Whole(rcv[u].resumable)
          /\ rcv[u].file \in Names /\ 0 \in Names
      BY OfTransfer, RcvFields, NamesZero DEF Sound, Written
    <3>2. (rcv[u].fp => rcv[u].file # f) /\ (Resuming(rcv[u]) => f # 0)
      BY <2>2 DEF IsOpened
    <3>3. rcv[u].stat = "DONE" => disk'[rcv[u].file] = Whole(cfg.size)
      <4> SUFFICES ASSUME rcv[u].stat = "DONE", rcv[u].file = f PROVE k = cfg.size
        BY <1>2, <3>1
      <4>1. disk[f] = Whole(cfg.size) /\ Whole(cfg.size) # Absent
        BY <1>1, <3>1, WholeIsPiece
      <4>2. Whole(o.pos) = Whole(cfg.size)
        BY <4>1 DEF IsOpened
      <4>3. o.pos = cfg.size
        BY <1>1, <4>2, WholeOnce
      <4>4. QED
        BY <1>1, <4>3
    <3>4. QED
      BY <1>2, <1>4, <2>2, <3>1, <3>2, <3>3
  <2>3. QED
    BY <2>1, <2>2
<1>9. Alone'
  <2>1. Alone
    BY DEF Sound
  <2> SUFFICES ASSUME NEW a \in Transfers, NEW b \in Transfers, a # b
               PROVE  /\ rcv'[a].fp /\ rcv'[b].fp => rcv'[a].file # rcv'[b].file
                      /\ Resuming(rcv'[a]) =>
                            ~Resuming(rcv'[b]) /\ (rcv'[b].fp => rcv'[b].file # 0)
    BY DEF Alone, Resuming
  <2>2. \A u \in Transfers \ {t} :
            (rcv[u].fp => rcv[u].file # f) /\ (Resuming(rcv[u]) => f # 0)
    BY DEF IsOpened
  <2>3. CASE a = t
    BY <1>4, <1>7, <2>1, <2>2, <2>3 DEF Alone
  <2>4. CASE b = t
    BY <1>4, <1>7, <2>1, <2>2, <2>4 DEF Alone
  <2>5. CASE a # t /\ b # t
    BY <1>4, <2>1, <2>5 DEF Alone
  <2>6. QED
    BY <2>3, <2>4, <2>5
<1>10. Owned'
  <2> SUFFICES ASSUME NEW m \in Names \ {0}, disk'[m] # Absent
               PROVE  \E u \in Transfers : rcv'[u].file = m
    BY DEF Owned
  <2>1. CASE m = f
    BY <1>4, <2>1
  <2>2. CASE m # f
    <3>1. PICK u \in Transfers : rcv[u].file = m
      BY <1>2, <2>2 DEF Sound, Owned
    <3>2. u # t
      BY <2>2, <3>1 DEF IsOpened
    <3>3. QED
      BY <1>4, <3>1, <3>2
  <2>3. QED
    BY <2>1, <2>2
<1>11. QED
  BY <1>3, <1>5, <1>6, <1>8, <1>9, <1>10 DEF Sound

LEMMA Appended ==
    ASSUME NEW q \in Seq(Nat), NEW x \in Nat
    PROVE  /\ Append(q, x) \in Seq(Nat) /\ Len(Append(q, x)) = Len(q) + 1
           /\ Append(q, x)[Len(q) + 1] = x
           /\ \A i \in 1..Len(q) : Append(q, x)[i] = q[i]
BY AppendProperties

\* What the other end and the wire know of a receiver that has read.
LEMMA FineRead ==
    ASSUME cfg \in ConfigType, NEW s \in Snd, NEW r0 \in Rcv, NEW n0 \in Net,
           Fine(s, r0, n0), r0.stat = "ACTIVE", RcvOK(r0),
           NEW r \in Rcv, NEW n \in Net, NEW pos \in Nat,
           r.resumable = r0.resumable, r.resume_sent = r0.resume_sent,
           \/ r.stat = "ACTIVE" /\ r.fp /\ r.pos = pos /\ pos < cfg.size
           \/ r.stat = "DONE"
           \/ r.stat = "FAILED" /\ n.acks = n0.acks,
           pos = Base(r0) + Len(n0.data), n.data = <<>>, n.toS = n0.toS, n.toR = n0.toR,
           n.acks = n0.acks \/ n.acks = Append(n0.acks, pos % Mod)
    PROVE  Fine(s, r, n)
<1>1. /\ cfg.size \in Nat /\ Base(r0) \in Nat /\ Len(n0.data) \in Nat /\ pos <= cfg.size
      /\ r0.resumable \in Nat /\ Window \in Nat /\ r0.resumable <= Base(r0)
      /\ n0.acks \in Seq(Nat) /\ Len(n0.acks) \in Nat /\ Mod \in Nat
  BY CfgFields, RcvFields, NetFields, DccAssumption DEF Fine, Streams, Live, Base, RcvOK
<1>2. Shaken(s, r, n)
  BY DEF Fine, Shaken, Live, Over
<1>3. Streams(s, r, n)
  <2>1. Piece(pos, 0) = <<>> /\ Len(n.data) = 0
    BY PieceEmpty, NoAcks
  <2>2. CASE r.stat = "ACTIVE" /\ r.fp /\ r.pos = pos /\ pos < cfg.size
    <3>1. Base(r) = pos
      BY <2>2 DEF Base
    <3>2. s.stat \notin Over => s.pos = pos
      BY DEF Fine, Streams, Live
    <3>3. QED
      BY <1>1, <2>1, <3>1, <3>2 DEF Streams
  <2>3. CASE r.stat \in {"DONE", "FAILED"}
    BY <1>1, <2>1, <2>3 DEF Streams, Live
  <2>4. QED
    BY <2>2, <2>3
<1>4. Acked(s, r, n)
  <2> SUFFICES ASSUME cfg.size < Mod, ~s.garbled
               PROVE  /\ ~s.ackoffset /\ s.ack <= cfg.size
                      /\ (s.ack = cfg.size => r.stat = "DONE")
                      /\ \A i \in 1..Len(n.acks) :
                            /\ r.resumable <= n.acks[i] /\ n.acks[i] <= cfg.size
                            /\ n.acks[i] = cfg.size => r.stat = "DONE"
                      /\ s.stat = "DONE" => r.stat = "DONE"
    BY DEF Acked
  <2>1. /\ ~s.ackoffset /\ s.ack <= cfg.size /\ s.ack # cfg.size /\ s.stat # "DONE"
        /\ \A i \in 1..Len(n0.acks) :
            r0.resumable <= n0.acks[i] /\ n0.acks[i] <= cfg.size /\ n0.acks[i] # cfg.size
    BY DEF Fine, Acked
  <2>2. pos % Mod = pos
    <3>1. pos < Mod
      BY <1>1
    <3>2. QED
      BY <3>1, BelowMod
  <2>3. CASE n.acks = n0.acks
    BY <2>1, <2>3
  <2>4. CASE n.acks = Append(n0.acks, pos % Mod) /\ r.stat # "FAILED"
    <3>1. pos = cfg.size => r.stat = "DONE"
      BY <1>1, <2>4
    <3>2. /\ Len(n.acks) = Len(n0.acks) + 1 /\ n.acks[Len(n0.acks) + 1] = pos
          /\ \A i \in 1..Len(n0.acks) : n.acks[i] = n0.acks[i]
      <4>1. n0.acks \in Seq(Nat) /\ pos \in Nat /\ n.acks = Append(n0.acks, pos)
        BY <1>1, <2>2, <2>4
      <4> DEFINE a == n0.acks
      <4> HIDE DEF a
      <4>2. a \in Seq(Nat) /\ n.acks = Append(a, pos)
        BY <4>1 DEF a
      <4>3. /\ Len(n.acks) = Len(a) + 1 /\ n.acks[Len(a) + 1] = pos
            /\ \A i \in 1..Len(a) : n.acks[i] = a[i]
        <5>1. /\ Len(Append(a, pos)) = Len(a) + 1 /\ Append(a, pos)[Len(a) + 1] = pos
              /\ \A i \in 1..Len(a) : Append(a, pos)[i] = a[i]
          BY <4>2, Appended
        <5>2. QED
          BY <4>2, <5>1, Zenon
      <4>4. QED
        BY <4>3 DEF a
    <3>3. \A i \in 1..Len(n.acks) : i \in 1..Len(n0.acks) \/ i = Len(n0.acks) + 1
      BY <1>1, <3>2
    <3>4. r0.resumable <= pos
      BY <1>1
    <3>5. QED
      BY <1>1, <2>1, <3>1, <3>2, <3>3, <3>4
  <2>5. QED
    BY <2>3, <2>4
<1>5. QED
  BY <1>2, <1>3, <1>4 DEF Fine

\* What was read and written is the beginning of the file, whether it is opened now or was.
LEMMA dcc_readKeeps ==
    ASSUME Sound, NEW t \in Transfers, dcc_read(t)
    PROVE  Sound'
<1> DEFINE o == Opened(rcv[t])[1]
           d == Opened(rcv[t])[2]
           len == Len(net[t].data)
           pos == o.pos + len
           r == [o EXCEPT !.pos = @ + len]
           done == r.pos >= cfg.size
           q == IF done THEN ClosedRcv(r, "DONE") ELSE r
           n == [net[t] EXCEPT !.data = <<>>, !.acks = Append(@, r.pos % Mod), !.eofR = done]
           e == [net[t] EXCEPT !.eofR = TRUE]
<1>1. rcv[t].stat = "ACTIVE" /\ UNCHANGED <<cfg, snd>>
  BY DEF dcc_read
<1>2. \/ /\ disk' = [d EXCEPT ![r.file] = @ \o net[t].data]
         /\ rcv' = [rcv EXCEPT ![t] = q] /\ net' = [net EXCEPT ![t] = n]
      \/ /\ net[t].data = <<>> /\ disk' = d
         /\ rcv' = [rcv EXCEPT ![t] = ClosedRcv(r, "FAILED")]
         /\ net' = [net EXCEPT ![t] = e]
  BY DEF dcc_read
<1>3. IsOpened(t, o, d)
  BY <1>1, OpenedEffect
<1> HIDE DEF o, d
<1>4. /\ cfg \in ConfigType /\ snd[t] \in Snd /\ rcv[t] \in Rcv /\ net[t] \in Net
      /\ RcvOK(rcv[t]) /\ Fine(snd[t], rcv[t], net[t]) /\ cfg.size \in Nat
      /\ net[t].data \in Seq(Nat) /\ net[t].acks \in Seq(Nat) /\ len \in Nat
  BY OfTransfer, NetFields, CfgFields
<1>5. /\ o \in Rcv /\ o.fp /\ o.stat = "ACTIVE" /\ o.pos = Base(rcv[t])
      /\ o.resumable = rcv[t].resumable /\ o.resume_sent = rcv[t].resume_sent
      /\ d \in [Names -> Seq(Int)] /\ d[o.file] = Whole(o.pos)
      /\ o.file \in Names /\ o.pos \in Nat
  BY <1>3, RcvFields DEF IsOpened
<1>6. net[t].data = Piece(o.pos, len) /\ pos <= cfg.size
  BY <1>1, <1>4, <1>5 DEF Fine, Streams, Live
<1>7. pos \in Nat
  BY <1>4, <1>5
<1>8. /\ r \in Rcv /\ r.fp /\ r.stat = "ACTIVE" /\ r.pos = pos /\ r.file = o.file
      /\ r.resumable = o.resumable /\ r.resume_sent = o.resume_sent
  BY <1>5, <1>7 DEF Rcv
<1> HIDE DEF len, r
<1>9. o.resumable <= o.pos /\ o.resumable \in Nat /\ o.resumable < cfg.size
  BY <1>4, <1>5, RcvFields DEF RcvOK, Base
<1>10. /\ o.resume_sent => o.resumable > 0
       /\ o.resumable > 0 => o.resume_sent
       /\ o.resume_sent => o.file = 0
  <2>1. rcv[t].stat \in Live /\ rcv[t].stat \notin Over
    BY <1>1 DEF Live, Over
  <2>2. o.resume_sent => o.file = 0
    BY <1>3, <1>5, <2>1 DEF IsOpened, Resuming
  <2>3. QED
    BY <1>4, <1>5, <2>1, <2>2 DEF RcvOK
<1>11. Whole(o.pos) \o net[t].data = Whole(pos)
  BY <1>4, <1>5, <1>6, WholeGrows, ZenonT(30) DEF len
<1>12. CASE /\ disk' = [d EXCEPT ![r.file] = @ \o net[t].data]
            /\ rcv' = [rcv EXCEPT ![t] = q] /\ net' = [net EXCEPT ![t] = n]
  <2>1. disk' = [d EXCEPT ![o.file] = Whole(o.pos + len)]
    BY <1>5, <1>8, <1>11, <1>12
  <2>2. /\ n \in Net /\ n.data = <<>> /\ n.toS = net[t].toS /\ n.toR = net[t].toR
        /\ n.acks = Append(net[t].acks, pos % Mod)
    <3>1. Append(net[t].acks, pos % Mod) \in Seq(Nat) /\ <<>> \in Seq(Nat)
      BY <1>4, <1>7, ModType, AppendProperties, EmptySeq
    <3>2. done \in BOOLEAN
      OBVIOUS
    <3>3. QED
      BY <1>4, <1>8, <3>1, <3>2 DEF Net
  <2>3. /\ q \in Rcv /\ q.file = o.file /\ q.resumable = o.resumable
        /\ q.resume_sent = o.resume_sent
        /\ \/ q.stat = "ACTIVE" /\ q.fp /\ q.pos = pos /\ pos < cfg.size
           \/ q.stat = "DONE" /\ ~q.fp /\ pos = cfg.size
    <3>1. CASE done
      <4>1. q = [r EXCEPT !.stat = "DONE", !.fp = FALSE]
        BY <3>1 DEF ClosedRcv
      <4>2. pos = cfg.size
        BY <1>4, <1>6, <1>7, <1>8, <3>1
      <4> HIDE DEF pos, q
      <4>3. QED
        BY <1>8, <4>1, <4>2 DEF Rcv, Stats
    <3>2. CASE ~done
      BY <1>4, <1>6, <1>7, <1>8, <3>2
    <3>3. QED
      BY <3>1, <3>2
  <2> HIDE DEF n, q
  <2>4. RcvOK(q)
    BY <1>4, <1>5, <1>7, <1>9, <1>10, <2>3 DEF RcvOK, Resuming, Over, Live
  <2>5. Fine(snd[t], q, n)
    <3>1. pos = Base(rcv[t]) + Len(net[t].data)
      BY <1>5 DEF len
    <3> HIDE DEF pos
    <3>2. \/ q.stat = "ACTIVE" /\ q.fp /\ q.pos = pos /\ pos < cfg.size
          \/ q.stat = "DONE"
      BY <2>3
    <3>3. q.resumable = rcv[t].resumable /\ q.resume_sent = rcv[t].resume_sent /\ q \in Rcv
      BY <1>5, <2>3
    <3>4. /\ n \in Net /\ n.data = <<>> /\ n.toS = net[t].toS /\ n.toR = net[t].toR
          /\ n.acks = net[t].acks \/ n.acks = Append(net[t].acks, pos % Mod)
      BY <2>2
    <3>5. /\ cfg \in ConfigType /\ snd[t] \in Snd /\ rcv[t] \in Rcv /\ net[t] \in Net
          /\ RcvOK(rcv[t]) /\ Fine(snd[t], rcv[t], net[t]) /\ rcv[t].stat = "ACTIVE"
      BY <1>1, <1>4
    <3>6. \/ q.stat = "ACTIVE" /\ q.fp /\ q.pos = pos /\ pos < cfg.size
          \/ q.stat = "DONE"
          \/ q.stat = "FAILED" /\ n.acks = net[t].acks
      BY <3>2
    <3>7. pos \in Nat
      BY <1>7
    <3>8. QED
      BY <3>1, <3>3, <3>4, <3>5, <3>6, <3>7, FineRead, Zenon
  <2>6. /\ q.fp => q.pos = o.pos + len
        /\ q.stat \notin Over => q.fp
        /\ q.stat = "DONE" => o.pos + len = cfg.size
    BY <2>3 DEF Over
  <2>7. o.pos + len <= cfg.size /\ len \in Nat
    BY <1>4, <1>6
  <2>8. rcv' = [rcv EXCEPT ![t] = q] /\ net' = [net EXCEPT ![t] = n]
    BY <1>12
  <2>9. n \in Net /\ q \in Rcv /\ q.file = o.file /\ q.resumable = o.resumable
        /\ q.resume_sent = o.resume_sent
    BY <2>2, <2>3
  <2>10. QED
    BY <1>1, <1>3, <2>1, <2>4, <2>5, <2>6, <2>7, <2>8, <2>9, FileStep
<1>13. CASE /\ net[t].data = <<>> /\ disk' = d
            /\ rcv' = [rcv EXCEPT ![t] = ClosedRcv(r, "FAILED")]
            /\ net' = [net EXCEPT ![t] = e]
  <2> DEFINE c == ClosedRcv(r, "FAILED")
  <2>1. len = 0 /\ pos = o.pos
    BY <1>4, <1>5, <1>13, EmptySeq DEF len
  <2>2. disk' = [d EXCEPT ![o.file] = Whole(o.pos + len)]
    BY <1>5, <1>13, <2>1
  <2>3. /\ e \in Net /\ e.data = <<>> /\ e.toS = net[t].toS /\ e.toR = net[t].toR
        /\ e.acks = net[t].acks
    BY <1>4, <1>13 DEF Net
  <2>4. /\ c \in Rcv /\ c.file = o.file /\ c.resumable = o.resumable
        /\ c.resume_sent = o.resume_sent /\ c.stat = "FAILED" /\ ~c.fp
    BY <1>8 DEF ClosedRcv, Rcv, Stats
  <2>5. rcv' = [rcv EXCEPT ![t] = c] /\ net' = [net EXCEPT ![t] = e]
    BY <1>13
  <2> HIDE DEF c, e
  <2>6. RcvOK(c)
    BY <1>4, <1>5, <1>9, <1>10, <2>4 DEF RcvOK, Resuming, Over, Live
  <2>7. Fine(snd[t], c, e)
    BY <1>1, <1>4, <1>5, <1>7, <2>3, <2>4, FineRead DEF len
  <2>8. c.stat \in Over /\ c.stat # "DONE"
    BY <2>4 DEF Over
  <2>9. o.pos + len <= cfg.size /\ len \in Nat
    BY <1>4, <1>6
  <2>10. QED
    BY <1>1, <1>3, <2>2, <2>3, <2>4, <2>5, <2>6, <2>7, <2>8, <2>9, FileStep
<1>14. QED
  BY <1>2, <1>12, <1>13

-----------------------------------------------------------------------------
(***************************************************************************)
(* The invariant.                                                          *)
(***************************************************************************)
LEMMA InitInv == Init => IInv
<1> SUFFICES ASSUME Init PROVE IInv
  OBVIOUS
<1>1. cfg \in ConfigType /\ cfg.size \in Nat /\ cfg.size > 0 /\ cfg.old \in Nat
  <2>1. cfg \in ConfigType
    BY DccAssumption DEF Init
  <2>2. QED
    BY <2>1, CfgFields
<1>2. HistOK
  BY DEF Init, HistOK
<1>3. 0 \in Names /\ Names \subseteq Nat
  BY NamesZero
<1>4. NewSnd \in Snd /\ NewRcv \in Rcv /\ NewNet \in Net
  <2>1. <<>> \in Seq(Nat)
    BY EmptySeq
  <2>2. NewNet \in Net
    BY <2>1 DEF NewNet, Net, ToS, ToR
  <2>3. QED
    BY <1>3, <2>2 DEF NewSnd, NewRcv, Snd, Rcv, Stats
<1>5. /\ \A t \in Transfers : snd[t] = NewSnd /\ rcv[t] = NewRcv /\ net[t] = NewNet
      /\ snd \in [Transfers -> Snd] /\ rcv \in [Transfers -> Rcv]
      /\ net \in [Transfers -> Net]
  BY <1>4 DEF Init
<1>6. \A n \in Names : disk[n] = IF n = 0 /\ cfg.old > 0 THEN Whole(cfg.old) ELSE Absent
  BY DEF Init
<1>7. Whole(cfg.old) \in Seq(Int) /\ Absent \in Seq(Int)
  BY <1>1, WholeIsPiece DEF Absent
<1>8. Typed
  <2>1. disk \in [Names -> Seq(Int)]
    BY <1>7 DEF Init
  <2>2. QED
    BY <1>1, <1>5, <2>1 DEF Typed
<1>9. EachOK
  <2>1. RcvOK(NewRcv)
    BY <1>1 DEF RcvOK, NewRcv, Live, Over, Resuming
  <2>2. Shaken(NewSnd, NewRcv, NewNet)
    BY <1>1, Messages DEF Shaken, NewSnd, NewRcv, NewNet, Live, Over
  <2>3. Streams(NewSnd, NewRcv, NewNet)
    BY NoAcks, DccAssumption DEF Streams, NewSnd, NewRcv, NewNet, Live
  <2>4. Acked(NewSnd, NewRcv, NewNet)
    BY <1>1, NoAcks DEF Acked, NewSnd, NewRcv, NewNet
  <2>5. QED
    BY <1>5, <2>1, <2>2, <2>3, <2>4 DEF EachOK
<1>10. Begun
  BY <1>1, <1>6 DEF Begun
<1>11. ~NewRcv.fp /\ NewRcv.stat # "DONE" /\ ~Resuming(NewRcv)
  BY DEF NewRcv, Resuming
<1>12. Written /\ Alone /\ Owned
  BY <1>5, <1>6, <1>11 DEF Written, Alone, Owned
<1>13. QED
  BY <1>2, <1>8, <1>9, <1>10, <1>12 DEF IInv, Sound

\* An abort or a limit is remembered, and nothing else of the history changes.
LEMMA UpsetEffect ==
    ASSUME HistOK, NEW t \in Transfers, Upset(t)
    PROVE  HistOK' /\ Orderly' = Orderly
BY DEF HistOK, Upset, Orderly

LEMMA LimitEffect ==
    ASSUME HistOK, NEW t \in Transfers,
           hist' = [hist EXCEPT !.limits = @ + 1, !.upset[t] = TRUE]
    PROVE  HistOK' /\ Orderly' = Orderly
BY DEF HistOK, Orderly

LEMMA ReadAckEffect ==
    ASSUME HistOK, NEW t \in Transfers, dcc_read_ack(t)
    PROVE  HistOK' /\ Orderly' = Orderly
<1>1. CASE hist' = hist
  BY <1>1 DEF HistOK, Orderly
<1>2. CASE hist' = [hist EXCEPT !.splits = @ + 1]
  BY <1>2 DEF HistOK, Orderly
<1>3. QED
  BY <1>1, <1>2 DEF dcc_read_ack

\* Disorderly requests are remembered.
LEMMA AcceptEffect ==
    ASSUME HistOK, NEW t \in Transfers, HandleAccept(t)
    PROVE  HistOK' /\ (Orderly' => Orderly)
<1>1. CASE hist' = hist
  BY <1>1 DEF HistOK, Orderly
<1>2. CASE \E u \in Transfers : hist' = [hist EXCEPT !.clash = @ \/ u # t]
  BY <1>2, AcceptedKeeps
<1>3. QED
  BY <1>1, <1>2 DEF HandleAccept, Accepted

\* The steps that leave the history alone.
Quiet(t) ==
    \/ SendReady(t) \/ AcksEnd(t) \/ dcc_read(t)
    \/ dcc_add_file(t) \/ HandleResume(t) \/ HandleSend(t)
    \/ SenderAccepts(t) \/ ReceiverConnected(t) \/ SenderConnected(t)
    \/ dcc_unthrottle(t) \/ dcc_send(t)

LEMMA QuietKeeps ==
    ASSUME NEW t \in Transfers, Quiet(t)
    PROVE  hist' = hist /\ (Sound => Sound')
<1>1. hist' = hist
  BY DEF Quiet, SendReady, AcksEnd, dcc_read, dcc_add_file,
         HandleResume, HandleSend, SenderAccepts, ReceiverConnected, SenderConnected,
         dcc_unthrottle, dcc_send
<1>2. Sound => Sound'
  BY SendReadyKeeps, AcksEndKeeps, dcc_readKeeps, AddFileKeeps,
     HandleResumeKeeps, HandleSendKeeps, SenderAcceptsKeeps, ReceiverConnectedKeeps,
     SenderConnectedKeeps, UnthrottleKeeps, dcc_sendKeeps DEF Quiet
<1>3. QED
  BY <1>1, <1>2

LEMMA StutterKeeps ==
    ASSUME IInv, UNCHANGED vars
    PROVE  IInv'
<1>1. UNCHANGED <<cfg, snd, rcv, net, disk, hist>>
  BY DEF vars
<1>2. HistOK'
  BY <1>1 DEF IInv, HistOK
<1>3. ASSUME Sound PROVE Sound'
  <2>1. EachOK'
    BY <1>1, <1>3, OfTransfer, FineEach
  <2>2. Typed' /\ Begun' /\ Written' /\ Alone' /\ Owned'
    BY <1>1, <1>3 DEF Sound, Typed, Begun, Written, Alone, Owned
  <2>3. QED
    BY <2>1, <2>2 DEF Sound
<1>4. QED
  BY <1>1, <1>2, <1>3 DEF IInv, Orderly

LEMMA StepInv == IInv /\ [Next]_vars => IInv'
<1> SUFFICES ASSUME IInv, [Next]_vars PROVE IInv'
  OBVIOUS
<1>1. HistOK /\ (Orderly => Sound)
  BY DEF IInv
<1>2. CASE UNCHANGED vars
  BY <1>2, StutterKeeps
<1>3. CASE Next
  <2>1. PICK t \in Transfers : Step(t) \/ User(t) \/ Upsets(t)
    BY <1>3 DEF Next
  <2>2. CASE Quiet(t)
    <3>1. hist' = hist /\ (Sound => Sound')
      BY <2>2, QuietKeeps
    <3>2. HistOK'
      BY <1>1, <3>1 DEF HistOK
    <3>3. QED
      BY <1>1, <3>1, <3>2 DEF IInv, Orderly
  <2>3. CASE HandleAccept(t)
    <3>1. HistOK' /\ (Orderly' => Orderly)
      BY <1>1, <2>3, AcceptEffect
    <3>2. Sound => (Orderly' => Sound')
      BY <1>1, <2>3, HandleAcceptKeeps
    <3>3. QED
      BY <1>1, <3>1, <3>2 DEF IInv
  <2>4. CASE Refused(t) \/ SenderAborts(t) \/ ReceiverAborts(t)
    <3>1. Upset(t)
      BY <2>4 DEF Refused, SenderAborts, ReceiverAborts
    <3>2. HistOK' /\ Orderly' = Orderly
      BY <1>1, <3>1, UpsetEffect
    <3>3. Sound => Sound'
      BY <2>4, RefusedKeeps, SenderAbortsKeeps, ReceiverAbortsKeeps
    <3>4. QED
      BY <1>1, <3>2, <3>3 DEF IInv
  <2>5. CASE Throttle(t)
    <3>1. HistOK' /\ Orderly' = Orderly
      BY <1>1, <2>5, LimitEffect DEF Throttle
    <3>2. Sound => Sound'
      BY <2>5, ThrottleKeeps
    <3>3. QED
      BY <1>1, <3>1, <3>2 DEF IInv
  <2>6. CASE dcc_get(t) \/ dcc_get_nick(t) \/ dcc_resume(t)
    <3>1. HistOK' /\ (Orderly' => Orderly /\ (Sound => Sound'))
      BY <1>1, <2>6, dcc_getKeeps, dcc_get_nickKeeps, dcc_resumeKeeps
    <3>2. QED
      BY <1>1, <3>1 DEF IInv
  <2>7. CASE dcc_read_ack(t)
    <3>1. HistOK' /\ Orderly' = Orderly
      BY <1>1, <2>7, ReadAckEffect
    <3>2. Sound => Sound'
      BY <2>7, ReadAckKeeps
    <3>3. QED
      BY <1>1, <3>1, <3>2 DEF IInv
  <2>8. QED
    BY <2>1, <2>2, <2>3, <2>4, <2>5, <2>6, <2>7 DEF Step, User, Upsets, Quiet
<1>4. QED
  BY <1>2, <1>3

LEMMA Invariant == Spec => []IInv
BY InitInv, StepInv, PTL DEF Spec

(***************************************************************************)
(* One transfer at a time writes a file: as long as the requests are       *)
(* orderly no two transfers of dcc_list hold a file of the same name open, *)
(* whatever several peers offer, resume, stall or abort, and however many  *)
(* ask to resume what another is fetching (dcc_read, update_is_resumable). *)
(***************************************************************************)
THEOREM Writers == Spec => []OneWriter
<1>1. IInv => OneWriter
  BY DEF IInv, Sound, Alone, OneWriter
<1>2. QED
  BY <1>1, Invariant, PTL

(***************************************************************************)
(* As long as the requests are orderly every file dcc_read has left on     *)
(* disk is a beginning of the file offered, without a hole or a byte out   *)
(* of place, so that dcc_resume may go on from its length.                 *)
(***************************************************************************)
THEOREM Resumable == Spec => []AlwaysResumable
<1>1. IInv => AlwaysResumable
  <2> SUFFICES ASSUME IInv, Orderly, NEW n \in Names, disk[n] # Absent
               PROVE  disk[n] = Whole(Len(disk[n]))
    BY DEF AlwaysResumable, FilesBegun
  <2>1. PICK k \in Nat : disk[n] = Whole(k)
    BY DEF IInv, Sound, Begun
  <2>2. Len(Whole(k)) = k
    BY WholeIsPiece
  <2>3. QED
    BY <2>1, <2>2
<1>2. QED
  BY <1>1, Invariant, PTL

(***************************************************************************)
(* As long as the requests are orderly a receiver that reports DONE has    *)
(* the whole file, resumed or not; and below 4 GB a sender that was sent   *)
(* its acknowledgements whole reports DONE (dcc_handle_new_ack) only when  *)
(* the receiver has.                                                       *)
(***************************************************************************)
THEOREM Integrity == Spec => []FileIntact
<1>1. IInv => FileIntact
  <2> SUFFICES ASSUME IInv, Orderly, NEW t \in Transfers
               PROVE  /\ rcv[t].stat = "DONE" => disk[rcv[t].file] = Whole(cfg.size)
                      /\ snd[t].stat = "DONE" /\ cfg.size < Mod /\ ~snd[t].garbled
                            => rcv[t].stat = "DONE"
    BY DEF FileIntact
  <2>1. Sound
    BY DEF IInv
  <2>2. Acked(snd[t], rcv[t], net[t])
    BY <2>1, OfTransfer DEF Fine
  <2>3. QED
    BY <2>1, <2>2 DEF Sound, Written, Acked
<1>2. QED
  BY <1>1, Invariant, PTL
=============================================================================
