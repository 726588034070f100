-------------------------- MODULE GapLedger_proofs --------------------------
(***************************************************************************)
(* Proofs about the gap ledger, for any number of rows and any range of    *)
(* times: its rows stay well formed and apart, and no bookkeeping forgets  *)
(* a witnessed hole.                                                       *)
(***************************************************************************)
EXTENDS GapLedger, TLAPS, WellFoundedInduction

(***************************************************************************)
(* Rows.                                                                   *)
(***************************************************************************)
RowRecord == [start : Time, end : Time, sm : Anchor, em : Anchor,
              state : GapState, att : 0..MaxAttempts]

LEMMA RowCases ==
    ASSUME NEW r \in Row
    PROVE  r = NoRow \/ r \in RowRecord
BY Zenon DEF Row, RowRecord

LEMMA NoRowFields ==
    /\ NoRow \in Row /\ NoRow.state = "none"
    /\ NoRow.start = 0 /\ NoRow.end = 0
    /\ NoRow.sm = 0 /\ NoRow.em = 0 /\ NoRow.att = 0
BY DEF NoRow, Row, GapRow, NoAnchor

LEMMA RowFields ==
    ASSUME NEW r \in Row
    PROVE  /\ r.start \in 0..MaxTime /\ r.end \in 0..MaxTime
           /\ r.sm \in Anchor /\ r.em \in Anchor /\ r.att \in 0..MaxAttempts
           /\ r.state \in GapState \cup {"none"}
           /\ r.state = "none" => r = NoRow
           /\ r.state # "none" => /\ r.start \in Time /\ r.end \in Time
                                  /\ r.state \in GapState
<1>1. CASE r = NoRow
  BY <1>1, NoRowFields, LedgerAssumption DEF Anchor, Time, GapState
<1>2. CASE r \in RowRecord
  BY <1>2, LedgerAssumption DEF RowRecord, Time, Anchor, GapState
<1>3. QED
  BY <1>1, <1>2, RowCases

LEMMA GapRowFields ==
    ASSUME NEW s, NEW sm, NEW e, NEW em, NEW st, NEW att
    PROVE  LET r == GapRow(s, sm, e, em, st, att)
           IN /\ r.start = s /\ r.end = e /\ r.sm = sm /\ r.em = em
              /\ r.state = st /\ r.att = att
BY DEF GapRow

LEMMA GapRowType ==
    ASSUME NEW s \in Time, NEW sm \in Anchor, NEW e \in Time, NEW em \in Anchor,
           NEW st \in GapState, NEW att \in 0..MaxAttempts
    PROVE  GapRow(s, sm, e, em, st, att) \in Row
BY DEF GapRow, Row

(***************************************************************************)
(* A set of naturals has a least, and a bounded one a greatest, element.   *)
(***************************************************************************)
LEMMA Least ==
    ASSUME NEW S \in SUBSET Nat, S # {}
    PROVE  \E m \in S : \A y \in S : m <= y
<1> DEFINE R == OpToRel(<, Nat)
<1>1. IsWellFoundedOn(R, Nat)
  BY NatLessThanWellFounded
<1>2. PICK m \in S : \A y \in S : <<y, m>> \notin R
  <2> HIDE DEF R
  <2>1. QED
    BY <1>1, WFMin
<1>3. \A y \in S : ~(y < m)
  BY <1>2 DEF OpToRel
<1>4. QED
  BY <1>3

LEMMA Greatest ==
    ASSUME NEW k \in Nat, NEW S \in SUBSET (0..k), S # {}
    PROVE  \E m \in S : \A y \in S : y <= m
<1> DEFINE D == {n \in Nat : \E x \in S : n = k - x}
<1>1. D \in SUBSET Nat /\ D # {}
  <2>1. PICK x \in S : TRUE
    OBVIOUS
  <2>2. k - x \in D
    BY <2>1
  <2>3. QED
    BY <2>2
<1>2. PICK d \in D : \A y \in D : d <= y
  <2> HIDE DEF D
  <2>1. QED
    BY <1>1, Least
<1>3. PICK m \in S : d = k - m
  OBVIOUS
<1>4. \A y \in S : y <= m
  <2> SUFFICES ASSUME NEW y \in S PROVE y <= m
    OBVIOUS
  <2>1. k - y \in D
    OBVIOUS
  <2>2. QED
    BY <1>2, <1>3, <2>1
<1>5. QED
  BY <1>4

(***************************************************************************)
(* The id of a new row is one past the largest in use: it is free.         *)
(***************************************************************************)
LEMMA NextIdIsFree ==
    ASSUME NEW L \in Ledger
    PROVE  /\ NextId(L) \in 1..(MaxGaps + 1)
           /\ NoGapsFrom(L, NextId(L))
<1> DEFINE S == {n \in Nat : n \in 1..(MaxGaps + 1) /\ NoGapsFrom(L, n)}
<1>1. S \in SUBSET Nat /\ MaxGaps + 1 \in S
  BY LedgerAssumption DEF NoGapsFrom, Gid
<1>2. PICK m \in S : \A y \in S : m <= y
  <2> HIDE DEF S
  <2>1. QED
    BY <1>1, Least
<1>3. m > 1 => InLedger(L, m - 1)
  <2> SUFFICES ASSUME m > 1, ~InLedger(L, m - 1) PROVE FALSE
    OBVIOUS
  <2>1. m - 1 \in S
    BY LedgerAssumption DEF NoGapsFrom, Gid
  <2>2. QED
    BY <1>2, <2>1
<1>4. \E n \in 1..(MaxGaps + 1) : NoGapsFrom(L, n) /\ (n > 1 => InLedger(L, n - 1))
  BY <1>3
<1>5. QED
  BY <1>4 DEF NextId

(***************************************************************************)
(* The union of a span with live rows F: its lower bound is the least of   *)
(* them, its anchor the anchor of the row the bound comes from; likewise   *)
(* its upper bound.                                                        *)
(***************************************************************************)
LowerOrigin(L, F, s, sm) ==
    \/ UnionStart(L, F, s) = s /\ UnionStartAnchor(L, F, s, sm) = sm
    \/ \E i \in F : /\ UnionStart(L, F, s) = L[i].start
                    /\ UnionStartAnchor(L, F, s, sm) = L[i].sm

LEMMA LowerBound ==
    ASSUME NEW L \in Ledger, NEW F \in SUBSET Gid, \A i \in F : Live(L, i),
           NEW s \in Time, NEW sm
    PROVE  /\ UnionStart(L, F, s) \in Time
           /\ UnionStart(L, F, s) <= s
           /\ \A i \in F : UnionStart(L, F, s) <= L[i].start
           /\ LowerOrigin(L, F, s, sm)
<1>1. \A i \in F : L[i].start \in Time
  BY RowFields DEF Ledger, Live
<1>2. CASE Lowest(L, F, s) = {}
  <2>1. \A i \in F : ~(L[i].start < s)
    <3> SUFFICES ASSUME NEW i \in F, L[i].start < s PROVE FALSE
      OBVIOUS
    <3> DEFINE T == {t \in Nat : \E j \in F : L[j].start = t}
    <3>1. T \in SUBSET Nat /\ L[i].start \in T
      BY <1>1 DEF Time
    <3>2. PICK m \in T : \A y \in T : m <= y
      <4> HIDE DEF T
      <4>1. QED
        BY <3>1, Least
    <3>3. PICK j \in F : L[j].start = m
      OBVIOUS
    <3>4. \A l \in F : L[j].start <= L[l].start
      BY <1>1, <3>2, <3>3 DEF Time
    <3>5. L[j].start < s
      BY <1>1, <3>4 DEF Time
    <3>6. QED
      BY <1>2, <3>4, <3>5 DEF Lowest
  <2>2. UnionStart(L, F, s) = s /\ UnionStartAnchor(L, F, s, sm) = sm
    BY <1>2 DEF UnionStart, UnionStartAnchor
  <2>3. QED
    BY <1>1, <2>1, <2>2 DEF Time, LowerOrigin
<1>3. CASE Lowest(L, F, s) # {}
  <2> DEFINE c == CHOOSE i \in Lowest(L, F, s) : TRUE
  <2>1. c \in Lowest(L, F, s)
    BY <1>3
  <2>2. UnionStart(L, F, s) = L[c].start /\ UnionStartAnchor(L, F, s, sm) = L[c].sm
    BY <1>3 DEF UnionStart, UnionStartAnchor
  <2>3. c \in F /\ L[c].start < s /\ \A j \in F : L[c].start <= L[j].start
    BY <2>1 DEF Lowest
  <2> HIDE DEF c
  <2>4. QED
    BY <1>1, <2>2, <2>3 DEF Time, LowerOrigin
<1>4. QED
  BY <1>2, <1>3

LEMMA UpperBound ==
    ASSUME NEW L \in Ledger, NEW F \in SUBSET Gid, \A i \in F : Live(L, i),
           NEW e \in Time, NEW em
    PROVE  /\ UnionEnd(L, F, e) \in Time
           /\ e <= UnionEnd(L, F, e)
           /\ \A i \in F : L[i].end <= UnionEnd(L, F, e)
           /\ \/ UnionEnd(L, F, e) = e /\ UnionEndAnchor(L, F, e, em) = em
              \/ \E i \in F : /\ UnionEnd(L, F, e) = L[i].end
                              /\ UnionEndAnchor(L, F, e, em) = L[i].em
<1>1. \A i \in F : L[i].end \in Time
  BY RowFields DEF Ledger, Live
<1>2. CASE Highest(L, F, e) = {}
  <2>1. \A i \in F : ~(L[i].end > e)
    <3> SUFFICES ASSUME NEW i \in F, L[i].end > e PROVE FALSE
      OBVIOUS
    <3> DEFINE T == {t \in 0..MaxTime : \E j \in F : L[j].end = t}
    <3>1. T \in SUBSET (0..MaxTime) /\ L[i].end \in T
      BY <1>1 DEF Time
    <3>2. PICK m \in T : \A y \in T : y <= m
      <4> HIDE DEF T
      <4>1. QED
        BY <3>1, Greatest, LedgerAssumption
    <3>3. PICK j \in F : L[j].end = m
      OBVIOUS
    <3>4. \A l \in F : L[j].end >= L[l].end
      BY <1>1, <3>2, <3>3 DEF Time
    <3>5. L[j].end > e
      BY <1>1, <3>4 DEF Time
    <3>6. QED
      BY <1>2, <3>4, <3>5 DEF Highest
  <2>2. UnionEnd(L, F, e) = e /\ UnionEndAnchor(L, F, e, em) = em
    BY <1>2 DEF UnionEnd, UnionEndAnchor
  <2>3. QED
    BY <1>1, <2>1, <2>2 DEF Time
<1>3. CASE Highest(L, F, e) # {}
  <2> DEFINE c == CHOOSE i \in Highest(L, F, e) : TRUE
  <2>1. c \in Highest(L, F, e)
    BY <1>3
  <2>2. UnionEnd(L, F, e) = L[c].end /\ UnionEndAnchor(L, F, e, em) = L[c].em
    BY <1>3 DEF UnionEnd, UnionEndAnchor
  <2>3. c \in F /\ L[c].end > e /\ \A j \in F : L[c].end >= L[j].end
    BY <2>1 DEF Highest
  <2> HIDE DEF c
  <2>4. QED
    BY <1>1, <2>2, <2>3 DEF Time
<1>4. QED
  BY <1>2, <1>3

-----------------------------------------------------------------------------
(***************************************************************************)
(* What the operations keep.  First scrollback_gap_record: it yields a     *)
(* ledger of well-formed rows, live rows that were apart stay apart, and   *)
(* no witnessed hole is lost.  A live row r that is not folded lies wholly *)
(* on one side of the new span; a folded row reaches the span, so were the *)
(* union to meet r, that row would, and the two would not be apart.        *)
(***************************************************************************)
LEMMA DeletedKeeps ==
    ASSUME NEW L \in Ledger, NEW F \in SUBSET Gid
    PROVE  /\ Deleted(L, F) \in Ledger
           /\ \A i \in Gid : Deleted(L, F)[i] = IF i \in F THEN NoRow ELSE L[i]
BY NoRowFields DEF Deleted, Ledger

LEMMA RecordKeeps ==
    ASSUME NEW L \in Ledger, AllWellFormed(L),
           NEW s \in Time, NEW e \in Time, s < e,
           NEW sm \in AnchorsTo(s), NEW em \in AnchorsFrom(e),
           NEW st \in {"witnessed", "candidate"}, RecordId(L, s, e) \in Gid
    PROVE  LET M == GapRecord(L, s, sm, e, em, st)
           IN /\ M \in Ledger /\ AllWellFormed(M)
              /\ AllApart(L) => AllApart(M)
              /\ Holes(L) \subseteq Holes(M)
<1> DEFINE F  == Folded(L, s, e)
           L1 == Deleted(L, F)
           n  == NextId(L1)
           us == UnionStart(L, F, s)
           ue == UnionEnd(L, F, e)
           ua == UnionStartAnchor(L, F, s, sm)
           ub == UnionEndAnchor(L, F, e, em)
           uw == UnionState(L, F, st)
           U  == GapRow(us, ua, ue, ub, uw, 0)
           M  == GapRecord(L, s, sm, e, em, st)
<1>1. /\ F \in SUBSET Gid
      /\ \A i \in F : Live(L, i) /\ L[i].start <= e /\ L[i].end >= s
      /\ \A i \in Gid \ F : Live(L, i) => ~(L[i].start <= e /\ L[i].end >= s)
  BY DEF Folded
<1>2. /\ L1 \in Ledger
      /\ \A i \in Gid : L1[i] = IF i \in F THEN NoRow ELSE L[i]
  BY <1>1, DeletedKeeps
<1>3. n \in Gid /\ ~InLedger(L1, n)
  <2>1. n \in Gid
    BY DEF RecordId
  <2>2. NoGapsFrom(L1, n)
    BY <1>2, NextIdIsFree
  <2>3. QED
    BY <2>1, <2>2 DEF NoGapsFrom, Gid
<1>4. /\ us \in Time /\ us <= s /\ \A i \in F : us <= L[i].start
      /\ \/ us = s /\ ua = sm
         \/ \E i \in F : us = L[i].start /\ ua = L[i].sm
  <2> HIDE DEF F
  <2>1. \A i \in F : Live(L, i)
    BY <1>1
  <2>2. us \in Time /\ us <= s /\ \A i \in F : us <= L[i].start
    BY <1>1, <2>1, LowerBound
  <2>3. \/ us = s /\ ua = sm
        \/ \E i \in F : us = L[i].start /\ ua = L[i].sm
    <3>1. LowerOrigin(L, F, s, sm)
      BY <1>1, <2>1, LowerBound
    <3>2. QED
      BY <3>1, Zenon DEF LowerOrigin
  <2>4. QED
    BY <2>2, <2>3
<1>5. /\ ue \in Time /\ e <= ue /\ \A i \in F : L[i].end <= ue
      /\ \/ ue = e /\ ub = em
         \/ \E i \in F : ue = L[i].end /\ ub = L[i].em
  <2> HIDE DEF F
  <2>1. \A i \in F : Live(L, i)
    BY <1>1
  <2>2. ue \in Time /\ e <= ue /\ \A i \in F : L[i].end <= ue
    BY <1>1, <2>1, UpperBound
  <2>3. \/ ue = e /\ ub = em
        \/ \E i \in F : ue = L[i].end /\ ub = L[i].em
    BY <1>1, <2>1, UpperBound
  <2>4. QED
    BY <2>2, <2>3
<1>6. /\ uw \in {"witnessed", "candidate"}
      /\ \A i \in F : L[i].state = "witnessed" => uw = "witnessed"
  BY DEF UnionState
<1>7. M = [L1 EXCEPT ![n] = U]
  BY DEF GapRecord
<1> HIDE DEF F, L1, n, us, ue, ua, ub, uw
<1>8. /\ U.start = us /\ U.end = ue /\ U.sm = ua /\ U.em = ub /\ U.state = uw
  BY GapRowFields
<1>9. /\ ua \in Anchor /\ ua <= us
      /\ ub \in Anchor /\ (ub = NoAnchor \/ ub >= ue)
  <2>1. /\ sm \in Anchor /\ sm <= s
        /\ em \in Anchor /\ (em = NoAnchor \/ em >= e)
    BY LedgerAssumption DEF AnchorsTo, AnchorsFrom, Anchor, NoAnchor, Time
  <2>2. \A i \in F : /\ L[i].sm \in Anchor /\ L[i].sm <= L[i].start
                     /\ L[i].em \in Anchor
                     /\ (L[i].em = NoAnchor \/ L[i].em >= L[i].end)
    BY <1>1, RowFields DEF AllWellFormed, WellFormed, Live, Ledger
  <2>3. ua \in Anchor /\ ua <= us
    BY <1>4, <2>1, <2>2
  <2>4. ub \in Anchor /\ (ub = NoAnchor \/ ub >= ue)
    BY <1>5, <2>1, <2>2
  <2>5. QED
    BY <2>3, <2>4
<1>10. U \in Row /\ WellFormed(U)
  <2>1. ua \in Anchor /\ ub \in Anchor
    BY <1>9
  <2>2. U \in Row
    BY <1>4, <1>5, <1>6, <2>1, GapRowType, LedgerAssumption DEF GapState
  <2>3. WellFormed(U)
    BY <1>4, <1>5, <1>8, <1>9 DEF WellFormed, Time
  <2>4. QED
    BY <2>2, <2>3
<1> HIDE DEF U, M
<1>11. \A i \in Gid : M[i] = IF i = n THEN U ELSE IF i \in F THEN NoRow ELSE L[i]
  BY <1>2, <1>3, <1>7 DEF Ledger
<1>12. M \in Ledger
  BY <1>2, <1>7, <1>10 DEF Ledger
<1>13. AllWellFormed(M)
  BY <1>10, <1>11, NoRowFields DEF AllWellFormed, WellFormed
<1>14. ASSUME AllApart(L) PROVE AllApart(M)
  <2>1. ASSUME NEW i \in Gid, i # n, Live(M, i)
        PROVE  i \notin F /\ M[i] = L[i] /\ Apart(L[i], U)
    <3>1. i \notin F /\ M[i] = L[i] /\ Live(L, i)
      BY <1>11, <2>1, NoRowFields DEF Live
    <3>2. L[i].start \in Time /\ L[i].end \in Time /\ L[i].start < L[i].end
      BY <3>1, RowFields DEF Live, Ledger, AllWellFormed, WellFormed
    <3>3. L[i].end < s \/ e < L[i].start
      BY <1>1, <3>1, <3>2 DEF Time
    <3>4. \A j \in F : /\ L[j].start \in Time /\ L[j].end \in Time
                       /\ L[i].end < L[j].start \/ L[j].end < L[i].start
      <4> SUFFICES ASSUME NEW j \in F
                   PROVE  /\ L[j].start \in Time /\ L[j].end \in Time
                          /\ L[i].end < L[j].start \/ L[j].end < L[i].start
        OBVIOUS
      <4>1. j \in Gid /\ Live(L, j) /\ j # i
        BY <1>1, <3>1
      <4>2. Apart(L[i], L[j])
        BY <1>14, <3>1, <4>1 DEF AllApart
      <4>3. QED
        BY <4>1, <4>2, RowFields DEF Apart, Live, Ledger
    <3>5. CASE L[i].end < s
      <4>1. L[i].end < us
        BY <1>1, <1>4, <3>2, <3>4, <3>5 DEF Time
      <4>2. QED
        BY <1>8, <3>1, <4>1 DEF Apart
    <3>6. CASE e < L[i].start
      <4>1. ue < L[i].start
        BY <1>1, <1>5, <3>2, <3>4, <3>6 DEF Time
      <4>2. QED
        BY <1>8, <3>1, <4>1 DEF Apart
    <3>7. QED
      BY <3>3, <3>5, <3>6
  <2>2. ASSUME NEW i \in Gid, NEW j \in Gid, i # j, Live(M, i), Live(M, j)
        PROVE  Apart(M[i], M[j])
    <3>1. CASE i = n
      BY <1>11, <2>1, <2>2, <3>1 DEF Apart
    <3>2. CASE j = n
      BY <1>11, <2>1, <2>2, <3>2 DEF Apart
    <3>3. CASE i # n /\ j # n
      <4>1. M[i] = L[i] /\ M[j] = L[j]
        BY <2>1, <2>2, <3>3
      <4>2. QED
        BY <1>14, <2>2, <4>1 DEF AllApart, Live
    <3>4. QED
      BY <3>1, <3>2, <3>3
  <2>3. QED
    BY <2>2 DEF AllApart
<1>15. Holes(L) \subseteq Holes(M)
  <2> SUFFICES ASSUME NEW t \in Time, NEW i \in Gid, L[i].state = "witnessed",
                      L[i].start < t, t < L[i].end
               PROVE  t \in Holes(M)
    BY DEF Holes
  <2>1. L[i].start \in Time /\ L[i].end \in Time
    BY RowFields DEF Ledger
  <2>2. CASE i \in F
    <3>1. M[n] = U /\ U.state = "witnessed"
      BY <1>3, <1>6, <1>8, <1>11, <2>2
    <3>2. U.start < t /\ t < U.end
      BY <1>4, <1>5, <1>8, <2>1, <2>2 DEF Time
    <3>3. QED
      BY <1>3, <3>1, <3>2 DEF Holes
  <2>3. CASE i \notin F
    <3>1. i # n
      BY <1>2, <1>3, <2>3 DEF InLedger
    <3>2. M[i] = L[i]
      BY <1>11, <2>3, <3>1
    <3>3. QED
      BY <3>2 DEF Holes
  <2>4. QED
    BY <2>2, <2>3
<1>16. QED
  BY <1>12, <1>13, <1>14, <1>15 DEF M

(***************************************************************************)
(* All other operations change each row by itself.  Narrows: what is live  *)
(* afterwards was live, and no longer; Keeps: what was witnessed still is. *)
(***************************************************************************)
Narrows(L, M) == \A i \in Gid : Live(M, i) =>
                     Live(L, i) /\ L[i].start <= M[i].start /\ M[i].end <= L[i].end
Keeps(L, M) == \A i \in Gid : L[i].state = "witnessed" =>
                   /\ M[i].state = "witnessed"
                   /\ M[i].start = L[i].start /\ M[i].end = L[i].end

LEMMA NarrowsKeepsApart ==
    ASSUME NEW L \in Ledger, NEW M \in Ledger, AllApart(L), Narrows(L, M)
    PROVE  AllApart(M)
<1> SUFFICES ASSUME NEW i \in Gid, NEW j \in Gid, i # j, Live(M, i), Live(M, j)
             PROVE  Apart(M[i], M[j])
  BY DEF AllApart
<1>1. /\ Live(L, i) /\ L[i].start <= M[i].start /\ M[i].end <= L[i].end
      /\ Live(L, j) /\ L[j].start <= M[j].start /\ M[j].end <= L[j].end
  BY DEF Narrows
<1>2. L[i].end < L[j].start \/ L[j].end < L[i].start
  BY <1>1 DEF AllApart, Apart
<1>3. /\ L[i].start \in 0..MaxTime /\ L[i].end \in 0..MaxTime
      /\ L[j].start \in 0..MaxTime /\ L[j].end \in 0..MaxTime
      /\ M[i].start \in 0..MaxTime /\ M[i].end \in 0..MaxTime
      /\ M[j].start \in 0..MaxTime /\ M[j].end \in 0..MaxTime
  BY RowFields DEF Ledger
<1>4. QED
  BY <1>1, <1>2, <1>3, LedgerAssumption DEF Apart

LEMMA KeepsHoles ==
    ASSUME NEW L \in Ledger, NEW M \in Ledger, Keeps(L, M)
    PROVE  Holes(L) \subseteq Holes(M)
BY DEF Holes, Keeps

\* A change of one row: what has to be shown of the row r and its successor q.
LEMMA OneRow ==
    ASSUME NEW L \in Ledger, AllWellFormed(L), NEW i \in Gid, NEW q \in Row,
           WellFormed(q)
    PROVE  LET M == [L EXCEPT ![i] = q]
           IN /\ M \in Ledger /\ AllWellFormed(M)
              /\ \/ q.state \notin {"witnessed", "candidate"}
                 \/ /\ q.state = L[i].state
                    /\ L[i].start <= q.start /\ q.end <= L[i].end
                 => Narrows(L, M)
              /\ \/ L[i].state # "witnessed"
                 \/ /\ q.state = "witnessed"
                    /\ q.start = L[i].start /\ q.end = L[i].end
                 => Keeps(L, M)
<1> DEFINE M == [L EXCEPT ![i] = q]
<1>1. \A j \in Gid : M[j] = IF j = i THEN q ELSE L[j]
  BY DEF Ledger
<1>2. M \in Ledger
  BY DEF Ledger
<1> HIDE DEF M
<1>3. \A j \in Gid : L[j].start <= L[j].start /\ L[j].end <= L[j].end
  BY RowFields, LedgerAssumption DEF Ledger
<1>4. AllWellFormed(M)
  BY <1>1 DEF AllWellFormed
<1>5. ASSUME \/ q.state \notin {"witnessed", "candidate"}
             \/ /\ q.state = L[i].state
                /\ L[i].start <= q.start /\ q.end <= L[i].end
      PROVE  Narrows(L, M)
  BY <1>1, <1>3, <1>5 DEF Narrows, Live
<1>6. ASSUME \/ L[i].state # "witnessed"
             \/ /\ q.state = "witnessed"
                /\ q.start = L[i].start /\ q.end = L[i].end
      PROVE  Keeps(L, M)
  BY <1>1, <1>6 DEF Keeps
<1>7. QED
  BY <1>2, <1>4, <1>5, <1>6 DEF M

LEMMA SameLedger ==
    ASSUME NEW L \in Ledger
    PROVE  Narrows(L, L) /\ Keeps(L, L)
<1>1. \A i \in Gid : L[i].start <= L[i].start /\ L[i].end <= L[i].end
  BY RowFields, LedgerAssumption DEF Ledger
<1>2. QED
  BY <1>1 DEF Narrows, Keeps

LEMMA ShrinkEndKeeps ==
    ASSUME NEW L \in Ledger, AllWellFormed(L), NEW i \in Gid, InLedger(L, i),
           NEW t \in Time, NEW a \in AnchorsFrom(t)
    PROVE  LET M == GapShrink(L, i, 0, NoAnchor, t, a)
           IN M \in Ledger /\ AllWellFormed(M) /\ (t <= L[i].end => Narrows(L, M))
<1> DEFINE r == L[i]
           n == GapRow(r.start, r.sm, t, a, r.state, 0)
           q == ShrunkRow(r, 0, NoAnchor, t, a)
<1>1. /\ r.start \in Time /\ r.end \in Time /\ r.sm \in Anchor /\ r.state \in GapState
      /\ WellFormed(r)
  BY RowFields DEF InLedger, Ledger, AllWellFormed
<1>2. t > 0 /\ a \in Anchor
  BY LedgerAssumption DEF Time, Anchor, NoAnchor, AnchorsTo, AnchorsFrom
<1> HIDE DEF r
<1>3. q = IF n.start >= n.end THEN NoRow ELSE n
  BY <1>2 DEF ShrunkRow
<1>4. n.start = r.start /\ n.end = t /\ n.sm = r.sm /\ n.em = a /\ n.state = r.state
  BY GapRowFields
<1>5. n \in Row
  BY <1>1, <1>2, GapRowType, LedgerAssumption
<1> HIDE DEF n, q
<1>6. CASE q = NoRow
  <2>1. q \in Row /\ WellFormed(q) /\ q.state \notin {"witnessed", "candidate"}
    BY <1>6, NoRowFields DEF WellFormed
  <2>2. QED
    BY <2>1, OneRow DEF GapShrink, q, r
<1>7. CASE q # NoRow
  <2>1. q = n /\ r.start < t
    BY <1>1, <1>3, <1>4, <1>7 DEF Time
  <2>2. WellFormed(n)
    BY <1>1, <1>4, <2>1 DEF WellFormed, Time, GapState, NoAnchor, AnchorsTo, AnchorsFrom
  <2>3. q.state = r.state /\ (t <= r.end => r.start <= q.start /\ q.end <= r.end)
    BY <1>1, <1>4, <2>1 DEF Time
  <2>4. q \in Row /\ WellFormed(q)
    BY <1>5, <2>1, <2>2
  <2>5. QED
    BY <2>3, <2>4, OneRow DEF GapShrink, q, r
<1>8. QED
  BY <1>6, <1>7

LEMMA ShrinkStartKeeps ==
    ASSUME NEW L \in Ledger, AllWellFormed(L), NEW i \in Gid, InLedger(L, i),
           NEW t \in Time, NEW a \in AnchorsTo(t)
    PROVE  LET M == GapShrink(L, i, t, a, 0, NoAnchor)
           IN M \in Ledger /\ AllWellFormed(M) /\ (t >= L[i].start => Narrows(L, M))
<1> DEFINE r == L[i]
           n == GapRow(t, a, r.end, r.em, r.state, 0)
           q == ShrunkRow(r, t, a, 0, NoAnchor)
<1>1. /\ r.start \in Time /\ r.end \in Time /\ r.em \in Anchor /\ r.state \in GapState
      /\ WellFormed(r)
  BY RowFields DEF InLedger, Ledger, AllWellFormed
<1>2. t > 0 /\ a \in Anchor
  BY LedgerAssumption DEF Time, Anchor, NoAnchor, AnchorsTo, AnchorsFrom
<1> HIDE DEF r
<1>3. q = IF n.start >= n.end THEN NoRow ELSE n
  BY <1>2 DEF ShrunkRow
<1>4. n.start = t /\ n.end = r.end /\ n.sm = a /\ n.em = r.em /\ n.state = r.state
  BY GapRowFields
<1>5. n \in Row
  BY <1>1, <1>2, GapRowType, LedgerAssumption
<1> HIDE DEF n, q
<1>6. CASE q = NoRow
  <2>1. q \in Row /\ WellFormed(q) /\ q.state \notin {"witnessed", "candidate"}
    BY <1>6, NoRowFields DEF WellFormed
  <2>2. QED
    BY <2>1, OneRow DEF GapShrink, q, r
<1>7. CASE q # NoRow
  <2>1. q = n /\ t < r.end
    BY <1>1, <1>3, <1>4, <1>7 DEF Time
  <2>2. WellFormed(n)
    BY <1>1, <1>4, <2>1 DEF WellFormed, Time, GapState, NoAnchor, AnchorsTo, AnchorsFrom
  <2>3. q.state = r.state /\ (t >= r.start => r.start <= q.start /\ q.end <= r.end)
    BY <1>1, <1>4, <2>1 DEF Time
  <2>4. q \in Row /\ WellFormed(q)
    BY <1>5, <2>1, <2>2
  <2>5. QED
    BY <2>3, <2>4, OneRow DEF GapShrink, q, r
<1>8. QED
  BY <1>6, <1>7

\* Any new row that keeps the old row's bounds is as well formed.
LEMMA SameBounds ==
    ASSUME NEW L \in Ledger, AllWellFormed(L), NEW i \in Gid, InLedger(L, i),
           NEW sm \in {NoAnchor, L[i].sm}, NEW em \in {NoAnchor, L[i].em},
           NEW st \in GapState, NEW att \in 0..MaxAttempts
    PROVE  LET q == GapRow(L[i].start, sm, L[i].end, em, st, att)
           IN /\ q \in Row /\ WellFormed(q)
              /\ q.start = L[i].start /\ q.end = L[i].end /\ q.state = st
              /\ L[i].start <= q.start /\ q.end <= L[i].end
<1> DEFINE q == GapRow(L[i].start, sm, L[i].end, em, st, att)
<1>1. /\ L[i].start \in Time /\ L[i].end \in Time
      /\ L[i].sm \in Anchor /\ L[i].em \in Anchor
      /\ WellFormed(L[i]) /\ L[i].state # "none"
  BY RowFields DEF InLedger, Ledger, AllWellFormed
<1>2. sm \in Anchor /\ em \in Anchor
  BY <1>1, LedgerAssumption DEF Anchor, NoAnchor
<1>3. q \in Row
  BY <1>1, <1>2, GapRowType
<1>4. /\ q.start = L[i].start /\ q.end = L[i].end /\ q.state = st
      /\ q.sm = sm /\ q.em = em
  BY GapRowFields
<1> HIDE DEF q
<1>5. WellFormed(q)
  BY <1>1, <1>4 DEF WellFormed, Time, NoAnchor
<1>6. L[i].start <= q.start /\ q.end <= L[i].end
  BY <1>1, <1>4 DEF Time
<1>7. QED
  BY <1>3, <1>4, <1>5, <1>6 DEF q

LEMMA DeadMarkKeeps ==
    ASSUME NEW L \in Ledger, AllWellFormed(L), NEW i \in Gid
    PROVE  LET M == GapSetState(L, i, "dead")
           IN M \in Ledger /\ AllWellFormed(M) /\ Narrows(L, M)
<1>1. CASE InLedger(L, i)
  <2> DEFINE q == WithState(L[i], "dead")
  <2>1. L[i].att \in 0..MaxAttempts
    BY RowFields DEF Ledger
  <2>2. q \in Row /\ WellFormed(q) /\ q.state = "dead"
    BY <1>1, <2>1, SameBounds DEF WithState, GapState
  <2> HIDE DEF q
  <2>3. QED
    BY <1>1, <2>2, OneRow DEF GapSetState, q
<1>2. CASE ~InLedger(L, i)
  BY <1>2, SameLedger DEF GapSetState
<1>3. QED
  BY <1>1, <1>2

LEMMA TouchKeeps ==
    ASSUME NEW L \in Ledger, AllWellFormed(L), NEW i \in Gid
    PROVE  LET M == GapTouch(L, i)
           IN M \in Ledger /\ AllWellFormed(M) /\ Narrows(L, M) /\ Keeps(L, M)
<1>1. CASE InLedger(L, i)
  <2> DEFINE a == IF L[i].att < MaxAttempts THEN L[i].att + 1 ELSE MaxAttempts
             q == GapRow(L[i].start, L[i].sm, L[i].end, L[i].em, L[i].state, a)
  <2>1. L[i].att \in 0..MaxAttempts /\ L[i].state \in GapState
    BY <1>1, RowFields DEF Ledger, InLedger
  <2>2. a \in 0..MaxAttempts
    BY <2>1, LedgerAssumption
  <2>3. GapTouch(L, i) = [L EXCEPT ![i] = q]
    BY <1>1 DEF GapTouch
  <2> HIDE DEF a
  <2>4. /\ q \in Row /\ WellFormed(q) /\ q.state = L[i].state
        /\ q.start = L[i].start /\ q.end = L[i].end
        /\ L[i].start <= q.start /\ q.end <= L[i].end
    BY <1>1, <2>1, <2>2, SameBounds
  <2> HIDE DEF q
  <2>5. QED
    BY <2>3, <2>4, OneRow
<1>2. CASE ~InLedger(L, i)
  BY <1>2, SameLedger DEF GapTouch
<1>3. QED
  BY <1>1, <1>2

LEMMA DropMsgidsKeeps ==
    ASSUME NEW L \in Ledger, AllWellFormed(L), NEW i \in Gid
    PROVE  LET M == GapDropMsgids(L, i)
           IN M \in Ledger /\ AllWellFormed(M) /\ Narrows(L, M) /\ Keeps(L, M)
<1>1. CASE HasAnchor(L[i])
  <2> DEFINE q == GapRow(L[i].start, NoAnchor, L[i].end, NoAnchor, L[i].state, 0)
  <2>1. InLedger(L, i) /\ L[i].state \in GapState
    BY <1>1, RowFields, NoRowFields DEF Ledger, InLedger, HasAnchor, NoAnchor
  <2>2. 0 \in 0..MaxAttempts
    BY LedgerAssumption
  <2>3. GapDropMsgids(L, i) = [L EXCEPT ![i] = q]
    BY <1>1 DEF GapDropMsgids
  <2>4. /\ q \in Row /\ WellFormed(q) /\ q.state = L[i].state
        /\ q.start = L[i].start /\ q.end = L[i].end
        /\ L[i].start <= q.start /\ q.end <= L[i].end
    BY <2>1, <2>2, SameBounds
  <2> HIDE DEF q
  <2>5. QED
    BY <2>3, <2>4, OneRow
<1>2. CASE ~HasAnchor(L[i])
  BY <1>2, SameLedger DEF GapDropMsgids
<1>3. QED
  BY <1>1, <1>2

LEMMA DeleteKeeps ==
    ASSUME NEW L \in Ledger, AllWellFormed(L), NEW i \in Gid
    PROVE  LET M == GapDelete(L, i)
           IN M \in Ledger /\ AllWellFormed(M) /\ Narrows(L, M)
<1>1. /\ NoRow \in Row /\ WellFormed(NoRow)
      /\ NoRow.state \notin {"witnessed", "candidate"}
  BY NoRowFields DEF WellFormed
<1>2. QED
  BY <1>1, OneRow DEF GapDelete

LEMMA DeleteCandidatesKeeps ==
    ASSUME NEW L \in Ledger, AllWellFormed(L)
    PROVE  LET M == GapDeleteCandidates(L)
           IN M \in Ledger /\ AllWellFormed(M) /\ Narrows(L, M) /\ Keeps(L, M)
<1> DEFINE F == {i \in Gid : L[i].state = "candidate"}
           M == GapDeleteCandidates(L)
<1>1. F \in SUBSET Gid
  OBVIOUS
<1>2. /\ M \in Ledger
      /\ \A i \in Gid : M[i] = IF L[i].state = "candidate" THEN NoRow ELSE L[i]
  BY <1>1, DeletedKeeps DEF GapDeleteCandidates
<1> HIDE DEF M
<1>3. \A i \in Gid : L[i].start <= L[i].start /\ L[i].end <= L[i].end
  BY RowFields, LedgerAssumption DEF Ledger
<1>4. AllWellFormed(M)
  BY <1>2, NoRowFields DEF AllWellFormed, WellFormed
<1>5. Narrows(L, M)
  BY <1>2, <1>3, NoRowFields DEF Narrows, Live
<1>6. Keeps(L, M)
  BY <1>2 DEF Keeps
<1>7. QED
  BY <1>2, <1>4, <1>5, <1>6 DEF M

LEMMA ResetKeeps ==
    ASSUME NEW L \in Ledger, AllWellFormed(L), NEW R \in SUBSET Gid
    PROVE  LET M == GapReset(L, R)
           IN /\ M \in Ledger /\ AllWellFormed(M) /\ Keeps(L, M)
              /\ (\A i \in R : L[i].state # "dead") => Narrows(L, M)
<1> DEFINE q(i) == GapRow(L[i].start, NoAnchor, L[i].end, NoAnchor, "witnessed", 0)
           M == GapReset(L, R)
<1>1. ASSUME NEW i \in Gid, InLedger(L, i)
      PROVE  /\ q(i) \in Row /\ WellFormed(q(i)) /\ q(i).state = "witnessed"
             /\ q(i).start = L[i].start /\ q(i).end = L[i].end
  <2>1. 0 \in 0..MaxAttempts /\ "witnessed" \in GapState
    BY LedgerAssumption DEF GapState
  <2>2. QED
    BY <1>1, <2>1, SameBounds
<1>2. \A i \in Gid : M[i] = IF i \in R /\ InLedger(L, i) THEN q(i) ELSE L[i]
  BY DEF GapReset
<1>3. M \in Ledger
  BY <1>1 DEF GapReset, Ledger
<1> HIDE DEF M, q
<1>4. \A i \in Gid : L[i].start <= L[i].start /\ L[i].end <= L[i].end
  BY RowFields, LedgerAssumption DEF Ledger
<1>5. AllWellFormed(M)
  BY <1>1, <1>2 DEF AllWellFormed
<1>6. Keeps(L, M)
  BY <1>1, <1>2 DEF Keeps, InLedger
<1>7. ASSUME \A i \in R : L[i].state # "dead" PROVE Narrows(L, M)
  <2> SUFFICES ASSUME NEW i \in Gid, Live(M, i)
               PROVE  Live(L, i) /\ L[i].start <= M[i].start /\ M[i].end <= L[i].end
    BY DEF Narrows
  <2>1. CASE i \in R /\ InLedger(L, i)
    <3>1. L[i].state \in GapState
      BY <2>1, RowFields DEF Ledger, InLedger
    <3>2. Live(L, i)
      BY <1>7, <2>1, <3>1 DEF Live, GapState
    <3>3. QED
      BY <1>1, <1>2, <1>4, <2>1, <3>2
  <2>2. CASE ~(i \in R /\ InLedger(L, i))
    BY <1>2, <1>4, <2>2 DEF Live
  <2>3. QED
    BY <2>1, <2>2
<1>8. QED
  BY <1>3, <1>5, <1>6, <1>7 DEF M

-----------------------------------------------------------------------------
(***************************************************************************)
(* The inductive invariant.  The rows are typed and well formed, which the *)
(* merge needs of the rows it folds; that they are apart needs both.       *)
(***************************************************************************)
Inv == TypeOK /\ AnchorsSpanHole /\ LiveGapsApart

\* The steps that answers of the server justify.
Answer == \/ \E i \in Gid, t \in Time : ShrinkEnd(i, t) \/ ShrinkStart(i, t)
          \/ \E i \in Gid : DeadMark(i) \/ Bridge(i)

LEMMA InitInv == Init => Inv
<1> SUFFICES ASSUME Init PROVE Inv
  OBVIOUS
<1>1. gaps \in Ledger /\ \A i \in Gid : gaps[i] = NoRow
  BY NoRowFields DEF Init, NoGaps, Ledger
<1>2. TypeOK
  <2>1. bootDone \in BOOLEAN /\ revived \in BOOLEAN /\ widened \in BOOLEAN
    BY Zenon DEF Init
  <2>2. scan \in -1..MaxTime
    BY LedgerAssumption DEF Init
  <2>3. QED
    BY <1>1, <2>1, <2>2, Zenon DEF TypeOK
<1>3. AnchorsSpanHole
  BY <1>1, NoRowFields DEF AnchorsSpanHole, AllWellFormed, WellFormed
<1>4. LiveGapsApart
  BY <1>1, NoRowFields DEF LiveGapsApart, AllApart, Live
<1>5. QED
  BY <1>2, <1>3, <1>4 DEF Inv

\* A step that changes the rows one by one and leaves the rest alone.
LEMMA RowWise ==
    ASSUME Inv, gaps' \in Ledger, AllWellFormed(gaps'), Narrows(gaps, gaps'),
           UNCHANGED <<bootDone, scan, histVars>>
    PROVE  Inv'
<1>1. gaps \in Ledger
  BY DEF Inv, TypeOK
<1>2. TypeOK'
  BY DEF Inv, TypeOK, histVars
<1>3. AnchorsSpanHole'
  BY DEF AnchorsSpanHole
<1>4. AllApart(gaps) => AllApart(gaps')
  BY <1>1, NarrowsKeepsApart
<1>5. LiveGapsApart'
  BY <1>4 DEF LiveGapsApart, Inv, histVars
<1>6. QED
  BY <1>2, <1>3, <1>5 DEF Inv

\* A shrink, which may also move its bound outwards.
LEMMA ShrinkStep ==
    ASSUME Inv, gaps' \in Ledger, AllWellFormed(gaps'), NEW out \in BOOLEAN,
           ~out => Narrows(gaps, gaps'), widened' = (widened \/ out),
           UNCHANGED <<bootDone, scan, revived>>
    PROVE  Inv'
<1>1. gaps \in Ledger /\ widened \in BOOLEAN
  BY DEF Inv, TypeOK
<1>2. TypeOK'
  BY <1>1 DEF Inv, TypeOK
<1>3. AnchorsSpanHole'
  BY DEF AnchorsSpanHole
<1>4. ~out /\ AllApart(gaps) => AllApart(gaps')
  BY <1>1, NarrowsKeepsApart
<1>5. LiveGapsApart'
  BY <1>4 DEF LiveGapsApart, Inv
<1>6. QED
  BY <1>2, <1>3, <1>5 DEF Inv

\* A step that leaves the rows alone.
LEMMA SameRows ==
    ASSUME Inv, UNCHANGED <<gaps, histVars>>, bootDone' \in BOOLEAN,
           scan' \in -1..MaxTime
    PROVE  Inv' /\ KnownHoles \subseteq KnownHoles'
<1>1. TypeOK'
  BY DEF Inv, TypeOK, histVars
<1>2. AnchorsSpanHole' /\ LiveGapsApart'
  BY DEF Inv, AnchorsSpanHole, LiveGapsApart, histVars
<1>3. KnownHoles' = KnownHoles
  BY DEF KnownHoles
<1>4. QED
  BY <1>1, <1>2, <1>3 DEF Inv

LEMMA RecordStep ==
    ASSUME Inv, NEW s \in Time, NEW e \in Time, s < e,
           NEW sm \in AnchorsTo(s), NEW em \in AnchorsFrom(e),
           NEW st \in {"witnessed", "candidate"}, Room(gaps, s, e),
           gaps' = GapRecord(gaps, s, sm, e, em, st),
           bootDone' = bootDone, scan' \in -1..MaxTime, UNCHANGED histVars
    PROVE  Inv' /\ KnownHoles \subseteq KnownHoles'
<1>1. gaps \in Ledger /\ AllWellFormed(gaps) /\ RecordId(gaps, s, e) \in Gid
  BY DEF Inv, TypeOK, AnchorsSpanHole, Room
<1>2. /\ gaps' \in Ledger /\ AllWellFormed(gaps')
      /\ AllApart(gaps) => AllApart(gaps')
      /\ Holes(gaps) \subseteq Holes(gaps')
  BY <1>1, RecordKeeps
<1>3. TypeOK'
  BY <1>2 DEF Inv, TypeOK, histVars
<1>4. AnchorsSpanHole'
  BY <1>2 DEF AnchorsSpanHole
<1>5. LiveGapsApart'
  BY <1>2 DEF LiveGapsApart, Inv, histVars
<1>6. KnownHoles \subseteq KnownHoles'
  BY <1>2 DEF KnownHoles
<1>7. QED
  BY <1>3, <1>4, <1>5, <1>6 DEF Inv

LEMMA StepInv ==
    ASSUME Inv, [Next]_vars
    PROVE  Inv' /\ (KnownHoles \subseteq KnownHoles' \/ Answer)
<1> USE DEF KnownHoles
<1>1. gaps \in Ledger /\ AllWellFormed(gaps)
  BY DEF Inv, TypeOK, AnchorsSpanHole
<1>2. bootDone \in BOOLEAN /\ scan \in -1..MaxTime /\ revived \in BOOLEAN /\ widened \in BOOLEAN
  BY DEF Inv, TypeOK
<1>3. ASSUME NEW s \in Time, NEW e \in Time, NEW sm \in AnchorsTo(s),
             NEW em \in AnchorsFrom(e), Witness(s, sm, e, em)
      PROVE  Inv' /\ KnownHoles \subseteq KnownHoles'
  BY <1>2, <1>3, RecordStep DEF Witness
<1>4. CASE BootstrapBegin
  BY <1>2, <1>4, SameRows, LedgerAssumption DEF BootstrapBegin
<1>5. ASSUME NEW t \in Time, NEW far \in BOOLEAN, BootstrapRow(t, far)
      PROVE  Inv' /\ KnownHoles \subseteq KnownHoles'
  <2>1. scan' \in -1..MaxTime /\ UNCHANGED <<bootDone, histVars>>
    BY <1>5, LedgerAssumption DEF BootstrapRow, Time
  <2>2. CASE scan > 0 /\ far
    <3>1. scan \in Time /\ scan < t /\ Room(gaps, scan, t)
      BY <1>2, <1>5, <2>2 DEF BootstrapRow, Time
    <3>2. PICK sm \in {NoAnchor, scan}, em \in {NoAnchor, t} :
               gaps' = GapRecord(gaps, scan, sm, t, em, "candidate")
      BY <1>5, <2>2 DEF BootstrapRow
    <3>3. sm \in AnchorsTo(scan) /\ em \in AnchorsFrom(t)
      BY <1>5, <3>1, <3>2 DEF AnchorsTo, AnchorsFrom, Time
    <3>4. QED
      BY <2>1, <3>1, <3>2, <3>3, RecordStep
  <2>3. CASE ~(scan > 0 /\ far)
    <3>1. gaps' = gaps
      BY <1>5, <2>3 DEF BootstrapRow
    <3>2. QED
      BY <1>2, <2>1, <3>1, SameRows
  <2>4. QED
    BY <2>2, <2>3
<1>6. CASE BootstrapEnd
  BY <1>2, <1>6, SameRows, LedgerAssumption DEF BootstrapEnd
<1>7. ASSUME NEW i \in Gid, NEW t \in Time, ShrinkEnd(i, t)
      PROVE  Inv' /\ Answer
  <2>1. PICK a \in AnchorsFrom(t) : gaps' = GapShrink(gaps, i, 0, NoAnchor, t, a)
    BY <1>7 DEF ShrinkEnd
  <2>2. InLedger(gaps, i)
    BY <1>7 DEF ShrinkEnd
  <2>3. /\ gaps' \in Ledger /\ AllWellFormed(gaps')
        /\ t <= gaps[i].end => Narrows(gaps, gaps')
    BY <1>1, <2>1, <2>2, ShrinkEndKeeps
  <2> DEFINE out == t > gaps[i].end
  <2>4. /\ out \in BOOLEAN /\ (~out => t <= gaps[i].end)
        /\ widened' = (widened \/ out) /\ UNCHANGED <<bootDone, scan, revived>>
    BY <1>1, <1>7, RowFields DEF ShrinkEnd, Ledger, Time
  <2> HIDE DEF out
  <2>5. Inv'
    BY <2>3, <2>4, ShrinkStep
  <2>6. QED
    BY <1>7, <2>5 DEF Answer
<1>8. ASSUME NEW i \in Gid, NEW t \in Time, ShrinkStart(i, t)
      PROVE  Inv' /\ Answer
  <2>1. PICK a \in AnchorsTo(t) : gaps' = GapShrink(gaps, i, t, a, 0, NoAnchor)
    BY <1>8 DEF ShrinkStart
  <2>2. InLedger(gaps, i)
    BY <1>8 DEF ShrinkStart
  <2>3. /\ gaps' \in Ledger /\ AllWellFormed(gaps')
        /\ t >= gaps[i].start => Narrows(gaps, gaps')
    BY <1>1, <2>1, <2>2, ShrinkStartKeeps
  <2> DEFINE out == t < gaps[i].start
  <2>4. /\ out \in BOOLEAN /\ (~out => t >= gaps[i].start)
        /\ widened' = (widened \/ out) /\ UNCHANGED <<bootDone, scan, revived>>
    BY <1>1, <1>8, RowFields DEF ShrinkStart, Ledger, Time
  <2> HIDE DEF out
  <2>5. Inv'
    BY <2>3, <2>4, ShrinkStep
  <2>6. QED
    BY <1>8, <2>5 DEF Answer
<1>9. ASSUME NEW i \in Gid, DeadMark(i)
      PROVE  Inv' /\ Answer
  <2>1. gaps' \in Ledger /\ AllWellFormed(gaps') /\ Narrows(gaps, gaps')
    BY <1>1, <1>9, DeadMarkKeeps DEF DeadMark
  <2>2. Inv'
    BY <1>9, <2>1, RowWise DEF DeadMark
  <2>3. QED
    BY <1>9, <2>2 DEF Answer
<1>10. ASSUME NEW i \in Gid, Bridge(i)
       PROVE  Inv' /\ Answer
  <2>1. gaps' \in Ledger /\ AllWellFormed(gaps') /\ Narrows(gaps, gaps')
    BY <1>1, <1>10, DeleteKeeps DEF Bridge
  <2>2. Inv'
    BY <1>10, <2>1, RowWise DEF Bridge
  <2>3. QED
    BY <1>10, <2>2 DEF Answer
<1>11. ASSUME NEW i \in Gid, Touch(i)
       PROVE  Inv' /\ KnownHoles \subseteq KnownHoles'
  <2>1. /\ gaps' \in Ledger /\ AllWellFormed(gaps')
        /\ Narrows(gaps, gaps') /\ Keeps(gaps, gaps')
    BY <1>1, <1>11, TouchKeeps DEF Touch
  <2>2. Inv'
    BY <1>11, <2>1, RowWise DEF Touch
  <2>3. QED
    BY <1>1, <2>1, <2>2, KeepsHoles
<1>12. ASSUME NEW i \in Gid, DropMsgids(i)
       PROVE  Inv' /\ KnownHoles \subseteq KnownHoles'
  <2>1. /\ gaps' \in Ledger /\ AllWellFormed(gaps')
        /\ Narrows(gaps, gaps') /\ Keeps(gaps, gaps')
    BY <1>1, <1>12, DropMsgidsKeeps DEF DropMsgids
  <2>2. Inv'
    BY <1>12, <2>1, RowWise DEF DropMsgids
  <2>3. QED
    BY <1>1, <2>1, <2>2, KeepsHoles
<1>13. ASSUME NEW R \in SUBSET Gid, UserReset(R)
       PROVE  Inv' /\ KnownHoles \subseteq KnownHoles'
  <2>1. /\ gaps' \in Ledger /\ AllWellFormed(gaps') /\ Keeps(gaps, gaps')
        /\ (\A i \in R : gaps[i].state # "dead") => Narrows(gaps, gaps')
    BY <1>1, <1>13, ResetKeeps DEF UserReset
  <2>2. /\ revived' = (revived \/ \E i \in R : gaps[i].state = "dead")
        /\ UNCHANGED <<bootDone, scan, widened>>
    BY <1>13 DEF UserReset
  <2>3. revived' \in BOOLEAN
    BY <2>2
  <2>4. TypeOK'
    BY <1>2, <2>1, <2>2, <2>3 DEF TypeOK
  <2>5. AnchorsSpanHole'
    BY <2>1 DEF AnchorsSpanHole
  <2>6. LiveGapsApart'
    <3>1. CASE revived' \/ widened'
      BY <3>1 DEF LiveGapsApart
    <3>2. CASE ~(revived' \/ widened')
      <4>1. ~(revived \/ widened) /\ \A i \in R : gaps[i].state # "dead"
        BY <2>2, <3>2
      <4>2. AllApart(gaps)
        BY <4>1 DEF Inv, LiveGapsApart
      <4>3. AllApart(gaps')
        BY <1>1, <2>1, <4>1, <4>2, NarrowsKeepsApart
      <4>4. QED
        BY <4>3 DEF LiveGapsApart
    <3>3. QED
      BY <3>1, <3>2
  <2>7. QED
    BY <1>1, <2>1, <2>4, <2>5, <2>6, KeepsHoles DEF Inv
<1>14. CASE UserRescan
  <2>1. bootDone' \in BOOLEAN
    BY <1>14, Zenon DEF UserRescan
  <2>2. scan' \in -1..MaxTime /\ UNCHANGED <<gaps, histVars>>
    BY <1>14, LedgerAssumption DEF UserRescan
  <2>3. QED
    BY <2>1, <2>2, SameRows
<1>15. CASE PurgeCandidates
  <2>1. /\ gaps' \in Ledger /\ AllWellFormed(gaps')
        /\ Narrows(gaps, gaps') /\ Keeps(gaps, gaps')
    BY <1>1, <1>15, DeleteCandidatesKeeps DEF PurgeCandidates
  <2>2. Inv'
    BY <1>15, <2>1, RowWise DEF PurgeCandidates
  <2>3. QED
    BY <1>1, <2>1, <2>2, KeepsHoles
<1>16. CASE UNCHANGED vars
  BY <1>2, <1>16, SameRows DEF vars, histVars
<1>17. QED
  <2>1. \A i \in Gid : {i} \in SUBSET Gid
    OBVIOUS
  <2>2. Gid \in SUBSET Gid
    OBVIOUS
  <2>3. QED
    BY <1>3, <1>4, <1>5, <1>6, <1>7, <1>8, <1>9, <1>10, <1>11, <1>12, <1>13,
       <1>14, <1>15, <1>16, <2>1, <2>2, Zenon DEF Next

LEMMA Inductive == Spec => []Inv
<1>1. Inv /\ [Next]_vars => Inv'
  BY StepInv
<1>2. QED
  BY InitInv, <1>1, PTL DEF Spec

-----------------------------------------------------------------------------
(***************************************************************************)
(* The ledger keeps its rows within their types, whatever sequence of      *)
(* records, shrinks, scans and resets scrollback.c goes through.           *)
(***************************************************************************)
THEOREM Typing == Spec => []TypeOK
<1>1. Inv => TypeOK
  BY DEF Inv
<1>2. QED
  BY Inductive, <1>1, PTL

(***************************************************************************)
(* Every row describes a hole and its anchors lie outside it, for any      *)
(* number of rows: no merge or shrink pairs a bound with a msgid from      *)
(* inside the hole, by which a fill would skip part of it.                 *)
(***************************************************************************)
THEOREM Anchored == Spec => []AnchorsSpanHole
<1>1. Inv => AnchorsSpanHole
  BY DEF Inv
<1>2. QED
  BY Inductive, <1>1, PTL

(***************************************************************************)
(* scrollback_gap_record's single pass over the rows its span touches is   *)
(* enough: live gaps stay apart until a reset revives a dead one or a      *)
(* shrink moves a bound outwards.                                          *)
(***************************************************************************)
THEOREM Disjointness == Spec => []LiveGapsApart
<1>1. Inv => LiveGapsApart
  BY DEF Inv
<1>2. QED
  BY Inductive, <1>1, PTL

(***************************************************************************)
(* Only the server's answers make a witnessed hole smaller: no merge,      *)
(* rescan, purge, retry or reset of scrollback.c does.                     *)
(***************************************************************************)
THEOREM NothingForgotten == Spec => WitnessedHolesKept
<1>1. ASSUME Inv, [Next]_vars
      PROVE  [\/ KnownHoles \subseteq KnownHoles'
              \/ \E i \in Gid, t \in Time : ShrinkEnd(i, t) \/ ShrinkStart(i, t)
              \/ \E i \in Gid : DeadMark(i) \/ Bridge(i)]_vars
  BY <1>1, StepInv DEF Answer
<1>2. QED
  BY Inductive, <1>1, PTL DEF Spec, WitnessedHolesKept

=============================================================================
