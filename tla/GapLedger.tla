----------------------------- MODULE GapLedger -----------------------------
(***************************************************************************)
(* The gap ledger of src/src/common/scrollback.c: the holes known to exist *)
(* in the stored history of a channel, one row of the gaps table each.     *)
(*                                                                         *)
(* A bound is the time of the stored message next to the hole.  An anchor  *)
(* is a msgid, modelled by the time of its message, or NoAnchor (NULL): of *)
(* the newest message up to the lower bound, or the oldest from the upper  *)
(* bound on, that HAS a msgid, which need not be the message the bound     *)
(* comes from.                                                             *)
(***************************************************************************)
EXTENDS Integers

CONSTANTS
    MaxTime,        \* bound: message times are 1..MaxTime
    MaxGaps,        \* bound: row ids are 1..MaxGaps
    MaxAttempts     \* cap: attempts count no further than the third strike

ASSUME LedgerAssumption ==
    MaxTime \in Nat /\ MaxGaps \in Nat \ {0} /\ MaxAttempts \in Nat \ {0}

Time     == 1..MaxTime
NoAnchor == 0
Anchor   == 0..MaxTime
Gid      == 1..MaxGaps

\* The anchors that stored rows and batches offer for a bound.
AnchorsTo(t)   == {NoAnchor} \cup 1..t
AnchorsFrom(t) == {NoAnchor} \cup t..MaxTime

\* SCROLLBACK_GAP_WITNESSED, _CANDIDATE and _DEAD; "none" stands for no row.
GapState == {"witnessed", "candidate", "dead"}
GapRow(s, sm, e, em, st, att) ==
    [start |-> s, end |-> e, sm |-> sm, em |-> em, state |-> st, att |-> att]
NoRow  == GapRow(0, NoAnchor, 0, NoAnchor, "none", 0)
Row == [start : Time, end : Time, sm : Anchor, em : Anchor,
        state : GapState, att : 0..MaxAttempts] \cup {NoRow}
Ledger == [Gid -> Row]
NoGaps == [i \in Gid |-> NoRow]

InLedger(L, i) == L[i].state # "none"
Live(L, i)     == L[i].state \in {"witnessed", "candidate"}
NoGapsFrom(L, n) == \A i \in Gid : i >= n => ~InLedger(L, i)

\* INTEGER PRIMARY KEY: one more than the largest id in the table.
NextId(L) == CHOOSE n \in 1..(MaxGaps + 1) :
                /\ NoGapsFrom(L, n)
                /\ n > 1 => InLedger(L, n - 1)

-----------------------------------------------------------------------------
(***************************************************************************)
(* scrollback_gap_record.  Folded(L, s, e) are the live rows the new span  *)
(* overlaps or touches; they are deleted and the union of all of them is   *)
(* inserted, each bound with the anchor of the row it comes from.          *)
(***************************************************************************)
Folded_OverlapOnly(L, s, e) ==
    {i \in Gid : Live(L, i) /\ L[i].start < e /\ L[i].end > s}

Folded(L, s, e) == {i \in Gid : Live(L, i) /\ L[i].start <= e /\ L[i].end >= s}

\* The row that contributes the lower (upper) bound of the union, if any.
Lowest(L, F, s)  == {i \in F : L[i].start < s /\ \A j \in F : L[i].start <= L[j].start}
Highest(L, F, e) == {i \in F : L[i].end > e /\ \A j \in F : L[i].end >= L[j].end}

UnionStart(L, F, s) == IF Lowest(L, F, s) = {} THEN s
                       ELSE L[CHOOSE i \in Lowest(L, F, s) : TRUE].start
UnionEnd(L, F, e)   == IF Highest(L, F, e) = {} THEN e
                       ELSE L[CHOOSE i \in Highest(L, F, e) : TRUE].end
UnionStartAnchor_KeepsNew(L, F, s, sm) == sm

UnionStartAnchor(L, F, s, sm) == IF Lowest(L, F, s) = {} THEN sm
                                 ELSE L[CHOOSE i \in Lowest(L, F, s) : TRUE].sm
UnionEndAnchor(L, F, e, em)   == IF Highest(L, F, e) = {} THEN em
                                 ELSE L[CHOOSE i \in Highest(L, F, e) : TRUE].em

\* MIN of the states: witnessed absorbs candidate.
UnionState_KeepsNew(L, F, st) == st

UnionState(L, F, st) == IF \E i \in F : L[i].state = "witnessed" THEN "witnessed" ELSE st

Deleted(L, F) == [i \in Gid |-> IF i \in F THEN NoRow ELSE L[i]]

RecordId(L, s, e) == NextId(Deleted(L, Folded(L, s, e)))

GapRecord(L, s, sm, e, em, st) ==
    LET F  == Folded(L, s, e)
        L1 == Deleted(L, F)
    IN [L1 EXCEPT ![NextId(L1)] =
            GapRow(UnionStart(L, F, s), UnionStartAnchor(L, F, s, sm),
                   UnionEnd(L, F, e), UnionEndAnchor(L, F, e, em),
                   UnionState(L, F, st), 0)]

(***************************************************************************)
(* scrollback_gap_shrink: 0 keeps a side.  A row left inverted is deleted. *)
(***************************************************************************)
ShrunkRow_ZeroReplaces(r, s, sm, e, em) ==
    LET n == GapRow(s, sm, e, em, r.state, 0)
    IN IF n.start >= n.end THEN NoRow ELSE n

ShrunkRow(r, s, sm, e, em) ==
    LET n == GapRow(IF s > 0 THEN s ELSE r.start, IF s > 0 THEN sm ELSE r.sm,
                    IF e > 0 THEN e ELSE r.end, IF e > 0 THEN em ELSE r.em, r.state, 0)
    IN IF n.start >= n.end THEN NoRow ELSE n

GapShrink(L, i, s, sm, e, em) ==
    IF InLedger(L, i) THEN [L EXCEPT ![i] = ShrunkRow(L[i], s, sm, e, em)] ELSE L

WithState(r, st) == GapRow(r.start, r.sm, r.end, r.em, st, r.att)
GapSetState(L, i, st) ==
    IF InLedger(L, i) THEN [L EXCEPT ![i] = WithState(L[i], st)] ELSE L

GapTouch(L, i) ==
    IF InLedger(L, i)
    THEN [L EXCEPT ![i] = GapRow(L[i].start, L[i].sm, L[i].end, L[i].em, L[i].state,
                    IF L[i].att < MaxAttempts THEN L[i].att + 1 ELSE MaxAttempts)]
    ELSE L

GapDelete(L, i) == [L EXCEPT ![i] = NoRow]

\* Its second result, whether there was an anchor to drop.
HasAnchor(r) == r.sm # NoAnchor \/ r.em # NoAnchor
GapDropMsgids(L, i) ==
    IF HasAnchor(L[i])
    THEN [L EXCEPT ![i] = GapRow(L[i].start, NoAnchor, L[i].end, NoAnchor, L[i].state, 0)]
    ELSE L

GapDeleteCandidates(L) == Deleted(L, {i \in Gid : L[i].state = "candidate"})

\* scrollback_gap_reset of the rows R: also a dead row is witnessed again.
GapReset(L, R) ==
    [i \in Gid |-> IF i \in R /\ InLedger(L, i)
                   THEN GapRow(L[i].start, NoAnchor, L[i].end, NoAnchor, "witnessed", 0)
                   ELSE L[i]]

-----------------------------------------------------------------------------
VARIABLES
    gaps,       \* the rows of one channel
    bootDone,   \* channels.gap_bootstrap_done
    scan,       \* bootstrap: time of the row last seen (0: none), or -1 when not scanning
    revived,    \* history: a reset has brought a dead row back
    widened     \* history: a shrink has moved a bound outwards

vars == <<gaps, bootDone, scan, revived, widened>>
histVars == <<revived, widened>>

TypeOK ==
    /\ gaps \in Ledger /\ bootDone \in BOOLEAN
    /\ scan \in -1..MaxTime /\ revived \in BOOLEAN /\ widened \in BOOLEAN

Init == /\ gaps = NoGaps /\ bootDone = FALSE /\ scan = -1
        /\ revived = FALSE /\ widened = FALSE

Room(L, s, e) == RecordId(L, s, e) \in Gid      \* bound

\* The witness of a LATEST batch: the hole between the row that was newest
\* when the catch-up began and the batch.  What was given up lies before it;
\* a bootstrap scan may since have recorded candidates beyond it.
Witness(s, sm, e, em) ==
    /\ scan = -1 /\ s < e /\ Room(gaps, s, e)
    /\ \A i \in Gid : gaps[i].state = "dead" => gaps[i].end <= s
    /\ gaps' = GapRecord(gaps, s, sm, e, em, "witnessed")
    /\ UNCHANGED <<bootDone, scan, histVars>>

(***************************************************************************)
(* scrollback_gap_bootstrap: one transaction that walks the stored rows    *)
(* upwards and records a candidate between any two that lie far enough     *)
(* apart.                                                                  *)
(***************************************************************************)
BootstrapBegin == scan = -1 /\ ~bootDone /\ scan' = 0 /\ UNCHANGED <<gaps, bootDone, histVars>>

BootstrapRow(t, far) ==
    /\ scan >= 0 /\ t > scan
    /\ IF scan > 0 /\ far
       THEN /\ Room(gaps, scan, t)
            /\ \E sm \in {NoAnchor, scan}, em \in {NoAnchor, t} :
                 gaps' = GapRecord(gaps, scan, sm, t, em, "candidate")
       ELSE UNCHANGED gaps
    /\ scan' = t /\ UNCHANGED <<bootDone, histVars>>

BootstrapEnd ==
    scan >= 0 /\ scan' = -1 /\ bootDone' = TRUE /\ UNCHANGED <<gaps, histVars>>

\* A batch filled the hole from its upper (lower) end.  It may reach past the
\* other bound, and nothing compares it with the bound it replaces: a LATEST
\* retried by time in the BEFORE phase is taken for a BEFORE, and a request
\* by an anchor outside the bound may stop short of the bound.
ShrinkEnd(i, t) ==
    /\ scan = -1 /\ InLedger(gaps, i)
    /\ \E a \in AnchorsFrom(t) : gaps' = GapShrink(gaps, i, 0, NoAnchor, t, a)
    /\ widened' = (widened \/ t > gaps[i].end)
    /\ UNCHANGED <<bootDone, scan, revived>>

ShrinkStart(i, t) ==
    /\ scan = -1 /\ InLedger(gaps, i)
    /\ \E a \in AnchorsTo(t) : gaps' = GapShrink(gaps, i, t, a, 0, NoAnchor)
    /\ widened' = (widened \/ t < gaps[i].start)
    /\ UNCHANGED <<bootDone, scan, revived>>

\* Empty, exhausted or out of attempts; closed; tried; re-anchored.
DeadMark(i) == /\ scan = -1 /\ gaps' = GapSetState(gaps, i, "dead")
               /\ UNCHANGED <<bootDone, scan, histVars>>
Bridge(i)   == scan = -1 /\ gaps' = GapDelete(gaps, i) /\ UNCHANGED <<bootDone, scan, histVars>>
Touch(i)    == scan = -1 /\ gaps' = GapTouch(gaps, i) /\ UNCHANGED <<bootDone, scan, histVars>>
DropMsgids(i) ==
    scan = -1 /\ gaps' = GapDropMsgids(gaps, i) /\ UNCHANGED <<bootDone, scan, histVars>>

\* /GAPS RESET of one row or of the whole channel, /GAPS RESCAN and
\* /GAPS CLEAR (also done when the scrollback of a query is loaded: queries
\* have no use for candidates).
UserReset(R) ==
    /\ scan = -1
    /\ gaps' = GapReset(gaps, R)
    /\ revived' = (revived \/ \E i \in R : gaps[i].state = "dead")
    /\ UNCHANGED <<bootDone, scan, widened>>
UserRescan ==
    /\ scan = -1 /\ bootDone /\ scan' = 0 /\ bootDone' = FALSE
    /\ UNCHANGED <<gaps, histVars>>
PurgeCandidates ==
    scan = -1 /\ gaps' = GapDeleteCandidates(gaps) /\ UNCHANGED <<bootDone, scan, histVars>>

Next ==
    \/ \E s, e \in Time :
         \E sm \in AnchorsTo(s), em \in AnchorsFrom(e) : Witness(s, sm, e, em)
    \/ BootstrapBegin \/ (\E t \in Time, far \in BOOLEAN : BootstrapRow(t, far))
    \/ BootstrapEnd
    \/ \E i \in Gid, t \in Time : ShrinkEnd(i, t) \/ ShrinkStart(i, t)
    \/ \E i \in Gid : DeadMark(i) \/ Bridge(i) \/ Touch(i) \/ DropMsgids(i) \/ UserReset({i})
    \/ UserReset(Gid) \/ UserRescan \/ PurgeCandidates

Spec == Init /\ [][Next]_vars

-----------------------------------------------------------------------------
(***************************************************************************)
(* Properties.                                                             *)
(***************************************************************************)

\* Two rows neither overlap nor touch.
Apart(r, q) == r.end < q.start \/ q.end < r.start

(***************************************************************************)
(* "Gaps within a channel are disjoint": the live gaps stay apart however  *)
(* records, partial fills and the bootstrap scan follow one another, so    *)
(* that scrollback_gap_record need only look at the rows the NEW span      *)
(* touches, not at those its union reaches.  Two things end this: a reset  *)
(* of a dead row, which is brought back without being merged, and a        *)
(* "shrink" that moves a bound outwards, which nothing in                  *)
(* scrollback_gap_shrink or its callers rules out.                         *)
(***************************************************************************)
AllApart(L) ==
    \A i, j \in Gid : i # j /\ Live(L, i) /\ Live(L, j) => Apart(L[i], L[j])
LiveGapsApart == revived \/ widened \/ AllApart(gaps)

(***************************************************************************)
(* The weaker half of it, no moment lies inside two live gaps, taken       *)
(* separately of resets and of shrinks.                                    *)
(***************************************************************************)
LiveGapsDisjoint ==
    \A i, j \in Gid : i # j /\ Live(gaps, i) /\ Live(gaps, j) =>
        gaps[i].end <= gaps[j].start \/ gaps[j].end <= gaps[i].start
ResetsKeepDisjoint  == widened \/ LiveGapsDisjoint
ShrinksKeepDisjoint == revived \/ LiveGapsDisjoint

(***************************************************************************)
(* A row always describes a hole (start before end), and its anchors lie   *)
(* on the outer side of their bounds through any number of merges, fills   *)
(* and re-anchorings: the request chathistory_request_gap_fill makes from  *)
(* one anchor to the other spans the whole hole, whichever of the two it   *)
(* replaces by a time.                                                     *)
(***************************************************************************)
WellFormed(r) ==
    r.state # "none" =>
        /\ 0 < r.start /\ r.start < r.end
        /\ r.sm <= r.start /\ (r.em = NoAnchor \/ r.em >= r.end)
AllWellFormed(L) == \A i \in Gid : WellFormed(L[i])
AnchorsSpanHole == AllWellFormed(gaps)

\* The times strictly inside a gap that is known to have existed.
Holes(L) == {t \in Time : \E i \in Gid : /\ L[i].state = "witnessed"
                                         /\ L[i].start < t /\ t < L[i].end}
KnownHoles == Holes(gaps)

(***************************************************************************)
(* No bookkeeping forgets a witnessed hole: only an answer of the server   *)
(* (a shrink, a bridge or a dead mark) takes a time out of the witnessed   *)
(* holes - not a merge with a candidate, not a rescan, not a purge of the  *)
(* candidates, not a failed attempt.                                       *)
(***************************************************************************)
WitnessedHolesKept ==
    [][\/ KnownHoles \subseteq KnownHoles'
       \/ \E i \in Gid, t \in Time : ShrinkEnd(i, t) \/ ShrinkStart(i, t)
       \/ \E i \in Gid : DeadMark(i) \/ Bridge(i)]_vars

=============================================================================
