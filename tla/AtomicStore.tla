---------------------------- MODULE AtomicStore ----------------------------
(***************************************************************************)
(* What the scrollback database expects of the storage under it: a single  *)
(* client whose transaction takes effect whole or not at all.  A process   *)
(* crash drops the open transaction and nothing else; a loss of power may  *)
(* bring back an earlier committed image, never anything in between.       *)
(***************************************************************************)
CONSTANTS Images, Blank

VARIABLES
    store,      \* the committed image
    txn,        \* {} or {the image the open transaction will commit}
    past        \* earlier committed images a loss of power may bring back

view == <<store, txn, past>>

Init == store = Blank /\ txn = {} /\ past = {}

Begin(i) == txn = {} /\ txn' = {i} /\ UNCHANGED <<store, past>>

Commit == \E i \in txn :
    /\ store' = i /\ txn' = {}
    /\ past' \in {past, past \cup {store}}

\* ROLLBACK, a failed commit, or the process dying.
Abort == txn' = {} /\ UNCHANGED <<store, past>>

\* Housekeeping rewrites the store without changing its image.
Rewrite == past' = past \cup {store} /\ UNCHANGED <<store, txn>>

Settle == past' = {} /\ UNCHANGED <<store, txn>>

Lose == store' \in past /\ past' = {} /\ txn' = {}

Next == (\E i \in Images : Begin(i)) \/ Commit \/ Abort \/ Rewrite \/ Settle \/ Lose

Spec == Init /\ [][Next]_view

=============================================================================
