---------------------------- MODULE MCGapLedger ----------------------------
(* Model-checking instances of GapLedger. *)
EXTENDS GapLedger

\* Not beyond the second of the two steps after which gaps may overlap.
OneException == ~(revived /\ widened)

=============================================================================
