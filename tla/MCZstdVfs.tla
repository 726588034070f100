----------------------------- MODULE MCZstdVfs -----------------------------
(* Model-checking instances of ZstdVfs. *)
EXTENDS ZstdVfs

\* What follows a torn commit is not explored: every property but WritesStayInTransaction
\* excepts it.
UntilTorn == ~torn

=============================================================================
