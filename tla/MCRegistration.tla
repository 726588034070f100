--------------------------- MODULE MCRegistration ---------------------------
(* A model-checking instance of Registration. *)
EXTENDS Registration

\* Servers without capabilities, with each, and with all.
MCOffers == {{}, {"sasl"}, {"sts"}, {"sasl", "persistence"}, {"sasl", "sts"}}
=============================================================================
