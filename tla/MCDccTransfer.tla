--------------------------- MODULE MCDccTransfer ---------------------------
(* Model-checking instances of DccTransfer. *)
EXTENDS DccTransfer

\* Files below, at and above the acknowledgements' modulus, with and without
\* a part on disk.  A fast sender of the longest file is left out: it adds
\* states and no new case.
MCConfigs ==
    {c \in [size : {3, 4, 5}, old : {0, 1}, passive : BOOLEAN, fast : BOOLEAN, auto : BOOLEAN,
            limit : BOOLEAN] :
        /\ c.old = 0 => ~c.auto
        /\ c.passive /\ c.old = 1 => c.auto
        /\ c.limit => c.old = 0 /\ ~c.passive
        /\ c.size > 3 => ~c.passive /\ ~c.auto /\ ~c.limit /\ (c.fast <=> c.size = 4)
        /\ c.size = 4 => c.old = 0}

\* For one transfer: every combination.
MCAllConfigs ==
    [size : {3, 5}, old : {0, 1, 2}, passive : BOOLEAN, fast : BOOLEAN, auto : BOOLEAN,
     limit : BOOLEAN]
=============================================================================
