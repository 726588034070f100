---------------------------- MODULE MCServerLink ----------------------------
EXTENDS ServerLink

\* Every kind of network and every setting; a token is refreshed only on a network.
MCConfigs ==
    {c \in [net : BOOLEAN, ssl : BOOLEAN, oauth : BOOLEAN, retry : BOOLEAN, retryfail : BOOLEAN] :
        c.oauth => c.net}
MCTimerIds == 1..4
=============================================================================
