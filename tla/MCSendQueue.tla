----------------------------- MODULE MCSendQueue -----------------------------
EXTENDS SendQueue
=============================================================================
