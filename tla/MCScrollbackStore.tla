------------------------- MODULE MCScrollbackStore -------------------------
(* Small stores for TLC.  In the channel on show: a line without msgid, an *)
(* echo still pending, and the same message as the server replays it,      *)
(* dated earlier.  In the other channel: a line that takes a row id.       *)
EXTENDS ScrollbackStore

Line(ch, ts, mid, text) == [ch |-> ch, ts |-> ts, mid |-> mid, text |-> text]
MCShown == {Line(1, 2, NONE, "a"), Line(1, 2, PENDING, "b"), Line(1, 1, "m", "b")}
MCMessages == MCShown \cup {Line(2, 1, NONE, "a")}

\* Anchors added to an entry that a fault left wrong are not followed: no
\* property is about them before the entry is invalidated.
LostUnread == \A ch \in lost : DOMAIN cache[ch].anchors = {}
=============================================================================
