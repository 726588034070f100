--------------------------- MODULE MCChatHistory ---------------------------
(* Model-checking instances of ChatHistory. *)
EXTENDS ChatHistory

(***************************************************************************)
(* Weak fairness of SystemStep: GLib runs every armed timer and the server *)
(* answers every request, however often the user switches tabs.  Work says *)
(* when such a step is enabled; in an instance whose users only switch     *)
(* tabs, every step that leaves cur alone is one of them (connecting and   *)
(* joining are bounded).  Written like this, TLC does not evaluate all     *)
(* handlers once more for every transition.                                *)
(***************************************************************************)
Work ==
    \/ srv.startT \/ srv.beforeT \/ srv.wrap = "open"
    \/ \E s \in Sess : ses[s].chunk # NoChunk \/ (srv.con /\ wire[s] > 0)
FairSpec == Spec /\ (<>[]Work => []<><<cur' = cur>>_vars)

=============================================================================
