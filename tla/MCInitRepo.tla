----------------------------- MODULE MCInitRepo -----------------------------
(* A clone in several environments. *)
EXTENDS InitRepo

\* Fewer announcements where the clone itself has more to start from.
Environments == {{"optout"}, {"kill", "remotes"}, {"yaml", "kill"}, {"overlap"},
                 {"offline", "noid", "address"}}
Bound == [e \in Environments |-> IF e \cap {"yaml", "offline"} = {} THEN 3 ELSE 2]
=============================================================================
