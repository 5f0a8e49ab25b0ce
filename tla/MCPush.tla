-------------------------------- MODULE MCPush --------------------------------
(***************************************************************************)
(* RemoteHelper in several environments at once.  A behaviour has one of   *)
(* them from its first state on, and each property says in which it holds. *)
(***************************************************************************)
EXTENDS MCRemoteHelper

\* One helper at a time: servers fail and helpers die, nobody forces.
Lines == [may |-> {"server_fault", "crash"}, commits |-> Commits \ {x}, events |-> 3]
\* Everybody forces and deletes, nothing fails.
Quiet == [Lines EXCEPT !.may = {"force", "delete"}, !.commits = {c0, c1, c3}]
\* All of that.
Rough == [may |-> Lines.may \cup Quiet.may, commits |-> {c0, c1, x}, events |-> 2]
\* Helpers of two clones overlap, and the relay fails too.
Together == [Quiet EXCEPT !.may = {"concurrent", "server_fault", "relay_fault", "force"},
                          !.commits = {c0, c1}, !.events = 2]

Environments == {Lines, Quiet, Rough, Together}

\* A helper that runs goes on running; nobody is obliged to start one.
MCSpec == Spec /\ \A h \in Helpers : WF_vars(HelperStep(h))

-----------------------------------------------------------------------------
\* When nothing fails, a helper that told git "ok" does not leave a server
\* behind: again and again, and so whenever everybody rests, all servers have
\* what was published.
QuietReachesServers == env = Quiet => []<>InSync
=============================================================================
