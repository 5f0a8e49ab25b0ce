------------------------------ MODULE MCBranches ------------------------------
(***************************************************************************)
(* Proposals in several environments at once.  A behaviour has one of them *)
(* from its first state on, and each property says in which it holds.      *)
(***************************************************************************)
EXTENDS MCProposals

VARIABLE env \* what may happen in this behaviour

Setting(may, commits, names, events, size) ==
    [may |-> may, commits |-> commits, names |-> names, events |-> events, size |-> size]

\* Helpers take turns: revisions; statuses; outsiders; merge commits; names
\* that do not fit.  Helpers overlap: relays fail; dates say little, and there
\* is a proposal that `ngit send` made.
Revised == Setting({"force"}, {c0, a, b, d}, {feat}, Nothing, 3)
Closed == Setting({"force", "status"}, {c0, a, d}, {feat}, Nothing, 3)
Visited == Setting({"force", "stray"}, {c0, a, b}, {feat}, Nothing, 3)
Merging == Setting({}, {c0, a, b, d, m}, {feat}, Nothing, 5)
Named == Setting({"elsewhere"}, {c0, a}, {feat, feat_, other}, Nothing, 3)
Lossy == Setting({"concurrent", "relay_fault", "force"}, {c0, a, b}, {feat}, Nothing, 3)
Skewed == Setting({"concurrent", "clocks", "force"}, {c0, a, b}, {feat}, Sent, 4)
Envs == {Revised, Closed, Visited, Merging, Named, Lossy, Skewed}

Helper(e) == INSTANCE Proposals WITH
    Env <- e.may,
    Commits <- e.commits,
    Ancestors <- [k \in e.commits |-> Ancestors[k]],
    Signature <- [k \in e.commits |-> Signature[k]],
    Names <- e.names,
    Safe <- [n \in e.names |-> Safe[n]],
    InitLog <- e.events,
    MaxLog <- e.size

MCInit == \E e \in Envs : env = e /\ Helper(e)!Init
MCNext == \E e \in Envs : env = e /\ Helper(e)!Next /\ UNCHANGED env
MCSpec == MCInit /\ [][MCNext]_<<vars, env>>

InTurns == env \notin {Lossy, Skewed}

-----------------------------------------------------------------------------
(* Properties of Proposals, where they hold.                               *)

\* Pushing a branch again goes to the proposal it made, whatever fails, unless
\* its name is not what ngit makes of it.
OneProposal == env # Named => NoTwins

\* While helpers take turns, a merge closes the proposals that it merges.
ClosedByMerge == [][InTurns => MergesClose]_<<vars, env>>

\* While helpers take turns, only a forced push takes commits off a branch.
DropsOnlyByForce == [][InTurns => KeepsCommits]_<<vars, env>>
=============================================================================
