------------------------------ MODULE MCRepoRef ------------------------------
(* Small instances of RepoRef: the accounts alice (trusted), bob and carol. *)
EXTENDS RepoRef

CONSTANTS alice, bob, carol

\* At most one account is named, so that chains and cycles form; a tag may be
\* unreadable.
Says(us, ok) == [listed |-> us, parses |-> ok, relays |-> {}]
Names == {Says({bob}, TRUE), Says({carol}, TRUE)}
Chains == Names \cup {Says({}, TRUE), Says({alice}, TRUE), Says({bob}, FALSE)}
=============================================================================
