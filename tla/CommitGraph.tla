---------------------------- MODULE CommitGraph ----------------------------
(***************************************************************************)
(* The commit history every component reads.  Commits never change, so the *)
(* graph is a constant: each commit with the set of its ancestors, itself  *)
(* included.                                                               *)
(***************************************************************************)
CONSTANTS Commits,     \* the commits anybody has made or will make
          NoCommit,    \* "the ref does not exist"
          Ancestors    \* [Commits -> SUBSET Commits], reflexive and transitive

ASSUME NoCommitAssumption == NoCommit \notin Commits

ASSUME AncestorsAssumption ==
    /\ Ancestors \in [Commits -> SUBSET Commits]
    /\ \A c \in Commits : c \in Ancestors[c]
    /\ \A c \in Commits : \A a \in Ancestors[c] : Ancestors[a] \subseteq Ancestors[c]

\* What a ref may point to.
CommitOrNone == Commits \cup {NoCommit}

\* get_commits_ahead_behind(b, a).ahead is empty: moving a ref from a to b
\* only adds commits.
FastForward(a, b) == a \in Ancestors[b]

\* get_commits_ahead_behind(a, b) finds a shared commit; it fails otherwise.
Related(a, b) == Ancestors[a] \cap Ancestors[b] # {}

\* The ref does not exist, or its commits are all in the history of b.
WithinHistory(tip, b) == tip = NoCommit \/ (b # NoCommit /\ FastForward(tip, b))

\* Everything needed to hold the commits cs.
Closure(cs) == UNION {Ancestors[c] : c \in cs \ {NoCommit}}
=============================================================================
