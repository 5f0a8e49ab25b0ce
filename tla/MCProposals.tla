----------------------------- MODULE MCProposals -----------------------------
EXTENDS Proposals
CONSTANTS c0, a, b, d, m, h1, h2, alice, bob, carol, feat, feat_, other

\* A branch of two commits, another of one, and the merge of both.
History == [k \in Commits |->
    IF k = a THEN {c0, a}
    ELSE IF k = b THEN {c0, a, b}
    ELSE IF k = d THEN {c0, d}
    ELSE IF k = m THEN {c0, a, b, d, m}
    ELSE {c0}]

\* d is a again, on another parent or amended.
AuthorLine == [k \in Commits |-> IF k = d THEN a ELSE k]
OwnClones == (h1 :> alice) @@ (h2 :> bob)
SafeNames == [n \in Names |-> IF n = feat_ THEN feat ELSE n]
Nothing == << >>

\* A proposal of alice by `ngit send` with a cover letter.
Sent == << [author |-> alice, at |-> 1, root |-> TRUE, revision |-> FALSE,
            thread |-> 0, parent |-> 0, mentions |-> {}, name |-> feat, commit |-> NoCommit],
           [author |-> alice, at |-> 1, root |-> FALSE, revision |-> FALSE,
            thread |-> 1, parent |-> 1, mentions |-> {}, name |-> feat, commit |-> a] >>
=============================================================================
