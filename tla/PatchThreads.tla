----------------------------- MODULE PatchThreads -----------------------------
(***************************************************************************)
(* How ngit reads proposals out of a heap of events (src/lib/git_events.rs *)
(* and the queries of src/lib/client.rs).  A proposal is the root of a     *)
(* thread of patches; a force push adds a revision, a second root that     *)
(* replies to the first.  Nothing says which patch is the tip of the       *)
(* branch: it is worked out from dates and replies on every read.          *)
(*                                                                         *)
(* A log lists all events in the order they were signed.  An event's id is *)
(* its place there, 0 is "no tag", and ids is the set of events a cache    *)
(* holds.                                                                  *)
(***************************************************************************)
EXTENDS CommitGraph, SequencesExt, Naturals

CONSTANTS Users,
          Maintainers, \* of the repository; all events below are tagged with it
          Names,       \* branch names without pr/
          Safe,        \* [Names -> Names], safe_branch_name_for_pr
          Signature    \* [Commits -> any], the author line of a commit

ASSUME PatchThreadsAssumption ==
    /\ Maintainers \subseteq Users
    /\ Safe \in [Names -> Names]
    /\ \A n \in Names : Safe[Safe[n]] = Safe[n]
    /\ DOMAIN Signature = Commits
    /\ \A k \in Commits : IsFiniteSet(Ancestors[k])
    /\ \A k \in Commits : \A a \in Ancestors[k] : k \in Ancestors[a] => a = k

\* root and revision are the hashtags "root" and "revision-root", thread and
\* parent the e tags marked root and reply, mentions those marked mention.  A
\* cover letter has no commit.
Patch == [author : Users, at : Nat, root : BOOLEAN, revision : BOOLEAN,
          thread : Nat, parent : Nat, mentions : SUBSET Nat,
          name : Names, commit : CommitOrNone]
\* kind is open, draft, closed or applied.
StatusKinds == {"open", "draft", "closed", "applied"}
Status == [author : Users, at : Nat, kind : StatusKinds, of : Nat,
           revision : Nat, commits : SUBSET Commits]

IsPatch(e) == "parent" \in DOMAIN e
Patches(log, ids) == {i \in ids : IsPatch(log[i])}
IsCoverLetter(e) == e.root /\ e.commit = NoCommit

\* get_event_parent_id
ParentOf(e) == IF e.parent # 0 THEN e.parent ELSE e.thread

\* get_proposals_and_revisions_from_cache without the revisions.
Roots(log, ids) == {i \in Patches(log, ids) : log[i].root /\ ~log[i].revision}

\* The filter on e tags, whatever they are marked.
Tagging(log, ids, targets) ==
    {i \in Patches(log, ids) :
        ({log[i].thread, log[i].parent} \cup log[i].mentions) \cap targets # {}}

Permissioned(log, p) == Maintainers \cup {log[p].author}

\* Mutants: see RemoteHelper.  Anybody's patches count.
BugAnybody(log, ids, p) ==
    LET own == {p} \cup Tagging(log, ids, {p})
        revisions == {i \in own : log[i].revision}
    IN {i \in own \cup Tagging(log, ids, revisions) : ~IsCoverLetter(log[i])}

\* get_all_proposal_patch_events_from_cache
PatchesOf(log, ids, p) ==
    LET own == {i \in {p} \cup Tagging(log, ids, {p}) :
                    log[i].author \in Permissioned(log, p)}
        revisions == {i \in own : log[i].revision}
    IN {i \in own \cup Tagging(log, ids, revisions) :
            log[i].author \in Permissioned(log, p) /\ ~IsCoverLetter(log[i])}

Youngest(log, patches) == {i \in patches : \A j \in patches : log[j].at <= log[i].at}

\* Patches of one second are not put in order.
BugAnyOfThatSecond(log, patches) == Youngest(log, patches)

\* get_most_recent_patch_with_ancestors: of the patches of the last second one
\* that none of them replies to.  Which one, if there are several, is up to the
\* order of their hashes.
Tips(log, patches) ==
    LET last == Youngest(log, patches)
    IN {i \in last : \A j \in last : ParentOf(log[j]) # i}

\* The rest of get_most_recent_patch_with_ancestors: the patch and its
\* ancestors, up to the root of the patch set or as far as they are known.
Chain(log, patches, tip) ==
    LET from[i \in 0..Len(log)] ==
            IF i \notin patches THEN << >>
            ELSE IF log[i].root THEN <<i>>
            ELSE <<i>> \o from[ParentOf(log[i])]
    IN from[tip]

\* get_open_or_draft_proposals: the kinds the newest status may have.
StatusesOf(log, ids, p) == {i \in ids \ Patches(log, ids) : log[i].of = p}
KindOf(log, ids, p) ==
    IF StatusesOf(log, ids, p) = {} THEN {"open"}
    ELSE {log[i].kind : i \in Youngest(log, StatusesOf(log, ids, p))}

\* get_all_proposals: every proposal that has a patch.
AllProposals(log, ids) == {p \in Roots(log, ids) : PatchesOf(log, ids, p) # {}}

\* The branch a proposal is listed as, to its author and to others, who see a
\* part of its id too.
RefOf(log, p, user) ==
    [name |-> log[p].name, id |-> IF log[p].author = user THEN 0 ELSE p]

\* is_event_proposal_root_for_branch
IsRootForBranch(log, p, ref, user) ==
    /\ ref.name = log[p].name
    /\ ref.id = p \/ (ref.id = 0 /\ log[p].author = user)

-----------------------------------------------------------------------------
(* Writing proposals.  Sets of commits are those of a line of history.     *)

\* get_commits_ahead_behind(base, k).ahead
Ahead(base, k) == Ancestors[k] \ Ancestors[base]

\* Oldest first.
Ordered(ks) ==
    CHOOSE s \in SetToSeqs(ks) : \A i, j \in DOMAIN s : i < j => s[j] \notin Ancestors[s[i]]

\* All reply to the first.
BugFlatThread(log, head, cs) ==
    [i \in 1..Len(cs) |->
        IF i = 1 THEN [head EXCEPT !.commit = cs[1]]
        ELSE [head EXCEPT !.root = FALSE, !.revision = FALSE, !.thread = Len(log) + 1,
                          !.parent = Len(log) + 1, !.mentions = {}, !.commit = cs[i]]]

\* Events of the commits cs, a thread below the first, which is head.
Threaded(log, head, cs) ==
    [i \in 1..Len(cs) |->
        IF i = 1 THEN [head EXCEPT !.commit = cs[1]]
        ELSE [head EXCEPT !.root = FALSE, !.revision = FALSE, !.thread = Len(log) + 1,
                          !.parent = Len(log) + i - 1, !.mentions = {}, !.commit = cs[i]]]

\* ahead is not reversed.
BugNewestFirst(log, head, letter, ks) ==
    Threaded(log, head, (IF letter THEN <<NoCommit>> ELSE << >>) \o Reverse(Ordered(ks)))

\* generate_cover_letter_and_patch_events
PatchSet(log, head, letter, ks) ==
    Threaded(log, head, (IF letter THEN <<NoCommit>> ELSE << >>) \o Ordered(ks))

\* The first event of a set: a root, which, if it revises a proposal, replies
\* to it.
RootEvent(user, at, name, proposal, mentions) ==
    [author |-> user, at |-> at, root |-> TRUE, revision |-> proposal # 0,
     thread |-> 0, parent |-> proposal, mentions |-> mentions,
     name |-> name, commit |-> NoCommit]

\* Patches on top of patch tip, in its thread (push.rs).
Appended(log, user, at, tip, ks) ==
    LET order == Ordered(ks) IN
    [i \in 1..Len(order) |->
        [author |-> user, at |-> at, root |-> FALSE, revision |-> FALSE,
         thread |-> IF log[tip].thread # 0 THEN log[tip].thread ELSE tip,
         parent |-> IF i = 1 THEN tip ELSE Len(log) + i - 1, mentions |-> {},
         name |-> log[tip].name, commit |-> order[i]]]

-----------------------------------------------------------------------------
(* Whose commits are merged (get_merged_proposals_info in push.rs).        *)

Parents(k) ==
    LET strict == Ancestors[k] \ {k}
    IN {a \in strict : \A b \in strict \ {a} : a \notin Ancestors[b]}

IsMerge(k) == Cardinality(Parents(k)) > 1

\* get_proposal_and_revision_root_from_patch
SetRoot(log, i) ==
    IF log[i].root THEN i
    ELSE IF log[i].thread # 0 THEN log[i].thread
    ELSE IF log[i].parent # 0 THEN log[i].parent
    ELSE i
RevisionOf(log, i) == IF log[SetRoot(log, i)].revision THEN SetRoot(log, i) ELSE 0
ProposalOf(log, i) ==
    LET r == SetRoot(log, i) IN IF log[r].revision THEN log[r].parent ELSE r

\* The branch that a three-way merge brought in is not looked for.
BugNoMergeCommit(log, ids, k) ==
    LET same == {i \in Patches(log, ids) : log[i].commit = k}
    IN IF same # {} THEN same
       ELSE {i \in Patches(log, ids) :
                log[i].commit # NoCommit /\ Signature[log[i].commit] = Signature[k]}

\* The patches commit k merges: those of a parent if k is a merge, otherwise
\* those of k itself or else those by the same author at the same time.
Matching(log, ids, k) ==
    LET known == Patches(log, ids)
        same == {i \in known : log[i].commit = k}
    IN IF IsMerge(k) THEN {i \in known : log[i].commit \in Parents(k)}
       ELSE IF same # {} THEN same
       ELSE {i \in known :
                log[i].commit # NoCommit /\ Signature[log[i].commit] = Signature[k]}

-----------------------------------------------------------------------------
(* What a log looks like.                                                  *)

\* Event i is by somebody who may add to its proposal.
MayAdd(log, i) == log[i].author \in Permissioned(log, ProposalOf(log, i))

\* Patch i is for the commit after that of the patch it replies to.
NextCommit(log, i) ==
    LET before == log[log[i].parent].commit
    IN  before = NoCommit \/ Parents(log[i].commit) = {before}

\* Event i refers to what is before it: a revision to a proposal that its
\* author may revise, any other patch to a patch of its thread, and if its
\* author may add to the proposal, then to one by such an author.
InThread(log, i) ==
    LET e == log[i]
        before == 1..i - 1
    IN  /\ e.mentions = {}
        /\ e.root => /\ e.thread = 0
                     /\ IF e.revision THEN e.parent \in Roots(log, before) /\ MayAdd(log, i)
                                      ELSE e.parent = 0
        /\ ~e.root => /\ ~e.revision
                      /\ e.commit # NoCommit
                      /\ e.parent \in Patches(log, before)
                      /\ e.thread \in Patches(log, before) /\ log[e.thread].root
                      /\ e.thread = SetRoot(log, e.parent)
                      /\ MayAdd(log, i) => MayAdd(log, e.parent) /\ NextCommit(log, i)
=============================================================================
