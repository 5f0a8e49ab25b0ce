------------------------------ MODULE Proposals ------------------------------
(***************************************************************************)
(* The refs/heads/pr/ branches of a nostr remote.  Such a branch exists on *)
(* no git server: `list` rebuilds it from a proposal's patches, and `push` *)
(* turns commits into patches (process_proposal_refspecs in                *)
(* src/bin/git_remote_nostr/push.rs): a new proposal, a revision of one,   *)
(* or patches on top of it.  A push to main marks proposals as applied.    *)
(*                                                                         *)
(* One invocation of the helper fetches and lists (Connect), and then      *)
(* pushes one refspec: Push for a pr/ branch, PushMain for main.  Events   *)
(* of one push are signed in one second and published in order.            *)
(***************************************************************************)
EXTENDS PatchThreads

CONSTANTS Clones,
          Owner,     \* [Clones -> Users], who is logged in
          Root,      \* the first commit, which main starts at
          InitLog,   \* events published before: patch sets, each of one account
                     \* and one second, none dated later than the clock
          NoPush,
          Env,       \* what the environment may do, see EnvKinds
          MaxLog     \* bound: number of events ever published

EnvKinds == {"concurrent",  \* helpers of different clones overlap
             "relay_fault", \* a fetch may fail, a relay may stop taking events
             "clocks",      \* clocks differ; pushes may share a second
             "force",       \* users force push
             "elsewhere",   \* the pushed branch is not the one checked out
             "stray",       \* outsiders post patches into a thread
             "status"}      \* the author or a maintainer closes or reopens

ASSUME ProposalsAssumption ==
    /\ Owner \in [Clones -> Users]
    /\ Root \in Commits
    /\ \A k \in Commits : Root \in Ancestors[k]
    /\ Env \subseteq EnvKinds
    /\ InitLog \in Seq(Patch)
    /\ \A i \in DOMAIN InitLog :
          /\ InThread(InitLog, i) /\ InitLog[i].at <= 1
          /\ \/ InitLog[i].root
             \/ /\ InitLog[i].author = InitLog[InitLog[i].parent].author
                /\ InitLog[i].at = InitLog[InitLog[i].parent].at
    /\ MaxLog \in Nat

VARIABLES log,     \* all events the relays have
          clock,   \* the latest date of an event
          main,    \* main of the nostr state, and of every git server
          cache,   \* ids of the events each clone's cache holds
          known,   \* commits each clone has
          tracked, \* refs/remotes/origin/main of each clone
          pc,      \* "idle", or "listed" while a helper runs
          listed,  \* the pr/ branches the helper listed
          last     \* history: the push of the last step, NoPush if it was none

cloneVars == <<cache, known, tracked>>
vars == <<log, clock, main, cloneVars, pc, listed, last>>

Ids == 1..Len(log)
Ref == [name : Names, id : Nat]
Listing == [ref : Ref, commit : Commits]
PushReport == [clone : Clones, proposal : Nat, commit : Commits, force : BOOLEAN,
               new : SUBSET Nat, complete : BOOLEAN]

ASSUME NoPushAssumption == NoPush \notin PushReport

\* The log of proposals, the branches of the clones and what is listed, by shape.
TypeOK ==
    /\ log \in Seq(Patch \cup Status)
    /\ clock \in Nat
    /\ main \in Commits
    /\ cache \in [Clones -> SUBSET Ids]
    /\ known \in [Clones -> SUBSET Commits]
    /\ tracked \in [Clones -> Commits]
    /\ pc \in [Clones -> {"idle", "listed"}]
    /\ listed \in [Clones -> SUBSET Listing]
    /\ last \in PushReport \cup {NoPush}

Init ==
    /\ log = InitLog
    /\ clock = 1
    /\ main = Root
    /\ cache = [c \in Clones |-> {i \in DOMAIN InitLog : InitLog[i].author = Owner[c]}]
    /\ known = [c \in Clones |-> {Root}]
    /\ tracked = [c \in Clones |-> Root]
    /\ pc = [c \in Clones |-> "idle"]
    /\ listed = [c \in Clones |-> {}]
    /\ last = NoPush

-----------------------------------------------------------------------------
(* Listing.                                                                *)

\* A commit that ends the branch of p in the events ids.
TipCommits(ids, p) ==
    {log[t].commit : t \in Tips(log, PatchesOf(log, ids, p))}

\* The last patch of the chain is applied to its commit's parent.
Buildable(ids, p, t, have) ==
    LET chain == Chain(log, PatchesOf(log, ids, p), t)
    IN log[Last(chain)].commit \in have
       \/ Parents(log[Last(chain)].commit) \subseteq have

\* get_open_and_draft_proposals_state: what a listing may say about p.
ListingsOf(ids, p, user, have) ==
    {[ref |-> RefOf(log, p, user), commit |-> log[t].commit] :
        t \in {u \in Tips(log, PatchesOf(log, ids, p)) : Buildable(ids, p, u, have)}}

\* Draft proposals count as open.
OpenProposals(ids) ==
    {p \in AllProposals(log, ids) : KindOf(log, ids, p) \cap {"open", "draft"} # {}}

\* A proposal that is certainly open or draft.
SurelyOpen(ids) ==
    {p \in AllProposals(log, ids) : KindOf(log, ids, p) \subseteq {"open", "draft"}}

\* Fetching, list for-push, and the commits make_commits_for_proposal makes.
\* Two proposals of one name leave one entry.
Connect(c) ==
    /\ pc[c] = "idle"
    /\ "concurrent" \in Env \/ \A d \in Clones : pc[d] = "idle"
    /\ \E ids \in {Ids} \cup (IF "relay_fault" \in Env THEN {cache[c]} ELSE {}),
          have \in {known[c] \cup Ancestors[main]} :
        \E shown \in SUBSET UNION {ListingsOf(ids, p, Owner[c], have) : p \in OpenProposals(ids)} :
            /\ \A p \in SurelyOpen(ids) : ListingsOf(ids, p, Owner[c], have) # {} =>
                 \E l \in shown : l.ref = RefOf(log, p, Owner[c])
            /\ \A l, k \in shown : l.ref = k.ref => l = k
            /\ listed' = [listed EXCEPT ![c] = shown]
            /\ cache' = [cache EXCEPT ![c] = ids]
            /\ known' = [known EXCEPT ![c] = have \cup UNION {Ancestors[l.commit] : l \in shown}]
    /\ tracked' = [tracked EXCEPT ![c] = main]
    /\ pc' = [pc EXCEPT ![c] = "listed"]
    /\ last' = NoPush
    /\ UNCHANGED <<log, clock, main>>

-----------------------------------------------------------------------------
(* The patches of a push.                                                  *)

\* The date of what is signed now.
Dates == IF "clocks" \in Env THEN 1..clock + 1 ELSE {clock + 1}
Later(at) == IF at > clock THEN at ELSE clock

\* All events are cached, whatever the relays took.
BugCachesAll(c, events, at) ==
    /\ \A i \in DOMAIN events : IsPatch(events[i]) => ~IsMerge(events[i].commit)
    /\ Len(log) + Len(events) <= MaxLog
    /\ \E n \in IF "relay_fault" \in Env THEN 0..Len(events) ELSE {Len(events)} :
        log' = log \o SubSeq(events, 1, n)
    /\ cache' = [cache EXCEPT ![c] = @ \cup (Len(log) + 1)..(Len(log) + Len(events))]
    /\ clock' = IF log' = log THEN clock ELSE Later(at)

\* send_events: relays take the events in order, perhaps not all, and what
\* they took is cached.  Nothing is sent if one of them is a patch of a merge
\* commit, which git2 does not make: the helper ends.
Publish(c, events, at) ==
    /\ \A i \in DOMAIN events : IsPatch(events[i]) => ~IsMerge(events[i].commit)
    /\ Len(log) + Len(events) <= MaxLog
    /\ \E n \in IF "relay_fault" \in Env THEN 0..Len(events) ELSE {Len(events)} :
        /\ log' = log \o SubSeq(events, 1, n)
        /\ cache' = [cache EXCEPT ![c] = @ \cup (Len(log) + 1)..(Len(log) + n)]
    /\ clock' = IF log' = log THEN clock ELSE Later(at)

Exit(c) ==
    /\ pc' = [pc EXCEPT ![c] = "idle"]
    /\ listed' = [listed EXCEPT ![c] = {}]

\* What is remembered of a push that was told "ok".
Report(c, p, k, force, events) ==
    [clone |-> c, proposal |-> p, commit |-> k, force |-> force,
     new |-> Len(log) + 1..Len(log'), complete |-> Len(log') = Len(log) + Len(events)]

\* A commit the user of c may have at a branch.
CanHave(c, k) == Ancestors[k] \ {k} \subseteq known[c]

\* Only proposals that list shows are looked through.
BugFoundOpen(c, ref) ==
    {p \in OpenProposals(cache[c]) : IsRootForBranch(log, p, ref, Owner[c])}

\* get_all_proposals and find_proposal_and_patches_by_branch_name.
Found(c, ref) ==
    {p \in AllProposals(log, cache[c]) : IsRootForBranch(log, p, ref, Owner[c])}

\* git pushes what changes the branch that was listed, without "+" only if it
\* adds to it.
GitSends(c, ref, k, force) ==
    \A l \in listed[c] : l.ref = ref =>
        l.commit # k /\ (force \/ FastForward(l.commit, k))

\* No proposal of that name: the commits that main lacks are a new one, named
\* after the branch that is checked out.
NewProposal(c, ref, k, force, at) ==
    /\ Found(c, ref) = {}
    /\ \E name \in IF "elsewhere" \in Env THEN Names ELSE {ref.name} :
        LET events == PatchSet(log, RootEvent(Owner[c], at, Safe[name], 0, {}), FALSE,
                               Ahead(tracked[c], k)) IN
        /\ Publish(c, events, at)
        /\ last' = Report(c, Len(log) + 1, k, force, events)

\* A forced push: the same as a revision of p.  Nothing reads its name.
Revise(c, ref, p, k, force, at) ==
    /\ force
    /\ Owner[c] \in Permissioned(log, p)
    /\ LET events == PatchSet(log, RootEvent(Owner[c], at, ref.name, p, {}), FALSE,
                               Ahead(tracked[c], k)) IN
        /\ Publish(c, events, at)
        /\ last' = Report(c, p, k, force, events)

\* What the pushed commit lacks of the proposal is not looked at.
BugNotCompared(c, ref, p, k, force, at) ==
    /\ ~force
    /\ Owner[c] \in Permissioned(log, p)
    /\ \E t \in Tips(log, PatchesOf(log, cache[c], p)) :
        LET events == Appended(log, Owner[c], at, t, Ahead(log[t].commit, k)) IN
        /\ log[t].commit \in known[c]
        /\ Publish(c, events, at)
        /\ last' = Report(c, p, k, force, events)

\* A push that adds to the branch of p as the cache has it.
Extend(c, ref, p, k, force, at) ==
    /\ ~force
    /\ Owner[c] \in Permissioned(log, p)
    /\ \E t \in Tips(log, PatchesOf(log, cache[c], p)) :
        LET events == Appended(log, Owner[c], at, t, Ahead(log[t].commit, k)) IN
        /\ log[t].commit \in known[c]
        /\ FastForward(log[t].commit, k)
        /\ Publish(c, events, at)
        /\ last' = Report(c, p, k, force, events)

\* "permission denied", "failed to fastforward", or a tip nobody has the commit
\* of, which ends the helper.
Refuse(c, p, k, force) ==
    /\ \/ Owner[c] \notin Permissioned(log, p)
       \/ /\ ~force
          /\ \E t \in Tips(log, PatchesOf(log, cache[c], p)) :
                log[t].commit \notin known[c] \/ ~FastForward(log[t].commit, k)
    /\ last' = NoPush
    /\ UNCHANGED <<log, cache, clock>>

\* One pr/ refspec of a push.
Push(c, ref, k, force) ==
    /\ CanHave(c, k)
    /\ GitSends(c, ref, k, force)
    /\ \/ \E at \in Dates : NewProposal(c, ref, k, force, at)
       \/ \E p \in Found(c, ref) :
            \/ \E at \in Dates : Revise(c, ref, p, k, force, at)
            \/ \E at \in Dates : Extend(c, ref, p, k, force, at)
            \/ Refuse(c, p, k, force)
    /\ known' = [known EXCEPT ![c] = @ \cup {k}]
    /\ Exit(c)
    /\ UNCHANGED <<main, tracked>>

\* git fetch ends here; so does a helper that is killed.
Stop(c) ==
    /\ Exit(c)
    /\ last' = NoPush
    /\ UNCHANGED <<log, clock, main, cloneVars>>

-----------------------------------------------------------------------------
(* Merging.                                                                *)

\* The ahead of get_commits_ahead_behind for a base that k descends from.  The
\* walk from k goes by date and stops at base: before it come base's
\* descendants, and of branches merged into them what is not older than base.
Walks(base, k) ==
    {ks \in SUBSET (Ancestors[k] \ Ancestors[base]) :
        /\ {a \in Ancestors[k] \ {base} : base \in Ancestors[a]} \subseteq ks
        /\ \A a \in ks \ {k} : \E b \in ks : a \in Parents(b)}

\* get_merged_proposals_info: an entry for each proposal with a patch among
\* those merged ...
Touched(ids, ahead) ==
    {ProposalOf(log, i) : i \in UNION {Matching(log, ids, k) : k \in ahead}}

\* ... which counts commits only of the set its entry is about.
\* entry.or_default(): that is always the first set, never a revision.
Counted(ids, p, ahead) ==
    {k \in ahead : \E i \in Matching(log, ids, k) :
        ProposalOf(log, i) = p /\ RevisionOf(log, i) = 0}

\* create_merge_events: a status for each entry, whatever it counted.
MergeStatus(user, at, p, counted) ==
    [author |-> user, at |-> at, kind |-> "applied", of |-> p, revision |-> 0,
     commits |-> IF \E k \in counted : IsMerge(k)
                 THEN {CHOOSE k \in counted : IsMerge(k)} ELSE counted]

\* A maintainer pushes k to main.
PushMain(c, k) ==
    /\ Owner[c] \in Maintainers
    /\ CanHave(c, k)
    /\ k # tracked[c] /\ tracked[c] = main /\ FastForward(main, k)
    /\ \E ahead \in Walks(tracked[c], k), at \in Dates :
        \E order \in SetToSeqs(Touched(cache[c], ahead)) :
            Publish(c, [i \in 1..Len(order) |->
                MergeStatus(Owner[c], at, order[i], Counted(cache[c], order[i], ahead))], at)
    /\ main' = k
    /\ known' = [known EXCEPT ![c] = @ \cup {k}]
    /\ tracked' = [tracked EXCEPT ![c] = k]
    /\ Exit(c)
    /\ last' = NoPush

-----------------------------------------------------------------------------
(* Other clients.                                                          *)

Posted(e) ==
    /\ Len(log) < MaxLog
    /\ log' = Append(log, e)
    /\ clock' = Later(e.at)
    /\ last' = NoPush
    /\ UNCHANGED <<main, cloneVars, pc, listed>>

\* An account without permission posts a patch in reply to one.
Stray(user, i, k) ==
    /\ user \notin Permissioned(log, ProposalOf(log, i))
    /\ \E at \in Dates :
        Posted([author |-> user, at |-> at, root |-> FALSE, revision |-> FALSE,
                thread |-> SetRoot(log, i), parent |-> i, mentions |-> {},
                name |-> log[i].name, commit |-> k])

\* The author or a maintainer changes the status of proposal p.
SetStatus(user, p, kind) ==
    /\ user \in Permissioned(log, p)
    /\ \E at \in Dates :
        Posted([author |-> user, at |-> at, kind |-> kind, of |-> p,
                revision |-> 0, commits |-> {}])

-----------------------------------------------------------------------------
\* The branches a user may push to: any of his own, and those of proposals.
PushableRefs(c) ==
    [name : Names, id : {0}] \cup
    {RefOf(log, p, Owner[c]) : p \in AllProposals(log, cache[c])}

HelperStep(c) ==
    \/ Connect(c)
    \/ /\ pc[c] = "listed"
       /\ \/ \E ref \in PushableRefs(c), k \in Commits,
                force \in IF "force" \in Env THEN BOOLEAN ELSE {FALSE} : Push(c, ref, k, force)
          \/ Stop(c)
          \/ \E k \in Commits : PushMain(c, k)

OtherClients ==
    \/ /\ "stray" \in Env
       /\ \E user \in Users, i \in Patches(log, Ids), k \in Commits : Stray(user, i, k)
    \/ /\ "status" \in Env
       /\ \E user \in Users, p \in Roots(log, Ids), kind \in {"open", "closed"} :
            SetStatus(user, p, kind)

Next == (\E c \in Clones : HelperStep(c)) \/ OtherClients

Spec == Init /\ [][Next]_vars

-----------------------------------------------------------------------------
(* What should be true of pr/ branches.                                    *)

\* Patch i is older than the patches of the last push, or of the same second
\* and below them in their thread.
Precedes(i, newest, patches) ==
    \/ log[i].at < log[newest].at
    \/ log[i].at = log[newest].at /\ i \in Range(Chain(log, patches, newest))

\* After an accepted push, the branch the pusher's own cache shows is what was
\* pushed, if no patch there has a later date: neither the dates of several
\* patches, nor older revisions, nor what others posted get in the way.
PushShown ==
    last # NoPush /\ last.complete /\ last.new # {} =>
        LET ids == cache[last.clone]
            patches == PatchesOf(log, ids, last.proposal)
            newest == Max(last.new)
        IN (\A i \in patches \ last.new : Precedes(i, newest, patches)) =>
                TipCommits(ids, last.proposal) = {last.commit}

\* Whatever part of a thread a cache has, and however pushes overlap, a branch
\* rebuilt from it is a line of commits down to the root of its patch set, each
\* patch replying to that of its commit's parent.
ChainIsHistory ==
    \A c \in Clones : \A p \in AllProposals(log, cache[c]) :
        LET patches == PatchesOf(log, cache[c], p) IN
        \A t \in Tips(log, patches) :
            LET chain == Chain(log, patches, t) IN
            /\ \A i \in 1..Len(chain) - 1 :
                Parents(log[chain[i]].commit) = {log[chain[i + 1]].commit}
            /\ \/ log[Last(chain)].root
               \/ IsCoverLetter(log[ParentOf(log[Last(chain)])])

\* The branch of p as the relays have it.
Branch(p) == IF p \in AllProposals(log, Ids) THEN TipCommits(Ids, p) ELSE {}

\* While helpers take turns, a branch loses commits only by a forced push.
KeepsCommits ==
    \/ last' # NoPush /\ last'.force
    \/ \A p \in Roots(log, Ids) : \A k \in Branch(p), k2 \in Branch(p)' :
            FastForward(k, k2)
OnlyForceDrops == [][KeepsCommits]_vars

\* Pushing a branch again goes to the proposal it made, be it closed, merged,
\* revised or known in part: an account that uses one clone never has two
\* proposals of one name, whatever fails and whoever pushes meanwhile.
NoTwins ==
    \A p, q \in Roots(log, Ids) :
        log[p].author = log[q].author /\ log[p].name = log[q].name => p = q

\* Nobody but helpers changed the status of p.
NotByHand(p) == \A i \in StatusesOf(log, Ids, p) : log[i].kind = "applied"

\* What a push of k to main merges: the commits after base in the history of k,
\* and the branches that merges among them bring in.
Merged(base, k) ==
    LET after == {a \in Ancestors[k] \ {base} : base \in Ancestors[a]}
        merges == {a \in after : IsMerge(a)}
    IN  (after \ merges) \cup UNION {Parents(a) : a \in merges}

\* While helpers take turns, a push to main that merges the branch of a proposal
\* closes the proposal, whichever revision was merged and how: it is listed as
\* open no more.  (A branch that is pushed to a commit that main has already
\* stays open.)
MergesClose ==
    main' # main => \A p \in Roots(log, Ids) :
        NotByHand(p) /\ Branch(p) \cap Merged(main, main') # {} => p \notin OpenProposals(Ids)'
ClosesMerged == [][MergesClose]_vars
=============================================================================
