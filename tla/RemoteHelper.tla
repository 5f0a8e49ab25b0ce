---------------------------- MODULE RemoteHelper ----------------------------
(***************************************************************************)
(* git-remote-nostr: the process git starts for `git push`, `git fetch` or *)
(* `git pull` of a nostr:// remote (src/bin/git_remote_nostr).  The refs   *)
(* of such a remote live in two places that nothing keeps together: a      *)
(* nostr state event per maintainer, held by relays, and the refs of every *)
(* git server the repository announcement lists.  One invocation asks the  *)
(* relays (Connect), lists refs (RunList) and then either fetches          *)
(* (RunFetch) or classifies a batch of refspecs (RunPush), publishes the   *)
(* new state (CreateAndPublishEvents), tells git "ok"                      *)
(* (UpdateRemoteRefsPushed) and only then pushes to the git servers one    *)
(* after the other (PushToRemote).                                         *)
(*                                                                         *)
(* A helper below is a clone of the repository: its object database, its   *)
(* remote-tracking refs, its event cache, and the process that may be      *)
(* running in it.                                                          *)
(***************************************************************************)
EXTENDS CommitGraph, Naturals

CONSTANTS Helpers,     \* clones
          Users,       \* nostr accounts
          Owner,       \* [Helpers -> Users], who is logged in
          Maintainers, \* the maintainers of the repository announcement
          Relays,
          Servers,     \* git servers of the announcement
          Rank,        \* [Servers -> Nat], their order in the announcement
          Refs,        \* branch names outside refs/heads/pr/
          MainRefs,    \* those of them that are main or master
          InitRefs,    \* refs of every server before nostr is used
          InitObjects, \* commits every clone starts with
          NoEvent, NoSpec, NotListed,
          Envs         \* environments, see env

EnvKinds == {"concurrent",   \* helpers of different clones overlap
             "relay_fault",  \* a relay may not answer or not accept
             "server_fault", \* a git server may not answer or refuse
             "crash",        \* a helper may die between two steps
             "force",        \* users force push
             "delete",       \* users delete branches
             "direct",       \* users push to a git server without nostr
             "proposals",    \* a batch may hold refs/heads/pr/ refspecs
             "nostate"}      \* nostr.nostate = true: no state event

RefMap == [Refs -> CommitOrNone]
StateEvent == [at : Nat, refs : RefMap]
\* A refspec [+]from:to of a push batch, without its `to`; from is NoCommit
\* in a deletion.
PushSpec == [from : CommitOrNone, force : BOOLEAN]
Idle == "idle"
Steps == {Idle, "connected", "listed", "publish", "report", "push"}

ASSUME RemoteHelperAssumption ==
    /\ Owner \in [Helpers -> Users]
    /\ Maintainers \subseteq Users
    /\ Rank \in [Servers -> Nat]
    /\ \A s, t \in Servers : Rank[s] = Rank[t] => s = t
    /\ MainRefs \subseteq Refs
    /\ InitRefs \in RefMap
    /\ InitObjects \subseteq Commits
    /\ \A c \in InitObjects : Ancestors[c] \subseteq InitObjects
    /\ NoEvent \notin StateEvent
    /\ NoSpec \notin PushSpec
    /\ NotListed \notin RefMap
    /\ Envs \subseteq [may : SUBSET EnvKinds, commits : SUBSET Commits, events : Nat]

VARIABLES relayState,    \* newest state event of each user on each relay
          server,        \* refs of each git server
          clock,         \* created_at of the newest state event
          objects,       \* commits in each clone's object database
          tracking,      \* refs/remotes/<remote>/ of each clone
          cache,         \* .git/nostr-cache.lmdb: newest state event per user
          pc,            \* next step of the clone's helper
          listOutputs,   \* list_outputs: what each git server listed
          existingState, \* existing_state of run_push
          batch,         \* refspecs of the push that are not rejected
          withProposals, \* proposal_refspecs is not empty
          toPush,        \* remote_refspecs: refs each git server still gets
          nostrRead,     \* history: the refs of the state event that run_push read,
                         \* none if it read none
          env            \* what may happen in this behaviour (`may`), and bounds:
                         \* the commits users make and the state events ever signed

sharedVars == <<relayState, server, clock, env>>
cloneVars == <<objects, tracking, cache>>
pushVars == <<existingState, batch, withProposals, toPush, nostrRead>>
vars == <<sharedVars, cloneVars, pc, listOutputs, pushVars>>

NoRefs == [r \in Refs |-> NoCommit]
NothingListed == [s \in Servers |-> NotListed]
EmptyBatch == [r \in Refs |-> NoSpec]
NothingToPush == [s \in Servers |-> {}]

\* Git servers, relays, caches and the helper of each clone, by shape.
TypeOK ==
    /\ relayState \in [Relays -> [Users -> StateEvent \cup {NoEvent}]]
    /\ server \in [Servers -> RefMap]
    /\ clock \in Nat
    /\ objects \in [Helpers -> SUBSET Commits]
    /\ tracking \in [Helpers -> RefMap]
    /\ cache \in [Helpers -> [Users -> StateEvent \cup {NoEvent}]]
    /\ pc \in [Helpers -> Steps]
    /\ listOutputs \in [Helpers -> [Servers -> RefMap \cup {NotListed}]]
    /\ existingState \in [Helpers -> RefMap]
    /\ batch \in [Helpers -> [Refs -> PushSpec \cup {NoSpec}]]
    /\ withProposals \in [Helpers -> BOOLEAN]
    /\ toPush \in [Helpers -> [Servers -> SUBSET Refs]]
    /\ nostrRead \in [Helpers -> SUBSET RefMap]
    /\ env \in Envs

Init ==
    /\ env \in Envs
    /\ relayState = [rl \in Relays |-> [u \in Users |-> NoEvent]]
    /\ server = [s \in Servers |-> InitRefs]
    /\ clock = 0
    /\ objects = [h \in Helpers |-> InitObjects]
    /\ tracking = [h \in Helpers |-> NoRefs]
    /\ cache = [h \in Helpers |-> [u \in Users |-> NoEvent]]
    /\ pc = [h \in Helpers |-> Idle]
    /\ listOutputs = [h \in Helpers |-> NothingListed]
    /\ existingState = [h \in Helpers |-> NoRefs]
    /\ batch = [h \in Helpers |-> EmptyBatch]
    /\ withProposals = [h \in Helpers |-> FALSE]
    /\ toPush = [h \in Helpers |-> NothingToPush]
    /\ nostrRead = [h \in Helpers |-> {}]

-----------------------------------------------------------------------------
(* Reading the state.                                                      *)

\* The events of es that no other is newer than.
Newest(es) == {e \in es : \A f \in es : f.at <= e.at}
\* RepoState::try_from: sort_by_key(created_at), then first.
Selected(es) == {e \in es : \A f \in es : e.at <= f.at}

\* The state events of u in an event store or in a set of stores.
EventsOf(stores, u) == {store[u] : store \in stores} \ {NoEvent}

\* Mutants.  An operator whose name starts with Bug is a wrong version of the
\* operator it precedes, by a slip one could make in the code; no behaviour
\* uses it.

\* An addressable event replaces the older one of its author.
Latest(es) == IF Newest(es) = {} THEN NoEvent ELSE CHOOSE e \in Newest(es) : TRUE

\* get_state_from_cache: state events by the maintainers.
CachedStates(h) == {cache[h][u] : u \in Maintainers} \ {NoEvent}

\* The state event in use: RepoState::try_from.
NostrState(h) == {e.refs : e \in Selected(CachedStates(h))}

Listed(h) == {s \in Servers : listOutputs[h][s] # NotListed}

\* The first of the servers that answered.
FirstListed(h) == {s \in Listed(h) : \A t \in Listed(h) : Rank[s] <= Rank[t]}

\* The nostr state is not looked at.
BugStateFromServers(h) == {listOutputs[h][s] : s \in FirstListed(h)}

\* existing_state of run_push and the refs run_list prints: the cached nostr
\* state or, if there is none, what the first git server listed.  Empty when
\* the helper has neither and gives up.
StateInUse(h) ==
    IF CachedStates(h) # {} THEN NostrState(h) ELSE {listOutputs[h][s] : s \in FirstListed(h)}

-----------------------------------------------------------------------------
(* create_rejected_refspecs_and_remotes_refspecs: what to do with refspec  *)
(* spec of a ref that nostr has at `nostr` and one git server at `remote`. *)

\* The server disagrees with nostr about a ref the server has.
OutOfSync(nostr, remote) == remote # NoCommit /\ nostr # remote

\* The `?` of get_commits_ahead_behind and get_commit_or_tip_of_reference:
\* the whole push fails.
Aborts(known, nostr, remote, spec) ==
    /\ spec.from # NoCommit
    /\ OutOfSync(nostr, remote)
    /\ remote \in known
    /\ \/ ~Related(spec.from, remote)
       \/ /\ ~FastForward(remote, spec.from)
          /\ nostr # NoCommit
          /\ nostr \notin known \/ ~Related(nostr, remote)

\* What nostr has is not compared with what the server has ...
BugOnlyUnknown(known, nostr, remote, spec) ==
    spec.from # NoCommit /\ OutOfSync(nostr, remote) /\ remote \notin known

\* ... or ahead and behind are swapped.
BugAheadBehindSwapped(known, nostr, remote, spec) ==
    /\ spec.from # NoCommit
    /\ OutOfSync(nostr, remote)
    /\ (remote \notin known \/ ~FastForward(spec.from, remote))

\* The refspec is rejected, for every server.
Rejects(known, nostr, remote, spec) ==
    /\ spec.from # NoCommit
    /\ OutOfSync(nostr, remote)
    /\ \/ remote \notin known
       \/ /\ ~FastForward(remote, spec.from)
          /\ ~WithinHistory(remote, nostr)

\* A forced push to a server in sync is filtered out as well ...
BugForceFiltered(known, nostr, remote, spec) ==
    IF spec.from = NoCommit
    THEN remote # NoCommit
    ELSE \/ remote = NoCommit
         \/ nostr = remote /\ remote \in known /\ FastForward(remote, spec.from)
         \/ OutOfSync(nostr, remote) /\ ~Rejects(known, nostr, remote, spec)

\* ... or a server that lacks the branch is skipped.
BugNoNewBranch(known, nostr, remote, spec) ==
    /\ remote # NoCommit
    /\ \/ spec.from = NoCommit
       \/ nostr = remote /\ (spec.force \/ (remote \in known /\ FastForward(remote, spec.from)))
       \/ OutOfSync(nostr, remote) /\ ~Rejects(known, nostr, remote, spec)

\* The refspec goes to this server.  In the in-sync case the code stores
\* "+from:to" when git did not force; run_push filters remote_refspecs by the
\* refspecs git sent, so that entry is never pushed.
Sends(known, nostr, remote, spec) ==
    IF spec.from = NoCommit
    THEN remote # NoCommit
    ELSE \/ remote = NoCommit
         \/ /\ nostr = remote
            /\ \/ remote \in known /\ FastForward(remote, spec.from)
               \/ spec.force
         \/ /\ OutOfSync(nostr, remote)
            /\ ~Rejects(known, nostr, remote, spec)

-----------------------------------------------------------------------------
(* Git's side of the protocol (transport-helper, the user).                *)

\* Commits the user of h may have at the tip of a branch: present, or one new
\* commit on top of what is present.
LocalTips(h) == {c \in env.commits : Ancestors[c] \ {c} \subseteq objects[h]}

\* git sends a refspec only if it changes the listed value, and refuses an
\* update that is not a fast forward unless the user forces it.
GitSends(h, advertised, spec) ==
    IF spec.from = NoCommit
    THEN "delete" \in env.may /\ advertised # NoCommit
    ELSE /\ spec.from \in LocalTips(h)
         /\ spec.from # advertised
         /\ \/ spec.force /\ "force" \in env.may
            \/ /\ ~spec.force
               /\ \/ advertised = NoCommit
                  \/ /\ advertised \in objects[h]
                     /\ FastForward(advertised, spec.from)

\* The batches of push lines git may send.
Batches(h, advertised) ==
    {b \in [Refs -> {sp \in PushSpec : sp.from = NoCommit => ~sp.force} \cup {NoSpec}] :
        \A r \in Refs : b[r] # NoSpec => GitSends(h, advertised[r], b[r])}

-----------------------------------------------------------------------------
(* The helper.                                                             *)

\* The process ends: whatever it had in memory is gone.
Exit(h) ==
    /\ pc' = [pc EXCEPT ![h] = Idle]
    /\ listOutputs' = [listOutputs EXCEPT ![h] = NothingListed]
    /\ existingState' = [existingState EXCEPT ![h] = NoRefs]
    /\ batch' = [batch EXCEPT ![h] = EmptyBatch]
    /\ withProposals' = [withProposals EXCEPT ![h] = FALSE]
    /\ toPush' = [toPush EXCEPT ![h] = NothingToPush]
    /\ nostrRead' = [nostrRead EXCEPT ![h] = {}]

\* No helper is running, or helpers may overlap.
MayRun == "concurrent" \in env.may \/ \A h \in Helpers : pc[h] = Idle

Answering(all, fault) == IF fault \in env.may THEN SUBSET all ELSE {all}

\* main: fetching_with_report_for_helper.  Relays that fail are reported and
\* otherwise ignored; the events of the others go into the cache.
Connect(h) ==
    /\ pc[h] = Idle
    /\ MayRun
    /\ \E answered \in Answering(Relays, "relay_fault") :
          cache' = [cache EXCEPT ![h] = [u \in Users |->
                      IF u \in Maintainers
                      THEN Latest(EventsOf({relayState[rl] : rl \in answered} \cup {cache[h]}, u))
                      ELSE cache[h][u]]]
    /\ pc' = [pc EXCEPT ![h] = "connected"]
    /\ UNCHANGED <<sharedVars, objects, tracking, listOutputs, pushVars>>

\* What git server s can send.
Hosted(s) == Closure({server[s][r] : r \in Refs})

\* get_open_and_draft_proposals_state fetches what a server listed, from one
\* server after the other, in any order, until that succeeds.
Obtained(h, answered) ==
    {objects[h] \cup Hosted(s) : s \in answered}
        \cup IF answered = {} \/ "server_fault" \in env.may THEN {objects[h]} ELSE {}

\* run_list: list_from_remotes keeps the servers that answered; without a
\* nostr state and without an answer the helper fails.
RunList(h) ==
    /\ pc[h] = "connected"
    /\ \E answered \in Answering(Servers, "server_fault") :
          IF CachedStates(h) = {} /\ answered = {}
          THEN Exit(h) /\ UNCHANGED objects
          ELSE /\ listOutputs' = [listOutputs EXCEPT ![h] =
                     [s \in Servers |-> IF s \in answered THEN server[s] ELSE NotListed]]
               /\ \E known \in Obtained(h, answered) : objects' = [objects EXCEPT ![h] = known]
               /\ pc' = [pc EXCEPT ![h] = "listed"]
               /\ UNCHANGED pushVars
    /\ UNCHANGED <<sharedVars, tracking, cache>>

\* git has all it wants, or sends an empty line.
Quit(h) ==
    /\ pc[h] = "listed"
    /\ Exit(h)
    /\ UNCHANGED <<sharedVars, cloneVars>>

\* run_fetch: the servers are tried in order until one has every wanted
\* commit.  git then moves the remote-tracking refs to the listed values.
RunFetch(h) ==
    /\ pc[h] = "listed"
    /\ \E advertised \in StateInUse(h) :
          LET wanted == {advertised[r] : r \in Refs} \ {NoCommit}
          IN  \E answered \in Answering(Servers, "server_fault") :
                IF \/ wanted \subseteq objects[h]
                   \/ \E s \in answered : wanted \subseteq Hosted(s)
                THEN /\ objects' = [objects EXCEPT ![h] = @ \cup Closure(wanted)]
                     /\ tracking' = [tracking EXCEPT ![h] = [r \in Refs |->
                           IF advertised[r] # NoCommit THEN advertised[r] ELSE @[r]]]
                ELSE UNCHANGED <<objects, tracking>>
    /\ Exit(h)
    /\ UNCHANGED <<sharedVars, cache>>

\* The refs of a batch, and the commits known once its branches exist.
Sent(b) == {r \in Refs : b[r] # NoSpec}
Known(h, b) == objects[h] \cup ({b[r].from : r \in Sent(b)} \ {NoCommit})

\* The refspecs of batch b that some listed server rejects, and those that
\* make the classification fail.
Rejected(h, nostr, b) ==
    {r \in Sent(b) : \E s \in Listed(h) :
        Rejects(Known(h, b), nostr[r], listOutputs[h][s][r], b[r])}
Failing(h, nostr, b) ==
    {r \in Sent(b) : \E s \in Listed(h) :
        Aborts(Known(h, b), nostr[r], listOutputs[h][s][r], b[r])}

\* remote_refspecs: what each listed server gets of the accepted refspecs.
RemoteRefspecs(h, nostr, b) ==
    [s \in Servers |-> {r \in Sent(b) \ Rejected(h, nostr, b) :
        s \in Listed(h) /\ Sends(Known(h, b), nostr[r], listOutputs[h][s][r], b[r])}]

\* git_server_refspecs.retain.
Retained(h, nostr, b) ==
    [r \in Refs |-> IF r \in Rejected(h, nostr, b) THEN NoSpec ELSE b[r]]

\* run_push up to create_and_publish_events.
RunPush(h) ==
    /\ pc[h] = "listed"
    /\ \E nostr \in StateInUse(h) : \E b \in Batches(h, nostr) :
       \E proposals \in {FALSE} \cup (IF "proposals" \in env.may THEN {TRUE} ELSE {}) :
          /\ Sent(b) # {} \/ proposals
          /\ objects' = [objects EXCEPT ![h] = Known(h, b)]
          /\ IF \/ Failing(h, nostr, b) # {}
                \/ Sent(b) = Rejected(h, nostr, b) /\ ~proposals
             THEN Exit(h)
             ELSE /\ existingState' = [existingState EXCEPT ![h] = nostr]
                  /\ batch' = [batch EXCEPT ![h] = Retained(h, nostr, b)]
                  /\ withProposals' = [withProposals EXCEPT ![h] = proposals]
                  /\ toPush' = [toPush EXCEPT ![h] = RemoteRefspecs(h, nostr, b)]
                  /\ nostrRead' = [nostrRead EXCEPT ![h] = NostrState(h)]
                  /\ pc' = [pc EXCEPT ![h] = "publish"]
                  /\ UNCHANGED listOutputs
    /\ UNCHANGED <<sharedVars, tracking, cache>>

Accepted(h) == {r \in Refs : batch[h][r] # NoSpec}

\* The refspec itself becomes the value of the ref ...
BugStoresRefspec(h) ==
    [r \in Refs |-> IF r \in Accepted(h) THEN batch[h][r] ELSE existingState[h][r]]

\* ... or a deleted branch stays in the state.
BugKeepsDeleted(h) ==
    [r \in Refs |-> IF r \in Accepted(h) /\ batch[h][r].from # NoCommit
                    THEN batch[h][r].from ELSE existingState[h][r]]

\* generate_updated_state.
UpdatedState(h) ==
    [r \in Refs |-> IF r \in Accepted(h) THEN batch[h][r].from ELSE existingState[h][r]]

\* The `?` of get_merged_status_events: main is deleted, or shares nothing with
\* the main branch this clone saw last.
StatusFails(h) ==
    \E r \in MainRefs \cap Accepted(h) :
        \/ batch[h][r].from = NoCommit
        \/ /\ tracking[h][r] # NoCommit
           /\ ~Related(tracking[h][r], batch[h][r].from)

\* The event is cached before it is sent.
BugCachedFirst(h, took, event) == [cache EXCEPT ![h][Owner[h]] = event]

\* send_event_to: the event is cached once a relay took it.
CacheWith(h, took, event) ==
    IF took = {} THEN cache ELSE [cache EXCEPT ![h][Owner[h]] = event]

\* create_and_publish_events with send_events: an account that is not a
\* maintainer stops here only when the batch holds no proposal.  A failure
\* comes before anything is signed or sent.  A relay that refuses the event is
\* ignored.
CreateAndPublishEvents(h) ==
    /\ pc[h] = "publish"
    /\ IF (Owner[h] \notin Maintainers /\ ~withProposals[h]) \/ StatusFails(h)
       THEN Exit(h) /\ UNCHANGED <<sharedVars, cloneVars>>
       ELSE /\ \/ /\ Accepted(h) = {} \/ "nostate" \in env.may
                  /\ UNCHANGED <<relayState, clock, cache>>
               \/ /\ Accepted(h) # {}
                  /\ clock < env.events
                  /\ clock' = clock + 1
                  /\ \E took \in Answering(Relays, "relay_fault") :
                       LET event == [at |-> clock + 1, refs |-> UpdatedState(h)]
                       IN  /\ relayState' = [rl \in Relays |->
                                IF rl \in took
                                THEN [relayState[rl] EXCEPT ![Owner[h]] = event]
                                ELSE relayState[rl]]
                           /\ cache' = CacheWith(h, took, event)
            /\ pc' = [pc EXCEPT ![h] = "report"]
            /\ UNCHANGED <<server, objects, tracking, listOutputs, pushVars, env>>

\* "ok <ref>" and update_remote_refs_pushed for every refspec, before any git
\* server is contacted.
UpdateRemoteRefsPushed(h) ==
    /\ pc[h] = "report"
    /\ tracking' = [tracking EXCEPT ![h] = [r \in Refs |->
            IF r \in Accepted(h) THEN batch[h][r].from ELSE @[r]]]
    /\ pc' = [pc EXCEPT ![h] = "push"]
    /\ UNCHANGED <<sharedVars, objects, cache, listOutputs, pushVars>>

\* libgit2 refuses to send anything when one refspec that is not forced is not
\* a fast forward of the server's current ref.
TransportAccepts(h, s) ==
    \A r \in toPush[h][s] :
        \/ batch[h][r].from = NoCommit
        \/ batch[h][r].force
        \/ /\ server[s][r] \in objects[h] \cup {NoCommit}
           /\ WithinHistory(server[s][r], batch[h][r].from)

\* push_to_remote: a server may also refuse some of the refs.  run_push
\* discards the error.
PushToRemote(h, s) ==
    /\ pc[h] = "push"
    /\ toPush[h][s] # {}
    /\ \E taken \in IF TransportAccepts(h, s)
                    THEN Answering(toPush[h][s], "server_fault") ELSE {{}} :
          server' = [server EXCEPT ![s] = [r \in Refs |->
                        IF r \in taken THEN batch[h][r].from ELSE @[r]]]
    /\ toPush' = [toPush EXCEPT ![h][s] = {}]
    /\ UNCHANGED <<relayState, clock, cloneVars, pc, listOutputs,
                   existingState, batch, withProposals, nostrRead, env>>

\* Every server has been tried.
Finish(h) ==
    /\ pc[h] = "push"
    /\ toPush[h] = NothingToPush
    /\ Exit(h)
    /\ UNCHANGED <<sharedVars, cloneVars>>

\* The process is killed, or a step fails with `?`: signing in, storing an
\* event, or updating the tracking ref of a url that no git remote names.
Crash(h) ==
    /\ "crash" \in env.may
    /\ pc[h] # Idle
    /\ Exit(h)
    /\ UNCHANGED <<sharedVars, cloneVars>>

\* Somebody pushes to a git server without nostr.
DirectPush(s, r, c) ==
    /\ "direct" \in env.may
    /\ MayRun
    /\ server[s][r] # c
    /\ server' = [server EXCEPT ![s][r] = c]
    /\ UNCHANGED <<relayState, clock, cloneVars, pc, listOutputs, pushVars, env>>

HelperStep(h) ==
    \/ RunList(h)
    \/ RunPush(h)
    \/ RunFetch(h)
    \/ Quit(h)
    \/ CreateAndPublishEvents(h)
    \/ UpdateRemoteRefsPushed(h)
    \/ \E s \in Servers : PushToRemote(h, s)
    \/ Finish(h)

Next ==
    \/ \E h \in Helpers : Connect(h) \/ HelperStep(h) \/ Crash(h)
    \/ \E s \in Servers, r \in Refs, c \in env.commits : DirectPush(s, r, c)

Spec == Init /\ [][Next]_vars

-----------------------------------------------------------------------------
(* Properties.                                                             *)

\* No helper overlaps with another, in any clone.
Exclusive == "concurrent" \notin env.may

\* A helper that pushes to server s moves its ref r, and does not delete it.
Moves(h, s, r) ==
    /\ pc[h] = "push" /\ toPush'[h][s] # toPush[h][s]
    /\ server'[s][r] # server[s][r] /\ server'[s][r] # NoCommit

\* Commits that a push may take off a ref of server s: those that the nostr
\* state had when the push read it.  If it read none, the first server that was
\* listed stands in for it: the others lose only what that one had listed, and
\* it may lose anything, as with plain git.
Expendable(h, s, r) ==
    \/ \E nostr \in nostrRead[h] : WithinHistory(server[s][r], nostr[r])
    \/ /\ nostrRead[h] = {}
       /\ \A t \in FirstListed(h) : t = s \/ WithinHistory(server[s][r], listOutputs[h][t][r])

\* A push takes commits off a ref of a server only if the user forced it, and
\* while helpers run one at a time only what is expendable: a force push that
\* started from the nostr state never discards what only that server knew,
\* whatever was pushed to servers without nostr and however many updates they
\* have missed.  (Of helpers that overlap only the first half is true: "+"
\* refspecs go to a server without a lease.  Deletions are not covered: the
\* code deletes a branch whatever the server has there.)
MoveIsSafe ==
    \A h \in Helpers, s \in Servers, r \in Refs : Moves(h, s, r) =>
        \/ WithinHistory(server[s][r], server'[s][r])
        \/ batch[h][r].force /\ (Exclusive => Expendable(h, s, r))
OverwritesOnlyPublished == [][MoveIsSafe]_vars

\* A ref that is accepted goes to every server that was listed, except where
\* it is already gone: the entry "+from:to" the code makes and then filters
\* out never stands for a ref git asked to push.
AcceptedGoesEverywhere ==
    \A h \in Helpers : pc[h] \in {"publish", "report"} =>
        \A r \in Accepted(h) : \A s \in Listed(h) :
            r \notin toPush[h][s] =>
                batch[h][r].from = NoCommit /\ listOutputs[h][s][r] = NoCommit

\* The nostr state a helper with the whole cache would read, or the state
\* every server started with.
SharedState(r) ==
    LET published == {relayState[rl][u] : rl \in Relays, u \in Maintainers} \ {NoEvent}
    IN  IF published = {} THEN InitRefs[r]
        ELSE (CHOOSE e \in Selected(published) : TRUE).refs[r]

\* One account, relays that work, one helper at a time, and every push to a
\* server goes through nostr.
Alone ==
    /\ Exclusive
    /\ Relays # {}
    /\ env.may \cap {"relay_fault", "direct", "nostate"} = {}
    /\ \E u \in Users : Maintainers = {u} /\ \A h \in Helpers : Owner[h] = u

\* Nobody forces or deletes either.
Linear == Alone /\ env.may \cap {"force", "delete"} = {}

\* No server's branch gets ahead of nostr ...
ServersWithinState ==
    \A s \in Servers, r \in Refs : WithinHistory(server[s][r], SharedState(r))

\* ... no clone's remote-tracking branch shows commits the nostr state does not
\* have ...
TrackingWithinState ==
    \A h \in Helpers, r \in Refs : WithinHistory(tracking[h][r], SharedState(r))

\* ... and no push is ever rejected or aborted for a server's state.
NeverRejected ==
    \A h \in Helpers : pc[h] = "listed" =>
        \A nostr \in StateInUse(h) : \A b \in Batches(h, nostr) :
            Rejected(h, nostr, b) = {} /\ Failing(h, nostr, b) = {}

\* Without forced pushes and deletions all three hold, whatever pushes to
\* servers fail, wherever helpers die and however many updates a server has
\* missed.
LinearInLine ==
    Linear => ServersWithinState /\ TrackingWithinState /\ NeverRejected

\* What git servers are for: while a helper is alone, the nostr state is the
\* repository and every git server only ever copies values of it, whichever
\* servers or helpers fail and whatever is forced or deleted.  (Of a behaviour
\* where it is not alone this says nothing: state and mirror stay as they are.)
AloneMirror == INSTANCE MirroredRepo WITH
    state <- IF Alone THEN [r \in Refs |-> SharedState(r)] ELSE InitRefs,
    mirror <- IF Alone THEN server ELSE [s \in Servers |-> InitRefs]
AloneMirrors == AloneMirror!Spec

\* Every server agrees with the nostr state, forced and deleted refs included.
InSync == \A s \in Servers, r \in Refs : server[s][r] = SharedState(r)

\* The fetch report prints "new state" when a relay sent a state event newer
\* than the one in use; the state in use is then another one.
NewStateIsUsed ==
    [][\A h \in Helpers : (pc[h] = Idle /\ pc'[h] = "connected") =>
          \A old \in Selected(CachedStates(h)) :
              (\E u \in Maintainers : /\ cache'[h][u] # cache[h][u]
                                     /\ cache'[h][u].at > old.at)
                 => old \notin Selected(CachedStates(h)')]_vars

\* "cached" means "some relay has it or something newer".
CachedIsPublished ==
    \A h \in Helpers, u \in Users : cache[h][u] # NoEvent =>
        \E rl \in Relays : /\ relayState[rl][u] # NoEvent
                           /\ relayState[rl][u].at >= cache[h][u].at

\* Whoever overlaps with whom and whatever fails: what a helper says "ok" to
\* goes to every server it listed, and what it keeps as published is on a relay.
DeliversAccepted == AcceptedGoesEverywhere /\ CachedIsPublished
=============================================================================
