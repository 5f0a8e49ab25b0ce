------------------------------ MODULE Checkout ------------------------------
(***************************************************************************)
(* Proposals outside the remote helper.  `ngit send` publishes commits as  *)
(* a proposal or a revision of one (src/lib/sub_commands/send.rs).  `ngit  *)
(* list` shows proposals, compares the branch a clone has of one with what *)
(* is published and lets the user choose what happens to the branch        *)
(* (src/lib/sub_commands/list.rs); patches become commits again by         *)
(* apply_patch_chain in src/lib/git/mod.rs, one git operation at a time.   *)
(*                                                                         *)
(* There is one clone, of a reviewer who also commits to the branches; all *)
(* others are their events.  A branch is named after the id of the root of *)
(* its proposal, so the proposal stands for the name; 0 is main, or        *)
(* origin/main with HEAD detached.                                         *)
(***************************************************************************)
EXTENDS PatchThreads

CONSTANTS Root,    \* main
          Local,   \* the commits that the reviewer may make
          InitLog, \* events published before
          None,
          Env,     \* what may happen, see EnvKinds
          MaxLog   \* bound: number of events ever published

EnvKinds == {"relay_fault", \* a fetch may fail, relays may take a part
             "clocks",      \* clocks differ; sets may share a second
             "mention",     \* proposals mention others
             "edits",       \* uncommitted changes
             "fault",       \* a git operation may fail: a patch does not give
                            \* the commit it names, a file is in the way
             "killed",      \* ngit may be killed at work
             "meanwhile"}   \* the reviewer commits while ngit waits

OneParent(k) == \E a \in Commits : Parents(k) = {a}

\* Event i as ngit publishes it, whatever its date: a patch is of a commit with
\* one parent, and one within a set replies to a patch before it, of the parent.
InPlace(lg, i) ==
    LET e == lg[i] IN
    /\ e.commit # NoCommit => OneParent(e.commit)
    /\ ~e.root => e.commit # NoCommit /\ e.parent \in 1..i - 1 /\ NextCommit(lg, i)

ASSUME CheckoutAssumption ==
    /\ Root \in Commits
    /\ \A k \in Commits : Root \in Ancestors[k]
    /\ Local \subseteq Commits
    /\ InitLog \in Seq(Patch) /\ Len(InitLog) <= MaxLog
    /\ \A i \in DOMAIN InitLog : InPlace(InitLog, i)
    /\ Env \subseteq EnvKinds
    /\ MaxLog \in Nat

VARIABLES log,     \* all events the relays have
          ids,     \* the events of the clone's cache
          objects, \* the commits of the clone
          branch,  \* the branch of each proposal
          head,    \* what is checked out
          dirty,   \* there are uncommitted changes
          pc,      \* of the ngit list that runs
          task,    \* the proposal chosen there, how the branch compares, the answer
          todo,    \* the git operations to come
          told,    \* history: the task that the last step reported as done
          sent,    \* history: what the last step sent
          own      \* history: proposals to whose branch the reviewer committed

repo == <<objects, branch, head>>
run == <<pc, task, todo>>
vars == <<log, ids, repo, dirty, run, told, sent, own>>

Ids == 1..Len(log)
Events == 1..MaxLog
Kinds == {"baseless", "new", "same", "behind", "replaced", "ahead", "amended"}
Answered == {"apply", "checkout", "overwrite", "discard", "existing"}
Task == [proposal : Events, chain : Seq(Events), kind : Kinds, choice : Answered \cup {None}]

ASSUME NoneAssumption == None \notin Task

Operation(name, k) == [op |-> name, commit |-> k, left |-> {}]
ToMain == Operation("main", NoCommit)
ToBranch == Operation("checkout", NoCommit)
Apply == Operation("apply", NoCommit)
Move(k) == Operation("move", k)
Make(k) == Operation("make", k)
\* The loop of apply_patch_chain, over the patches at these places of the chain.
Loop(places) == [op |-> "loop", commit |-> NoCommit, left |-> places]

\* The clone, the published events and the command that runs, by shape.
TypeOK ==
    /\ log \in Seq(Patch) /\ Len(log) <= MaxLog
    /\ ids \subseteq Ids
    /\ objects \subseteq Commits
    /\ branch \in [Events -> CommitOrNone]
    /\ head \in {0} \cup {p \in Events : branch[p] # NoCommit}
    /\ dirty \in BOOLEAN
    /\ pc \in {"idle", "menu", "asked", "working"}
    /\ task \in Task \cup {None}
    /\ task # None <=> pc \in {"asked", "working"}
    /\ Closure({branch[p] : p \in Events}) \subseteq objects
    /\ own \subseteq Ids

Init ==
    /\ log = InitLog
    /\ ids = {}
    /\ objects = {Root}
    /\ branch = [p \in Events |-> NoCommit]
    /\ head = 0
    /\ dirty = FALSE
    /\ pc = "idle"
    /\ task = None
    /\ todo = << >>
    /\ told = None
    /\ sent = None
    /\ own = {}

-----------------------------------------------------------------------------
(* Publishing.                                                             *)

\* parse_starting_commits and choose_commits: commits that follow each other.
\* git2 makes no patch of a merge, and nothing is sent then.
Ranges ==
    {Ahead(a, b) : a, b \in Commits} \ {{}}
Sendable ==
    {ks \in Ranges : Root \notin ks /\ (\A k \in ks : ~IsMerge(k)) /\ ks \cap Local \subseteq objects}

\* The date of what is signed now, by the clock of who signs.  What one command
\* publishes is signed in one second.
Dates == IF "clocks" \in Env THEN 1..Len(log) + 1 ELSE {Len(log) + 1}

\* The events arrive in order, perhaps not all.
Published(events) ==
    /\ Len(log) + Len(events) <= MaxLog
    /\ \E n \in IF "relay_fault" \in Env THEN 0..Len(events) ELSE {Len(events)} :
        log' = log \o SubSeq(events, 1, n)
    /\ told' = None
    /\ UNCHANGED <<ids, repo, dirty, run, own>>

\* get_root_proposal_id_and_mentions_from_in_reply_to: the first reference is
\* what is revised if the cache has it as the root of a patch set.
ReplyOf(reply, cached) ==
    LET isRoot == reply \in cached /\ log[reply].root IN
    [root |-> IF isRoot THEN reply ELSE 0,
     mentions |-> IF isRoot THEN {} ELSE {reply} \ {0}]

\* ngit send.  reply is the first event referred to, 0 if that is none of this
\* log: an issue, an account, nothing at all.
Send(user, ks, reply, mentioned, letter) ==
    \E cached \in {Ids} \cup (IF "relay_fault" \in Env THEN {{}} ELSE {}),
       name \in Names, at \in Dates :
        LET to == ReplyOf(reply, cached)
            head1 == RootEvent(user, at, name, to.root, to.mentions \cup mentioned)
            events == PatchSet(log, head1, letter, ks)
        IN /\ Published(events)
           /\ sent' = [author |-> user, reply |-> to.root, mentions |-> head1.mentions,
                       first |-> Len(log) + 1,
                       complete |-> Len(log') = Len(log) + Len(events)]

\* git push of commits on top of a proposal, see Proposals.
Add(user, p, k) ==
    \E t \in Tips(log, PatchesOf(log, Ids, p)), at \in Dates :
        LET ks == Ahead(log[t].commit, k) IN
        /\ user \in Permissioned(log, p)
        /\ FastForward(log[t].commit, k) /\ ks \in Sendable
        /\ Published(Appended(log, user, at, t, ks))
        /\ sent' = None

-----------------------------------------------------------------------------
(* Looking at a proposal.                                                  *)

\* Nothing of the clone changes.
Look(next) ==
    /\ pc' = next
    /\ todo' = << >>
    /\ told' = None /\ sent' = None
    /\ UNCHANGED <<log, repo, dirty, own>>

\* ngit list: everything is fetched, or the cache is read as it is.
Launch ==
    /\ pc = "idle"
    /\ ids' = Ids \/ ("relay_fault" \in Env /\ ids' = ids)
    /\ Look("menu")
    /\ UNCHANGED task

CommitsOf(events) == {log[i].commit : i \in events}
TipOf(t) == log[Head(t.chain)].commit
BaseOf(t) == CHOOSE k \in Parents(log[Last(t.chain)].commit) : TRUE

\* Mutants: see RemoteHelper.  Only the latest patches are compared.
BugOnlyChain(p, chain) ==
    LET tip == log[Head(chain)].commit
        base == CHOOSE k \in Parents(log[Last(chain)].commit) : TRUE
        local == branch[p]
    IN IF base \notin objects THEN "baseless"
       ELSE IF local = NoCommit THEN "new"
       ELSE IF local = tip THEN "same"
       ELSE IF local \in CommitsOf(Range(chain)) THEN "behind"
       ELSE IF tip \in Ancestors[local] THEN "ahead"
       ELSE "amended"

\* A published commit is looked for in the branch and not at its tip.
BugAnyPublished(p, chain) ==
    LET tip == log[Head(chain)].commit
        base == CHOOSE k \in Parents(log[Last(chain)].commit) : TRUE
        local == branch[p]
        inChain == CommitsOf(Range(chain))
        published == CommitsOf(PatchesOf(log, ids, p))
    IN IF base \notin objects THEN "baseless"
       ELSE IF local = NoCommit THEN "new"
       ELSE IF local = tip THEN "same"
       ELSE IF local \in inChain THEN "behind"
       ELSE IF Ancestors[local] \cap published # {} THEN "replaced"
       ELSE IF tip \in Ancestors[local] THEN "ahead"
       ELSE "amended"

\* What launch compares, in its order: with the latest patches, then with all
\* that were ever published for the proposal.
Comparison(p, chain) ==
    LET tip == log[Head(chain)].commit
        base == CHOOSE k \in Parents(log[Last(chain)].commit) : TRUE
        local == branch[p]
        inChain == CommitsOf(Range(chain))
        published == CommitsOf(PatchesOf(log, ids, p))
    IN IF base \notin objects THEN "baseless"
       ELSE IF local = NoCommit THEN "new"
       ELSE IF local = tip THEN "same"
       ELSE IF local \in inChain THEN "behind"
       ELSE IF local \in published THEN "replaced"
       ELSE IF tip \in Ancestors[local] THEN "ahead"
       ELSE "amended"

\* The user chooses a proposal, of whatever status, that has patches.
Choose(p, t) ==
    /\ pc = "menu"
    /\ LET chain == Chain(log, PatchesOf(log, ids, p), t) IN
        task' = [proposal |-> p, chain |-> chain, kind |-> Comparison(p, chain), choice |-> None]
    /\ Look("asked")
    /\ UNCHANGED ids

\* The proposal stays chosen.
BugStaysChosen ==
    /\ pc = "asked"
    /\ Look("menu")
    /\ UNCHANGED <<ids, task>>

\* "back".
Back ==
    /\ pc = "asked"
    /\ task' = None
    /\ Look("menu")
    /\ UNCHANGED ids

\* "exit", ctrl-c, "download to ./patches", or no proposals.
Leave ==
    /\ pc \in {"menu", "asked"}
    /\ task' = None
    /\ Look("idle")
    /\ UNCHANGED ids

-----------------------------------------------------------------------------
(* The reviewer's own commits.                                             *)

\* On top of the branch or instead of its last commit.
Commit(k) ==
    /\ pc = "idle" \/ ("meanwhile" \in Env /\ pc \in {"menu", "asked"})
    /\ head # 0 /\ k \in Local \ objects
    /\ Parents(k) = {branch[head]} \/ Parents(k) = Parents(branch[head])
    /\ branch' = [branch EXCEPT ![head] = k]
    /\ objects' = objects \cup {k}
    /\ own' = own \cup {head}
    /\ dirty' = FALSE
    /\ told' = None /\ sent' = None
    /\ UNCHANGED <<log, ids, head, run>>

\* Files are edited, or changes stashed; main is checked out.
Edit ==
    /\ pc = "idle"
    /\ \/ "edits" \in Env /\ dirty' = ~dirty /\ UNCHANGED head
       \/ ~dirty /\ head' = 0 /\ UNCHANGED dirty
    /\ told' = None /\ sent' = None
    /\ UNCHANGED <<log, ids, objects, branch, run, own>>

\* launch_git_am_with_patches: git makes new commits of the patches on what is
\* checked out, which are the reviewer's; main stands still here.
GitAm ==
    /\ pc = "asked" /\ task.kind # "ahead"
    /\ \/ UNCHANGED <<objects, branch, own>>
       \/ \E k \in Local \ objects :
            /\ head # 0 /\ Parents(k) = {branch[head]}
            /\ branch' = [branch EXCEPT ![head] = k]
            /\ objects' = objects \cup {k}
            /\ own' = own \cup {head}
    /\ pc' = "idle" /\ task' = None
    /\ told' = None /\ sent' = None
    /\ UNCHANGED <<log, ids, head, dirty, todo>>

-----------------------------------------------------------------------------
(* Changing the branch.                                                    *)

Answers(t) ==
    {[kind |-> "new", choice |-> "apply", todo |-> <<Apply>>],
     [kind |-> "same", choice |-> "checkout", todo |-> <<ToBranch>>],
     [kind |-> "behind", choice |-> "apply", todo |-> <<ToBranch, Apply>>],
     [kind |-> "replaced", choice |-> "overwrite",
      todo |-> <<Move(BaseOf(t)), ToBranch, Apply>>],
     [kind |-> "replaced", choice |-> "existing", todo |-> <<ToBranch>>],
     [kind |-> "ahead", choice |-> "existing", todo |-> <<ToBranch>>],
     [kind |-> "amended", choice |-> "existing", todo |-> <<ToBranch>>],
     [kind |-> "amended", choice |-> "discard",
      todo |-> <<Move(BaseOf(t)), Apply, ToBranch>>]}

\* check_clean ends the command, except where the branch has unpublished
\* commits on top.
Answer ==
    /\ pc = "asked"
    /\ ~dirty \/ task.kind = "ahead"
    /\ \E a \in Answers(task) :
        /\ a.kind = task.kind
        /\ task' = [task EXCEPT !.choice = a.choice]
        /\ todo' = a.todo
    /\ pc' = "working"
    /\ told' = None /\ sent' = None
    /\ UNCHANGED <<log, ids, repo, dirty, own>>

\* The places of the patches that apply_patch_chain does not find in the branch.
Missing(p, chain) ==
    {i \in DOMAIN chain :
        branch[p] = NoCommit \/ log[chain[i]].commit \notin Ancestors[branch[p]]}

\* apply_patch_chain: make the branch where the oldest of them goes.
ApplyChain(p, chain) ==
    LET missing == Missing(p, chain)
        parent == CHOOSE k \in Parents(log[chain[Max(missing)]].commit) : TRUE
    IN IF missing = {} THEN <<ToBranch>>
       ELSE <<Move(parent), ToBranch, Loop(missing)>>

\* The patches are not reversed.
BugKeepsOrder(places) == Min(places)

\* A chain has the newest patch first, the loop takes the oldest first.
NextOf(places) == Max(places)

\* Then, for each, the commit, unless it exists, and the branch there.
LoopOver(chain, places) ==
    LET i == NextOf(places)
        k == log[chain[i]].commit
    IN IF places = {} THEN << >>
       ELSE <<Make(k), Move(k), ToBranch, Loop(places \ {i})>>

\* A commit is found, one is made on its parent, a branch is found.
Possible(step) ==
    /\ step.op = "move" => step.commit \in objects
    /\ step.op = "make" => Parents(step.commit) \subseteq objects
    /\ step.op = "checkout" => branch[task.proposal] # NoCommit

\* The next operation.  git does not move a branch that is checked out:
\* create_branch_at_commit checks out main before and the branch again after.
Work ==
    /\ pc = "working" /\ todo # << >>
    /\ LET step == Head(todo)
           rest == Tail(todo)
           p == task.proposal
           detour == step.op = "move" /\ head = p
       IN /\ Possible(step)
          /\ todo' = IF detour THEN <<ToMain, step, ToBranch>> \o rest
                     ELSE IF step.op = "apply" THEN ApplyChain(p, task.chain) \o rest
                     ELSE IF step.op = "loop" THEN LoopOver(task.chain, step.left) \o rest
                     ELSE rest
          /\ head' = IF step.op = "main" THEN 0
                     ELSE IF step.op = "checkout" THEN p ELSE head
          /\ branch' = IF step.op = "move" /\ ~detour
                       THEN [branch EXCEPT ![p] = step.commit] ELSE branch
          /\ objects' = IF step.op = "make" THEN objects \cup {step.commit} ELSE objects
    /\ told' = None /\ sent' = None
    /\ UNCHANGED <<log, ids, dirty, pc, task, own>>

Finish ==
    /\ pc = "working" /\ todo = << >>
    /\ told' = task
    /\ pc' = "idle" /\ task' = None
    /\ sent' = None
    /\ UNCHANGED <<log, ids, repo, dirty, todo, own>>

\* An operation fails, or ngit is killed between two: nothing is undone.
Broken ==
    /\ pc = "working" /\ todo # << >>
    /\ Env \cap {"fault", "killed"} # {} \/ ~Possible(Head(todo))
    /\ pc' = "idle" /\ task' = None /\ todo' = << >>
    /\ told' = None /\ sent' = None
    /\ UNCHANGED <<log, ids, repo, dirty, own>>

-----------------------------------------------------------------------------
\* What is published while ngit list runs is not seen before its next fetch, and
\* might as well be published then.
Others ==
    /\ pc = "idle"
    /\ \/ \E user \in Users, ks \in Sendable, letter \in BOOLEAN, reply \in {0} \cup Ids,
             mentioned \in {{}} \cup (IF "mention" \in Env THEN {{i} : i \in Ids} ELSE {}) :
           Send(user, ks, reply, mentioned, letter)
       \/ \E user \in Users, p \in Roots(log, Ids), k \in Commits : Add(user, p, k)

Reviewer == Edit \/ \E k \in Local : Commit(k)

List ==
    \/ Launch \/ Back \/ Leave \/ GitAm \/ Answer \/ Work \/ Finish \/ Broken
    \/ \E p \in Roots(log, ids) : \E t \in Tips(log, PatchesOf(log, ids, p)) : Choose(p, t)

Next == Others \/ Reviewer \/ List

Spec == Init /\ [][Next]_vars

-----------------------------------------------------------------------------
(* What should be true of proposals and their branches.                    *)

\* What was ever published for p, with its history.
PublishedOf(p) == Closure(CommitsOf(PatchesOf(log, Ids, p)))

\* No operation takes a commit off a branch that was not published, or is not
\* below one that was, except after "discard unpublished changes".
KeepsUnpublished ==
    pc = "working" /\ task.choice # "discard" =>
        \A p \in DOMAIN branch : branch[p] # NoCommit =>
            Ancestors[branch[p]] \ Ancestors[branch'[p]] \subseteq PublishedOf(p)

\* Once ngit says that it checked out the proposal, its branch is checked out
\* and is the tip of the latest patches, wherever it was before and whatever an
\* earlier command that was cut short left behind.
ReportedIsTip ==
    told # None /\ told.choice # "existing" =>
        /\ head = told.proposal
        /\ branch[told.proposal] = TipOf(told)

\* ngit says "you have an amended/rebase version the proposal that is
\* unpublished" only to somebody who committed to the branch.
AmendedIsOwn == pc = "asked" /\ task.kind = "amended" => task.proposal \in own

\* Every patch that counted for the proposal before has an earlier date than the
\* new set.
SentProposal == IF sent.reply = 0 THEN sent.first ELSE sent.reply
SentLast ==
    \A i \in PatchesOf(log, Ids, SentProposal) :
        i < sent.first => log[i].at < log[sent.first].at

\* All of a new proposal, or of a revision in reply to a proposal by somebody
\* who may revise it, is what everybody sees as its latest version, if it has the
\* latest date: a revision that is made in the same second or by a slow clock may
\* not be seen at all.  (Of one in reply to a revision only the first event is
\* found.)
SentIsTip ==
    /\ sent # None /\ sent.complete
    /\ sent.author \in Permissioned(log, SentProposal)
    /\ ~log[SentProposal].revision
    /\ SentLast
    => Tips(log, PatchesOf(log, Ids, SentProposal)) = {Len(log)}

\* Sending a proposal puts no other commits on the branch of another one: in
\* particular not on that of one that it mentions.
BranchOf(p) == {log[t].commit : t \in Tips(log, PatchesOf(log, Ids, p))}
LeavesOthers ==
    sent' # None => \A p \in Roots(log, Ids) :
        sent'.reply = 0 \/ p # ProposalOf(log, sent'.reply) => BranchOf(p)' = BranchOf(p)
=============================================================================
