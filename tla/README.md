# Verification of ngit

ngit is a git plugin that keeps a repository on nostr: announcements, the
state of the refs and proposals are signed events on relays, the commits are on
ordinary git servers. `git-remote-nostr` is the remote helper git starts for
`nostr://` urls, `ngit` the command for everything else. This directory holds
TLA+ models of the parts of the program that have to agree with each other,
TLC runs over small instances, and proofs for TLAPS. Paths below are relative
to the repository's root.

## 1. Inventory

| Component | Code | State it keeps | Operations | How it meets the others |
| --- | --- | --- | --- | --- |
| Remote helper | `src/bin/git_remote_nostr/{main,list,fetch,push}.rs` | per process: `list_outputs`, the refspecs of a batch, what each server still gets; per clone: remote-tracking refs | `list`, `fetch`, `push` over stdin | reads the state from the event cache, publishes through `send_events`, pushes to each git server |
| Repository state | `src/lib/repo_state.rs` | none; one event is chosen from the cache | `RepoState::try_from`, `build` | what `list` shows and what a push starts from |
| Repository reference | `src/lib/repo_ref.rs`, `client.rs: get_repo_ref_from_cache` | none; resolved from announcements in two caches | resolve maintainers, servers, relays | decides whose events count and which servers and relays are used |
| Fetching | `client.rs: fetch_all` and what it calls | per fetch: request, rounds, reports | ask relays, store, follow new maintainers and proposals | fills the caches every other part reads |
| Sending | `client.rs: send_events`, `send_event_to` | per call: one task per relay | send in order, cache what was taken | used by push, `ngit send`, `ngit init` |
| Event caches | nostr-lmdb, `.git/nostr-cache.lmdb` and one per account | events | save, query | shared by processes and clones |
| Commit graph | `src/lib/git/mod.rs: get_commits_ahead_behind` | the object database | ahead and behind | classification of refspecs |
| Protocol choice | `src/bin/git_remote_nostr/utils.rs` | preferences in git config | order of protocols, stop rules | list, fetch and push to each server |
| Proposals | `src/lib/git_events.rs`, `push.rs` | none; branches are rebuilt from the events in the cache | new proposal, revision, patches on top, status of a merge | `pr/` branches of list, fetch and push |
| `ngit list` | `src/lib/sub_commands/list.rs`, `git/mod.rs: apply_patch_chain` | the branches of proposals, what is checked out | compare a branch with a proposal, apply, overwrite, discard | reads the caches after a fetch; one git operation after the other |
| `ngit send` | `src/lib/sub_commands/send.rs` | none | choose commits, make a proposal, a revision or mentions of others | sends what `ngit list` and `pr/` branches then find |
| `ngit init` and the search for a repository | `src/lib/sub_commands/init.rs`, `repo_ref.rs` | `nostr.repo` in git config, remotes, `maintainers.yaml` | announce, link the clone, find the repository again | defaults from the resolved reference, publishes through `send_events` |
| Login | `src/lib/login`, `sub_commands/{login,logout,export_keys}.rs` | four items in each of two git config scopes | log in, log out, export, prompts after failures | who signs for `init`, `send` and a push |

What is hard in this program:

- **Two authorities.** The state event says what the refs are; git servers hold
  refs of their own. A push publishes first, tells git `ok`, and only then goes
  to the servers, whose errors it discards. Servers lag, and somebody may push to them
  without nostr.
- **Snapshots.** A push decides with what it listed and cached; a fetch decides
  with a request made before the first answer. Both are used long after.
- **Partial failure.** Every relay and server may fail alone, and none is
  retried within an operation. A process may die between any two steps.
- **State in files and branches.** Logins, the link of a clone to its
  repository and the branch of a proposal are written item by item, with prompts,
  publishing and other writers in between, and the next command starts from
  whatever is there.
- **Resolution by name.** Who maintains a repository is the closure of
  announcements that name each other, and it changes while relays are asked.

What makes each component correct: no push may discard commits that it could not
know of, servers hold only published values, what was published reaches
every server that can be reached, nobody unnamed is a maintainer and nobody
named is missed, a `pr/` branch shows what was pushed to it and loses commits
only by force, a relay that answered has been asked everything that follows
from its answers, a relay never holds a patch without its root, a branch that
`ngit list` checked out is the latest version and unpublished commits leave it
only if the user says so, a repository that was announced is found again, and
the next command signs as the one who logged in last.

`PROJECT.json` lists every hazard at its line with the property that covers it,
or why none does.

## 2. Modules

| Module | Models | Its variables and actions in the code |
| --- | --- | --- |
| `CommitGraph` | commits and `get_commits_ahead_behind`, as the relations its callers test | constants; `FastForward(a, b)` is an empty `ahead`, `Related` is the success of the walk |
| `MirroredRepo` | abstract: one authoritative map of refs and mirrors that copy it | what git servers promise users of a nostr repository |
| `RemoteHelper` | `list`, `fetch` and `push` of the helper, several clones, accounts, relays and servers | `pc` is the place in `main`/`run_push`; `Connect`, `RunList`, `RunFetch`, `RunPush`, `CreateAndPublishEvents`, `UpdateRemoteRefsPushed`, `PushToRemote`, `Finish` are the awaits and calls in their order; `Rejects`, `Sends`, `Aborts` are the branches of `create_rejected_refspecs_and_remotes_refspecs`; `StateInUse` is `existing_state`, a state event's or the first listed server's, and the history variable `nostrRead` remembers which |
| `MCRemoteHelper` | a branching history of four commits and an unrelated root; the environments of `push_overwrite` | |
| `MCPush` | `RemoteHelper` in four environments | |
| `RemoteHelper_proofs` | types, safe overwrites, delivery, the refinement of `MirroredRepo`, lines without force | |
| `Protocols`, `MCProtocols` | how list, fetch and push reach one git server: `get_read_protocols_to_try`, `get_write_protocols_to_try`, the loops over them, `set_protocol_preference` | `prefs` is the two git config items; `Start` makes the list, `Succeed` and `Fail` end one request, `SetProtocolPreference` writes an item that was read in an earlier step, `ReturnError` gives up |
| `Protocols_proofs` | types, justified prompts, what ssh hides, what a list remembers | |
| `Announcements` | what an announcement says, whom it names, closure | `RepoRef::try_from` |
| `RepoRef`, `MCRepoRef` | the loop of `get_repo_ref_from_cache` over two caches | `ReadGlobal`, `ReadLocal` are the two awaits of an iteration |
| `FetchAll`, `MCFetchAll` | `fetch_all`: request, rounds, passes per relay, storing, reports | `MakeRequest` is `create_relays_request`, `Answer` one pass of `fetch_all_from_relay` with `process_fetched_events`, `EndRound` the end of the loop |
| `SendEvents`, `MCSendEvents` | `send_events`: relay list, a task per relay | `Accept` and `SendFails` are the two outcomes of `send_event_to` |
| `Client_proofs` | `FetchAll`: types, exhausted relays, the repository's relays, the account's cache; `RepoRef`: types, soundness and completeness of its loop; `SendEvents`: prefixes | the three are functions of one file and share no name, so that it can extend them all |
| `PatchThreads` | what a heap of patch events means (patches of a proposal, tip, chain, status, branch name, whose commits a push to main merges) and how a set of them is made, with cover letter, thread and mentions | operators over a log of events and the ids a cache holds; named after the functions of `git_events.rs` and `client.rs` in their comments |
| `PatchThreads_proofs` | commits in order, chains of patches from tip to root | lemmas that both of the next use |
| `Proposals` | `list` and `push` for `pr/` branches, and the statuses a push to main sends | `Connect` fetches and lists; `NewProposal`, `Revise`, `Extend`, `Refuse` are the branches of `process_proposal_refspecs`; `PushMain` is `get_merged_status_events`; `Stray`, `SetStatus` are other clients; `last` remembers the last push for `PushShown` |
| `MCProposals`, `MCBranches` | five commits with a merge, three names; `Proposals` in one of several environments | |
| `Proposals_proofs` | types, threads, chains, pushes, names, drops, merges | |
| `Checkout` | `ngit send`, `ngit list` and `apply_patch_chain` in the clone of a reviewer, others as their events | `Send` is `send.rs: launch`, `Add` a push by somebody else; `Launch` fetches, `Choose` is the menu with the `Comparison` of `list.rs: launch`, `Answer` one of its prompts; `todo` holds the git operations of that answer, which `Work` does one by one and `Broken` leaves undone; `Commit`, `Edit`, `GitAm` are the reviewer |
| `MCCheckout` | a line of two commits, one that replaces the first, two of the reviewer's; `Checkout` in one of seven environments | |
| `Checkout_proofs` | types, what is sent, what is checked out, unpublished commits, whose they are | |
| `RepoSources` | announcements, remotes, the git config item and `maintainers.yaml` as a clone reads them | constants |
| `InitRepo`, `MCInitRepo` | `ngit init`, what it leaves in a clone, and how other commands find the repository | `Launch` looks the repository up and asks, `Publish` announces, then `SaveItem`, `PromptOrigin`, `UpdateFile` in the order of the code; `Search`, `LinkFound` are the prompt of `repo_ref.rs`; `Elsewhere` is an `init` in other clones |
| `InitRepo_proofs` | types, the link of a clone, its file, the maintainers | |
| `Signers` | a login in git config and how a signer is read from it | constants |
| `Login`, `MCLogin` | `login`, `logout`, `export-keys` and the login of other commands, over two config scopes | a command is its `pc`, the prompt it is at, and `todo`, the writes to come: `WriteNext` does one, `WriteFails` ends them, `Written` goes on; `AskAccount`, `FreshLogin`, `AfterFailedLogout`, `AfterFailedSave` are the prompts |
| `Login_proofs` | types, logins that take nothing from anybody, what a command tells, who signs | |

Composition: `RemoteHelper` and `MirroredRepo` extend `CommitGraph`, and
`RemoteHelper` instantiates `MirroredRepo` with the nostr state for the
authoritative map. `RepoRef` and `FetchAll` extend `Announcements`; `FetchAll`
uses the closure `NamedFrom` where the code calls the loop `RepoRef` models,
which `Client_proofs!AllFound` justifies, and `InitRepo` has its own shorter closure over a map of
announcements. `Proposals` and `Checkout` extend `PatchThreads`: what one
publishes by pushes the other publishes by `ngit send` and lists. `Protocols` opens up the calls that `RemoteHelper`
has as one request to a server that works or fails. `RemoteHelper` uses one step for a whole fetch
(`Connect`) and one for a whole `send_events`, whose own modules open them up. `Proposals`
takes from `SendEvents` that relays hold prefixes of what was sent, and leaves
servers to `RemoteHelper`: main is one value there.

What may happen besides the program's own steps (relays and servers that fail,
commands that overlap or are killed, users who force) is an environment. In
`RemoteHelper`, `Login` and `InitRepo` it is the variable `env`: the first state chooses one of the constant `Envs`, no step changes it,
and a property that holds in some environments only has the premise in its
own text. So one run checks several, and a theorem speaks of all of them. The
other modules have a constant for it, `Env` or `SendEnv`.

An operator whose name starts with `Bug` is a wrong version of the operator it
stands before, by a slip one could make in that code. No specification uses
it; each exists to show that a property can fail.

### Abstractions

- A commit is a model value with its set of ancestors; a ref is a branch. Tags
  and HEAD go through the same code and are not told apart. Branches under
  `pr/` are one flag of a batch.
- A state event is its author, its date and a map of refs. Dates come from one
  clock and are distinct within a repository, except that `Oldest` leaves ties
  open.
- git, libgit2, relays and the database are external: modelled as `push.rs`,
  `fetch.rs` and `client.rs` use them. A relay and a cache keep the newest
  event of an author and kind. `git push` sends a refspec that changes what was
  listed, and only with `+` if that is no fast forward. libgit2 sends nothing to
  a server if a refspec without `+` is no fast forward there; the server may
  then refuse any of the refs it is sent.
- The user of a clone may have at a branch any commit that is present or builds
  directly on what is present.
- In `Proposals` all relays are one, a push has one refspec and its events one
  date, which is the hardest case for `get_most_recent_patch_with_ancestors`.
  Commit dates respect ancestry. Among several patches that could be the tip
  any is taken, since their hashes decide. A patch of a merge commit cannot be
  made (libgit2), so such a push ends. The log starts with proposals that were
  sent whole, each by one account and without mentions.
- In `RepoRef` an announcement is stored in both caches, in the global one alone
  (by another clone) or in the clone's alone (by a process that is killed between
  the two saves).
- `Checkout` has one clone; others are their events. Events are dated by the clock
  of who signs them. In environment `clocks` any date may come with any event; in the
  others the clocks agree, and each set is later than those before it. What one
  command publishes has one date: it is signed within a second. A proposal stands for the
  name of its branch, which holds a part of its id; 0 is main, or `origin/main`
  with HEAD detached. Commits made by `git am` are the reviewer's own. Each
  event has a commit id, so patches by clients that leave it out are not there.
  A reply to 0 is one to an issue, an account or nothing. What others publish
  while `ngit list` runs is not seen before its next fetch. Statuses only group
  the menu.
- `InitRepo` is one clone and its cache beside the relays; names, web pages,
  relays and hashtags of an announcement are left out, a list of servers is one
  value. The code also rewrites `maintainers.yaml` when only the order of its
  maintainers or its relays differ (`init.rs:566`); here they are sets, or
  left out. A prompt may get any answer, among them what it offers.
- In `Login` a key is its account and whether it is encrypted; a remote signer
  answers or not. A command may run in each place, one of them outside of a
  repository. Every item is a write of its own.
- In `FetchAll` a profile stands for metadata and relay list, a status for
  everything that hangs on a thread; patches of a set other than its root are
  left out. `MakeRequest` is one step, though `create_relays_request` reads the
  caches in several awaits: another process of the same clone does not come in
  between. Relays keep what they have during a run, which starts from every
  way to spread the events over the relays that the instance names.

## 3. Runs

| Run | Instance | Shows |
| --- | --- | --- |
| `push_overwrite` | 2 clones, 2 servers, 1 ref; two environments (`Pushing`): helpers take turns, with all faults, force, delete, direct pushes, proposals, `nostr.nostate`; or they overlap, with force and direct pushes | `OverwritesOnlyPublished`: a push takes commits off a server's branch only by force. While helpers take turns, a forced push that read a state event takes only commits that event had; one that found none takes only what the first listed server had, and from that server itself anything, as plain git does. `TypeOK` |
| `push_mirrors` | 2 clones of one account, 2 servers; four environments (`MCPush`): while helpers take turns, servers fail and helpers die but nobody forces (`Lines`), everybody forces and deletes but nothing fails (`Quiet`), or all of that (`Rough`); in `Together` helpers overlap and a relay fails too | `Lines`: servers and tracking refs stay within the nostr state and no push is rejected (`LinearInLine`); `Quiet`: servers get what was published, again and again (`QuietReachesServers`), and so have it whenever everybody rests; these three: the helper implements `MirroredRepo` (`AloneMirrors`); all four: an accepted ref goes to every listed server, cached means published (`DeliversAccepted`) |
| `protocol_order` | two processes of one clone, four urls on three hosts or directories, two of them differing in their scheme only; taking turns with a config that may be locked, or overlapping | passwords are asked for only after ssh was refused (`PromptsJustified`); only a preference for ssh hides a server that answers everybody (`OnlySshHides`); a list starts with what worked (`ListsWhereItWorked`, taking turns only) |
| `newest_state` | two maintainers | finding: the state in use is the oldest one |
| `maintainers_found` | 3 accounts, 3 announcements in any order, in one or both caches, also while the loop runs | nobody unnamed is a maintainer; the loop ends (`FindFairSpec`); if no cache changed meanwhile it found exactly the named, and reports none only if no maintainer announces (`FindsAll`) |
| `fetch_exhausts` | 2 relays with parts of a chain of 3 maintainers, a newer announcement that drops one, a proposal and its status, or the profile of the account; failures, crashes and another clone, any number of fetches | nothing that follows from a relay's answers is left behind; the repository's relays are asked; the account's cache keeps up; a fetch ends (`FairSpec`) |
| `proposal_branches` | an author, a maintainer and a stranger; seven kinds of environment (`MCBranches`) | a branch shows what was pushed to it (`PushShown`), rebuilds to a line of commits from any part of a thread (`ChainIsHistory`), stays one proposal (`OneProposal`), is closed when it is merged (`ClosedByMerge`) and loses commits only by force (`DropsOnlyByForce`); the last two while helpers take turns |
| `send_prefix` | 3 events, all triples of url lists over 2 relays | relays hold prefixes of what is sent (`NoGaps`) |
| `login_config` | a clone and a directory outside of it, two accounts; five environments (`MCLogin`): keys and remote signers, encrypted keys, signers given as arguments, writes that fail and commands that are killed, commands that overlap | the account that is taken for the user's signs (`UserSigns`); what is told of a login or logout is what the next command finds (`ToldIsSo`, logouts without encrypted keys); a local login leaves the global one alone and a save that is cut short leaves the old login or the new one (`LoginsKept`) |
| `init_repo` | two accounts, two identifiers and the empty one, three announcements; five environments (`MCInitRepo`): plain, killed with remotes of the user, with a `maintainers.yaml`, with others who announce meanwhile, and odd arguments with relays that may not answer | what an `init` announced is found by the other commands (`Found`), the file agrees with it (`FileInLine`), running it again with what it offers loses no maintainer (`DefaultsKeep`) |
| `checkout_send` | six commits, two of them the reviewer's, three events; seven environments (`MCCheckout`): proposals by a maintainer and an outsider, the reviewer's commits, mentions, clocks that disagree, relays that take or give a part, operations that fail or are killed, commits and edits during a prompt | what was sent is the latest version, if it is dated after every patch that counted before (`SentIsTip`); a branch said to be checked out is the latest version (`CheckedOutIsTip`) and unpublished commits leave it only by "discard" (`LosesOnlyByDiscard`), both where nobody commits during a prompt; only the user's own changes are called amended (`AmendedIsUsers`), where nothing is cut short |
| `mention_replaces` | the same, where proposals mention others | finding: a proposal that mentions an earlier one of the same author replaces it, so that the branch of the earlier one goes to a commit of the new one |

Bounds. `env.events` in `RemoteHelper` and `MaxAt` in `InitRepo` bound how many state events or announcements
are ever signed. One or two are enough for every conflict between a state a
helper read and a newer one; three announcements are enough for a chain or
cycle of three accounts and for a stale copy of one (a run with four, 2.7
million states, shows the same). The history has a chain, a fork and an unrelated root, which are
all the relations the classification tests. Two servers show one that lags
while the other is in sync; two clones show one that is behind. Two relays of
an announcement show one that knows what the other does not; for pushes one is
enough, as a state event is sent to all alike. Three or four events are enough for a
proposal, a revision of it and a patch on that, or two proposals and the status
of a merge, five for what is pushed after one; for `Checkout` three let a proposal be revised and added to, or two
proposals refer to each other. Two accounts are enough for a login that replaces
another, in either scope and by either command. `push_overwrite` has all kinds of
environment steps at once with a small history and one state event, and again
fewer with helpers that overlap; the other push runs fewer
kinds with more clones or commits. `protocol_order` needs no bound, its states
are finite; it is symmetric in its two processes. So are those of `login_config`,
which is symmetric in its accounts. Elsewhere accounts, relays
and commits have different roles. Deadlock is checked in `protocol_order` and
`checkout_send`, where somebody can always list again;
the others end when the clock is used up or all events are sent
(`CHECK_DEADLOCK FALSE`).

Fairness. `MCSpec` of `MCPush` lets a helper that runs go on: the
program waits for nobody but relays and servers, which it asks with timeouts.
Nobody is obliged to start a helper. `FindFairSpec` of `RepoRef` and `FairSpec` of `FetchAll` are the same:
once called, database reads return and a relay answers or times out (3 s to
connect, 7 s for events). The step in which
a relay fails is not fair: answers alone must end a fetch. `FetchEnds` counts a
fetch that was killed as ended.

## 4. Proofs

Each theorem is proved for all values of the constants that satisfy the named
assumptions of the modules. Where a property holds in some environments only,
the premise on `env` (or on the accounts) is part of the property itself. The
invariant is then `Inv \/ ~premise`, which steps keep as they leave `env` alone.

`RemoteHelper_proofs`:

- `TypeCorrect`: `Spec => []TypeOK`, by the type invariant itself, one lemma per
  action.
- `SafeOverwrite`: `Spec => OverwritesOnlyPublished`, an action property in two
  halves. That a move which is not forced loses nothing holds in every
  environment, from what libgit2 accepts at the moment of the push
  (`TransportAccepts`). What a forced move may lose (`Expendable`) is stated for
  helpers that take turns (`Exclusive`); there `OverwriteInv` is inductive: at most
  one helper runs (`OneRunning`), what it listed is what the servers have until it
  pushes there (`ListedIsCurrent`), and what is left to push was classified against
  those values and against the state it started from, which is that of the event
  it read (`nostrRead`) or, without one, the list of the first server
  (`PushesAreSafe`). In the second case `existing_state` is compared with
  itself for that server, so a forced push may take anything off it: the
  property says so. Without `Exclusive` the second half fails: a server may
  move after it was listed, and `+` goes there without a lease.
- `AcceptedIsDelivered`: `Spec => []DeliversAccepted`, with overlapping helpers and
  every fault. That a cached event is on a relay needs that no event is from
  the future (`EventsTimed`): otherwise a relay could prefer another one.
- `ImplementsMirror`: `Spec => AloneMirrors`, the refinement. For one account whose
  relays work, `AloneInv` says that the relays agree, that a cache is never
  ahead of them, that a helper that runs has what they have, and that what it
  starts from, and after it published what it tells git and the servers, is the
  shared state. Under it each step is one of `MirroredRepo` or changes neither
  state nor mirrors (`Publish` is its update, a push to a server its copy).
- `StaysInLine`: `Spec => []LinearInLine`, with the same premise and neither
  force nor deletion. `LinearInv` adds that objects are closed under ancestors
  and that every accepted ref goes forward from the state (`PushesForward`);
  that no push is rejected then follows in each state, whatever a server missed.

`Protocols_proofs`:

- `TypeCorrect` and `PasswordsJustified`: `Spec => []PromptsJustified`, for any
  processes that overlap in any way. That every list has ssh before the
  protocols that ask for a password is not enough, because a preference is
  promoted past ssh, outlives the attempt that saved it and is written back by
  other processes. `JustifiedInv` says that the config items, and what an
  attempt has read of them to write again, prefer such a protocol only for
  servers that refused ssh, and that every attempt still has ssh to try before
  it, unless its server refused ssh.
- `OnlySsh`: `Spec => []OnlySshHides`. `OpenInv`: an attempt at an open server that
  does not start with ssh has a protocol without credentials before ssh and is
  not past it.
- `ListsRemember`: `Spec => []ListsWhereItWorked`. While processes take turns the
  order of a running list, and what it read to write again, is that of the
  config (`TurnsInv`).

`Client_proofs`, of `RepoRef`:

- `FindTypeCorrect`, and `NobodyUnnamed`: `FindSpec => []OnlyNamed`, also while the caches
  change. Needs that a cache files an announcement under its author and that
  an iteration reads only maintainers' announcements.
- `AllFound`: `FindSpec => []FindsAll`, which is about calls during which no cache
  changed (`changed` is a history variable). The invariant says that during
  the loop the events collected are cached ones of maintainers, and that at its
  end the maintainers are closed under all that is cached, so that they are the
  least closed set.

`Client_proofs`, of `FetchAll`, for finitely many events that may exist (`FetchAllAssumption`):

- `TypeCorrect`, and `AccountKeepsUp`: `Spec => []GlobalKeepsUp`. A store drops an
  event only for a newer one of the same address, and of finitely many there is
  a newest, so what was covered stays covered.
- `NothingLeft`: `Spec => []RelayExhausted`. `FetchInv` says of every relay that
  was asked and has not failed what is cached of it already and what its next
  pass will ask for (`ToldSoFar`), of the request that what it leaves out is
  cached and was followed (`ExistingInv`), and which relays were asked
  (`RoundsInv`). It survives other clones, which only add to caches, and
  requests that are widened between the passes of one relay by the answers of
  another.
- `RelaysAsked`: `Spec => []RepoRelaysAsked`. `AskedInv` says that what is processed
  was asked or is a relay of the account, and that between rounds the relays are
  those that the repository names. Another clone may change what it names without
  a round to follow; then the clone's cache lacks that announcement, as what it
  has the account has too (`GlobalKeepsUp`, hence `torn = {}`, in
  `NewsFromOthers`).

`Client_proofs`, of `SendEvents`:

- `PrefixHeld`: `SendSpec => []NoGaps`. A task that runs has delivered what
  it counted; a task that failed no longer runs.

`InitRepo_proofs`:

- `TypeCorrect`. That the repository read from a cache has a base needs that of
  announcements there is an oldest one (`OldestExists`).
- `FoundAgain`: `Spec => []Found`. `LinkInv` and `DoneInv` follow the link of the
  clone: what an `init` works on is announced once it was sent, item and url
  are its own from the next step on, and nothing else writes them before it
  ends. What an earlier run that was killed left behind plays no part.
- `FileFollows`: `Spec => []FileInLine`. The file that a run read is the one that is
  there, and what it will write was announced (`RunsOnFile`).
- `MaintainersKept`: `Spec => DefaultsKeep`, an action property. A fetch asks for
  all whom cache or relays name, so the closure over the result is the closure
  over the relays (`FetchedMaintainers`), and an announcement that lists the
  maintainers and the user changes no closure (`AddingKeeps`), be the user a
  maintainer or not.

`Login_proofs`:

- `TypeCorrect`: `Spec => []TypeOK`. `TypeInv` adds what a command must be at each
  prompt (`Fit`): a signer to be saved while one is saved, a login left to ask
  about after a logout.
- `LocalIsLocal`: `Spec => LocalLeavesGlobal`, also when commands overlap. `Fit`
  says of a command for one repository that what it still writes is for that
  repository, and that it never gets to the prompt after a failed global login,
  where the user may change the global config.
- `LoginsAreKept`: `Spec => LoginsKept`, for any number of places and accounts,
  with every fault. While commands take turns, `KeepInv` says so and that each
  removal a save has to do comes after the new login's own items (`Safe`), by
  the position in the list, as the list is cut from its front. When they
  overlap, a save of a key and one of a remote signer to one scope may remove
  each other's items, and the property excepts that; with keys only, no save
  but a logout ever removes a key (`KeysInv`).
- `ToldIsTrue`: `Spec => []ToldIsSo`. For logins, commands that take turns suffice:
  the writes done and those to come make up the save that was planned
  (`Underway` in `TellInv`). For logouts nothing may fail or be killed either,
  and no key be encrypted: every scope that no command is at holds a login as it
  was entered, or none (`CompleteInv`).
- `UserIsSigner`: `Spec => []UserSigns`, from `CompleteInv`: the account in a scope
  is the account of its signer. A save that is cut short may leave the account of
  one login and the signer of another.

`Proposals_proofs`, for any finite history without cycles and any log to start
from in which `ngit send` left sets of one account each, without mentions
(`ProposalsAssumption`):

- `TypeCorrect`, and `ThreadsHold`: the invariant is `TypeOK`, that each patch is
  in its thread (`InThread`: it replies to an earlier patch of the same set; one
  that counts for its proposal replies to one that counts, and is for the commit
  after that) and that a clone that has a patch has what it replies to
  (`CachesClosed`). Strangers' patches may hang anywhere below a thread, but
  nothing that counts hangs below them. A set that a relay takes only a part of
  keeps all this, because events go out in order.
- `ChainsAreHistory`: `Spec => []ChainIsHistory`. Two facts carry it. What a push
  adds is a line of history in order: commits ahead of a base, none of them a
  merge, have one parent each, and an order that respects ancestry then puts the
  parent right before its child (`OrderedLine`; for patches on top of a branch
  the first one's parent is the tip, as it descends from it). And `Chain` goes
  from a patch to its parent until a root or a patch it does not know
  (`ChainIs`). Both the order and the chain are defined over finite data; that
  they exist and what they return is shown by a least counterexample, which
  needs `Ancestors` finite and antisymmetric.
  Mentions have to be left out: `PatchesOf` follows every e tag, so a mention of
  one proposal in another would mix their patches (run `mention_replaces`).
- `PushesAreShown`: `Spec => []PushShown`, in every environment. Which patch is the
  tip is worked out from dates, so the invariant (`Dated`) has to say where dates
  come from: a patch that counts is of the second of the patch it replies to,
  unless it was put on top of a tip, and then somebody saw that patch as the
  youngest of its set. From this, what a push adds ends in one patch that
  nothing of its second replies to, for each cut a relay may make and for
  posts of strangers at any place in between. Of the log to start from it needs
  that a set that `ngit send` left is of one second (`ProposalsAssumption`).
- `OneProposalPerName`: `Spec => []NoTwins`, for accounts that push from one clone
  (`OneClone`) with names that ngit keeps as they are (`PlainNames`), from a log
  where it holds and each proposal has a patch of its own set (`FirstOnes`).
  A push finds a proposal only if a patch of it is in the cache it reads; so
  `IndTwins` says that the clone has the patches of what its account proposed. A
  relay that takes none of a new set leaves no proposal, one that takes some leaves
  a patch too, as sets by the helper have no cover letter.
- `DropsAreForced`: `Spec => OnlyForceDrops`, while helpers take turns, all relays
  take all events and clocks agree (`TakeTurns`), from a log where each branch
  has one end (`OneEnd`). `IndDrops` says that each branch keeps one end, that
  nothing is dated after the clock, and that the helper that runs has seen every
  patch that counts (`HelperKnows`); so what it compares the push with is the
  branch as it is. Without a premise TLC has counterexamples: two helpers that
  overlap both extend one tip, a relay takes a part, a slow clock dates a patch
  before its parent. The premises of both theorems hold of the environments
  of `proposal_branches` for which `MCBranches` states the properties.

- `MergesAreSeen`: `Spec => ClosesMerged`, from the same invariant: the maintainer's
  helper has the tip of every proposal (`HelperKnows`), the walk of its push finds
  the commits after the old main and matches the tip with them
  (`MergedIsTouched`), and each proposal touched gets its status
  (`MergePublishes`), after which it has none but "applied" (`AppliedCloses`).

`Checkout_proofs`, for any finite history without cycles that starts at `Root`,
and any log to start from of events as ngit publishes them, whatever their dates
(`InPlace` in `CheckoutAssumption`):

- `SentShown`: `Spec => []SentIsTip`, in every environment, whatever the clocks. The
  property has a premise, `SentLast`: every patch that counted for the proposal
  before has an earlier date. Without it TLC has a counterexample in environment
  `clocks`, a revision in the same second as the proposal, or by a slow clock. With it the
  events of the new set are the youngest, and its last event is the
  only one of them that nothing replies to. That no older set shows instead
  needs that nobody replies to events that are not there yet, and that whoever
  sends has the permission that counts (`Permissioned`); mentions do no harm here,
  because the proposal asked about is the one sent.
- `TypeCorrect`, and the next three theorems, from one invariant, `IInv`. Its core
  is `Doing`, about the git operations that an answer still has to do. They are
  at most one move of the branch, then a checkout, then `apply` or its loop
  (`Shape`), however far they got and also after `create_branch_at_commit` put
  main in front. They move the branch to where the oldest missing patch goes
  (`Aim`), and the loop has the k newest patches before it when the branch is at
  the patch below them. So when nothing is left the branch is at the tip, and
  each operation finds its commit.
- `CheckedOut`: `Spec => []ReportedIsTip`, if `"meanwhile" \notin Env`: whatever fails
  or is killed. `apply_patch_chain` looks only for the patches that the branch
  does not have. That those are the newest ones (`Below`) needs the branch to be
  where it was compared (`Compared`). A commit during the prompt breaks that.
- `UnpublishedKept`: `Spec => [][KeepsUnpublished]_vars` under the same premise,
  without which TLC has a counterexample (section 5): a branch is moved only from
  a commit that was published for its proposal, or to one above it.
- `AmendedByOwner`: `Spec => []AmendedIsOwn`, if no operation fails and ngit is not
  killed. `OwnOK`: a branch that the reviewer did not commit to is at a published
  commit, except while operations are on their way. One that is cut short leaves
  the branch at a base that was never published, which is called amended later.

The last three theorems are about `Checkout` itself. `MCCheckout` states the same
properties of the environments of its runs in which their premises hold
(`CheckedOutIsTip`, `LosesOnlyByDiscard`, `AmendedIsUsers`).

Only model-checked: `SendTypeOK`, whose list of relays is a fold (what a
fold returns for every input is an induction over data); and all liveness
(TLAPS has no arguments over `ENABLED`).

## 5. Findings

Two runs end in a counterexample to something the repository says of itself;
`PROJECT.json` quotes each line. A newer state event is reported as new but the
oldest is used (`newest_state`). A reference that `ngit send` marks as a mention
makes the proposal a version of the one it mentions (`mention_replaces`).

More divergences are in the models as the code has them, without a run:

- The base of a repository (servers, relays, name) is the oldest announcement
  of its maintainers (`Oldest` in `RepoRef`, `client.rs:917`), while the comment
  at `client.rs:944` speaks of the most recent one.
  A second maintainer who changes the servers with `ngit init` changes nothing
  that others see, although `init` prints that they can be changed at any time
  (`RefOf` in `InitRepo`).
- An account told that it is no maintainer publishes a state, and pushes its
  refs, if a proposal is in the same batch (`push.rs:194`,
  `CreateAndPublishEvents`).
- The first state event of a repository is stored under "no updates"
  (`client.rs:1312`, `Mentioned` in `FetchAll`).
- A relay that is asked for profiles only, because just the account's profile
  lists it, is not asked again when it turns out to be one of the repository
  (`client.rs:480`, `RelaysNow`). Nor is one asked that the base announcement
  lists if another clone stored that announcement after the last round. `RepoRelaysAsked` excepts both.
- A three-way merge is said to bring the merged commits into `ahead`
  (`push.rs:1087`), but the walk stops at a main that is newer than the branch
  and leaves a proposal open whose tip is below that of the merged branch
  (`Walks` in `Proposals`). A proposal that is pushed, without force, to a commit
  that main has already got from somebody else stays open too: `PushMain` only
  closes what had the commit then, and `ClosesMerged` says no more.
- `ngit account logout` says "remove nostr account details stored in git config"
  (`cli.rs:73`), but a key that is encrypted stays, as it needs a password to
  load (`AccountLogout` in `Login`).
- A global login removes the login of the clone before it writes its own; if it
  is cut short there, the clone has the older global login or none (`Saved`).
- "couldn't find repository" is what the search says when nothing new was
  fetched, also when it was found before: after a search that was left at the
  question that follows, the repository is not found again (`Search` in
  `InitRepo`, `repo_ref.rs:437`).
- `ngit list` compares a branch before its prompt. What the reviewer commits to
  it meanwhile is dropped by "apply", which makes the branch anew (`Answer`,
  `ApplyChain` in `Checkout`; `KeepsUnpublished` fails in environment
  `waiting`).
- A checkout that was cut short leaves the branch at its base or in the middle.
  At its base it is reported as the user's own amended version (`AmendedIsOwn`
  fails in environment `broken`); the next "apply" or "discard" repairs it.
- A revision that is made in the same second as what it revises, or by a clock
  that is behind, is sent and may never be shown: the tip is the patch with the
  latest date (`git_events.rs:575`; `SentLast`).
- Without a state event (before the first push, or with `nostr.nostate`) a forced
  push takes the first listed server for the state, and overwrites what was
  pushed there without nostr (`push.rs:98`, `Expendable`).
- A revision that replies to a revision is found by its first patch only, one by
  somebody without permission is sent and never shown, and one that replies to
  what is not in the cache becomes a proposal of its own (`ReplyOf`,
  `PatchesOf`).
- The loop under `// add duplicates first` (`client.rs:1766`) complements a
  count bit by bit before it compares (`Complement` in `SendEvents`), so it takes
  every relay of the repository in its own order.
- A fetch killed between the two caches leaves an event in the clone's cache
  that no later fetch puts into the account's (`torn` in `FetchAll`).
- `get_merged_proposals_info` speaks of merged revisions that take priority
  (`push.rs:1115`), but an entry never gets a revision, so the status of a
  merged revision names neither it nor its commits (`Counted`, `MergeStatus`).
- A proposal is named after the branch that is checked out, with all but
  letters, digits and slashes replaced (`NewProposal`, `Safe`); a push of
  another branch, or of `pr/a_b`, does not find its proposal again and makes
  one more each time.
- A push to the branch of a closed proposal is told ok and adds to it, but the
  branch is not listed (`Found` and `OpenProposals` differ).
- A fetch starts with the preference for fetches but saves to the one for
  pushes (`fetch.rs:209`, as `push.rs` does and `list.rs:242` does not), so
  what it learned helps no later fetch, and a push may find a protocol there
  that its list does not have, which it ignores (`SavedFor`, `Promote`).
- Urls of one host and path share a preference whatever their scheme, user or
  port (`ShortName`). A list or fetch that prefers ssh stops at an error of ssh
  that is not about authentication, also where everybody may read over https
  (`OnlySshHides`). An item is read and written in two steps, so a process
  may undo what another has learned (`SetProtocolPreference`).

## 6. Not modelled, and what comes next

Not modelled: argument parsing and the wording of prompts, the syntax of urls
(`Protocols` and `InitRepo` take what their parser returns), the encryption of
keys, names of accounts for display, vendored `rexpect`, the mock client and the
test utilities. They keep no state that other parts rely on, or belong to other
programs. `identify_ahead_behind` only finds out what `ngit send` prints and
prompts with; which commits it may then send is `Sendable` in `Checkout`. A push to main that changes `maintainers.yaml` may also publish an
announcement with the file's maintainers and relays (`push.rs:231`,
`get_maintainers_yaml_update`): `CreateAndPublishEvents` leaves it out, as the
maintainers of `RemoteHelper` are a constant. `InitRepo` has the file, but no pushes.

Order of the plan; all but 10 is done:

1. `RemoteHelper` with `MirroredRepo`, types and `SafeOverwrite`.
2. `RepoRef` with its two theorems.
3. `SendEvents` with `PrefixHeld`.
4. `FetchAll`.
5. `PatchThreads` and `Proposals`.
6. `Protocols` with `PasswordsJustified`.
7. `Login`: logins and logouts as writes to git config, with `LoginsAreKept`.
8. `InitRepo`: announcing a repository and finding it again.
9. `Checkout`: `ngit send`, `ngit list` and `apply_patch_chain`.
10. `AheadBehind`: the revwalk of `get_commits_ahead_behind` over commits with
    dates, against the relations of `CommitGraph` and `Walks` of `Proposals`.
11. Proofs: done for all modules with a state; left are the folds
    (`SendTypeOK`).
