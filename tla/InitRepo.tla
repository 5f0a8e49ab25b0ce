------------------------------ MODULE InitRepo ------------------------------
(***************************************************************************)
(* How a repository gets on nostr, and how a clone knows which one it is:  *)
(* ngit init (sub_commands/init.rs) and the lookup of `ngit list` and      *)
(* `ngit send` (repo_ref.rs).  A clone finds its repository by the nostr   *)
(* urls of its remotes, else by the item nostr.repo of its git config, else*)
(* by maintainers.yaml.  `init` takes its defaults from the repository it  *)
(* finds, publishes an announcement, and then brings item, origin and file *)
(* in line with it, one after the other.                                   *)
(*                                                                         *)
(* This is one clone with its cache, and the relays, where the same user   *)
(* and others announce from elsewhere.                                     *)
(***************************************************************************)
EXTENDS RepoSources

CONSTANTS Envs, \* sets of what may happen in a behaviour, see env
          MaxAt \* bound, for each of them: announcements ever published

VARIABLES announced, \* the newest announcement of a coordinate, on the relays
          at,        \* created_at of the newest of all
          cached,    \* what the clone has of them
          remotes,   \* its remotes
          item,      \* nostr.repo in its git config
          yaml,      \* its maintainers.yaml
          optedOut,  \* nostr.nostate is set for the clone, or the account
          pc,        \* where the command in the clone is
          task,      \* what it works on
          told,      \* history: what it ended with
          env        \* what may happen in this behaviour:
    \* "overlap": announcements elsewhere while a command runs
    \* "kill":    a command is killed between two steps
    \* "offline": relays may not be reached
    \* "yaml":    the clone has a maintainers.yaml
    \* "remotes": the user adds nostr remotes; odd remotes
    \* "noid":    --identifier ''
    \* "optout":  not storing the state on nostr
    \* "address": a profile's NIP-05 address leads to another account

local == <<remotes, item, yaml>>
vars == <<announced, at, cached, local, optedOut, pc, task, told, env>>

Task == [command : {"none", "init", "search"},
         coordinate : Coordinate \cup {None},  \* repo_coordinate
         ref : Ref \cup {None},                \* repo_ref
         file : Yaml \cup {None},              \* repo_config_result
         id : Ids \cup {NoId}, listed : SUBSET Users, servers : Servers \cup {None},
         url : Coordinate \cup {None}]         \* to_nostr_git_url
Told == [what : {"nothing"}] \cup [what : {"not found"}, coordinate : Coordinate] \cup
        [what : {"done"}, id : Ids \cup {NoId}, servers : Servers, url : Coordinate]

\* The announcements, the files of the clone and the run of `ngit init`, by shape.
TypeOK ==
    /\ announced \in Store /\ at \in Nat
    /\ cached \in Store
    /\ remotes \in [{"origin", "other"} -> Remote]
    /\ item \in Coordinate \cup {None}
    /\ yaml # None => yaml \in Yaml /\ yaml.first \in yaml.listed
    /\ optedOut \subseteq {"clone", "account"}
    /\ pc \in {"idle", "asking", "found", "sent", "saved", "linked"}
    /\ task \in Task
    /\ told \in Told
    /\ env \in Envs

NoTask == [command |-> "none", coordinate |-> None, ref |-> None, file |-> None,
           id |-> NoId, listed |-> {}, servers |-> None, url |-> None]
Silent == [what |-> "nothing"]

\* A repository made here or cloned from a git server.
Init ==
    /\ env \in Envs
    /\ announced = [k \in Coordinate |-> None] /\ at = 0
    /\ cached = announced
    /\ \E kind \in {"none", "plain"} \cup (IF "remotes" \in env THEN {"push only"} ELSE {}) :
        remotes = [r \in {"origin", "other"} |->
                      IF r = "origin" THEN [kind |-> kind] ELSE NoRemote]
    /\ item = None
    /\ yaml \in {None} \cup (IF "yaml" \in env THEN {y \in Yaml : y.first \in y.listed /\ y.id # NoId}
                              ELSE {})
    /\ optedOut = {}
    /\ pc = "idle"
    /\ task = NoTask
    /\ told = Silent

-----------------------------------------------------------------------------
(* The repository of the clone.                                            *)

From(u) == INSTANCE Announcements WITH Trusted <- u, Relays <- Servers

\* Announcements of an identifier, and those of the maintainers k leads to.
EventsAt(store, id) == {store[Coord(u, id)] : u \in Users} \ {None}
MaintainersOf(store, k) == From(k.by)!NamedFrom(EventsAt(store, k.id))
EventsOf(store, k) == {e \in EventsAt(store, k.id) : e.author \in MaintainersOf(store, k)}

\* Mutant: the whole announcement is taken.
BugWholeEvent(store, k) ==
    LET es == EventsOf(store, k) IN IF es = {} THEN None ELSE CHOOSE e \in es : TRUE

\* get_repo_ref_from_cache, see RepoRef: the oldest announcement is the base.
RefOf(store, k) ==
    LET es == EventsOf(store, k) IN
    IF es = {} THEN None
    ELSE LET base == CHOOSE e \in es : \A f \in es : e.at <= f.at
         IN [maintainers |-> MaintainersOf(store, k), servers |-> base.says.servers]

\* What a fetch for k asks for, and what the clone then has; see FetchAll.
Asked(k) ==
    {Coord(u, k.id) : u \in From(k.by)!NamedFrom(EventsAt(cached, k.id)
                                                 \cup EventsAt(announced, k.id))}
Fetched(k) == [x \in Coordinate |-> IF x \in Asked(k) THEN announced[x] ELSE cached[x]]

\* The results of a fetch.
Fetches(k) ==
    {Fetched(k)} \cup (IF "offline" \in env THEN {cached} ELSE {})

NostrRemotes ==
    {remotes[r].to : r \in {r \in DOMAIN remotes : remotes[r].kind = "nostr"}}

\* try_and_get_repo_coordinates_when_remote_unknown.  Between different
\* remotes the user chooses.
Lookup ==
    IF NostrRemotes # {} THEN NostrRemotes
    ELSE IF item # None THEN {item}
    ELSE IF yaml # None /\ yaml.id # None THEN {Coord(yaml.first, yaml.id)}
    ELSE {}

-----------------------------------------------------------------------------
(* ngit init.                                                              *)

Continue(where, t) ==
    /\ pc' = where
    /\ task' = t

End(says) ==
    /\ Continue("idle", NoTask)
    /\ told' = says

\* It looks the repository up and fetches it.
Launch ==
    /\ pc = "idle"
    /\ \E k \in IF Lookup = {} THEN {None} ELSE Lookup :
       \E store \in IF k = None THEN {cached} ELSE Fetches(k) :
            /\ cached' = store
            /\ Continue("asking",
                 [NoTask EXCEPT !.command = "init", !.coordinate = k, !.file = yaml,
                                !.ref = IF k = None THEN None ELSE RefOf(store, k)])
    /\ told' = Silent
    /\ UNCHANGED <<announced, at, local, optedOut>>

\* The identifiers that are offered: without a repository, any, from its name.
DefaultIds(t) ==
    IF t.coordinate # None THEN {t.coordinate.id} \ {NoId}
    ELSE IF t.file # None /\ t.file.id # None THEN {t.file.id}
    ELSE Ids

\* Mutant: only the user is offered.
BugOnlySelf(t) == {User} \cup IF t.file # None THEN t.file.listed ELSE {}

\* The maintainers that are offered: maintainers.yaml comes before nostr.
DefaultListed(t) ==
    {User} \cup IF t.file # None THEN t.file.listed
                ELSE IF t.ref # None THEN t.ref.maintainers
                ELSE {}

\* "are you the only maintainer?", no; "are the other maintainers on nostr?" no:
\* the opt-out is for the account; yes: for this repository.
OptOut ==
    /\ "optout" \in env
    /\ pc = "asking"
    /\ DefaultListed(task) = {User}
    /\ \E scope \in {"clone", "account"} : optedOut' = optedOut \cup {scope}
    /\ UNCHANGED <<announced, at, cached, local, pc, task, told>>

\* RepoRef::to_event: the identifier that is announced.
AnnouncedId(id) == IF id = NoId THEN Short ELSE id

\* The answers, and send_events, which does not say if no relay took the event.
\* The user is always listed.
Publish ==
    LET t == task IN
    /\ pc = "asking"
    /\ at < MaxAt[env]
    /\ \E id \in Ids \cup (IF "noid" \in env THEN {NoId} ELSE {}),
          listed \in {us \in SUBSET Users : User \in us}, servers \in Servers :
       LET k == Coord(User, AnnouncedId(id))
           e == [author |-> User, at |-> at + 1,
                 says |-> [listed |-> listed, servers |-> servers, parses |-> TRUE]]
       IN /\ Continue("sent", [t EXCEPT !.id = id, !.listed = listed, !.servers = servers])
          /\ \/ /\ announced' = [announced EXCEPT ![k] = e]
                /\ cached' = [cached EXCEPT ![k] = e]
                /\ at' = at + 1
             \/ "offline" \in env /\ UNCHANGED <<announced, cached, at>>
    /\ UNCHANGED <<local, optedOut, told>>

\* Mutant: the coordinate that was found is kept.
BugKeepsFound(t) == IF t.coordinate # None THEN t.coordinate ELSE Coord(User, t.id)

\* What nostr.repo is set to.
OwnCoordinate(t) == IF t.command = "init" THEN Coord(User, t.id) ELSE t.coordinate

\* save_git_config_item.  The url in the remote is the coordinate, or leads to
\* it by an address that is looked up but not compared with the account.
SaveItem ==
    LET t == task IN
    /\ pc = "sent"
    /\ item' = OwnCoordinate(t)
    /\ IF t.command = "search" THEN End(Silent)
       ELSE /\ \E by \in {User} \cup (IF "address" \in env THEN Users ELSE {}) :
                   Continue("saved", [t EXCEPT !.url = Coord(by, t.id)])
            /\ UNCHANGED told
    /\ UNCHANGED <<announced, at, cached, remotes, yaml, optedOut>>

\* prompt_to_set_nostr_url_as_origin.  Without a remote "origin" nothing is
\* asked; one without a url cannot be created again, which ends the command.
PromptOrigin ==
    LET t == task
        origin == remotes["origin"]
        own == Nostr(Coord(User, t.id))
    IN /\ pc = "saved"
       /\ \/ /\ origin \in {NoRemote, own}
             /\ Continue("linked", t)
             /\ UNCHANGED <<remotes, told>>
          \/ /\ origin \notin {NoRemote, own}                   \* "yes"
             /\ IF origin.kind = "push only" THEN End(Silent) /\ UNCHANGED remotes
                ELSE /\ Continue("linked", t)
                     /\ remotes' = [remotes EXCEPT !["origin"] = Nostr(t.url)]
                     /\ UNCHANGED told
          \/ /\ origin \notin {NoRemote, own}                   \* "no"
             /\ Continue("linked", t)
             /\ UNCHANGED <<remotes, told>>
       /\ UNCHANGED <<announced, at, cached, item, yaml, optedOut>>

\* Mutant: another maintainer in the file is no reason to write it.
BugOnlyId(t) == t.file # None /\ t.file.id # t.id

\* maintainers.yaml is not in line with what was announced.
FileDiffers(t) == t.file # None /\ (t.file.id # t.id \/ t.file.listed # t.listed)

\* A key in it cannot be read, which is noticed when the identifier is the same.
FileFails(t) == t.file # None /\ t.file.id = t.id /\ ~t.file.readable

\* It is updated but not created.
UpdateFile ==
    LET t == task
        done == [what |-> "done", id |-> t.id, servers |-> t.servers, url |-> t.url]
    IN /\ pc = "linked"
       /\ \/ /\ ~FileFails(t)
             /\ IF FileDiffers(t)
                THEN \E first \in IF t.file.listed = t.listed THEN {t.file.first} ELSE t.listed :
                        yaml' = [id |-> t.id, first |-> first, listed |-> t.listed, readable |-> TRUE]
                ELSE UNCHANGED yaml
             /\ End(done)
          \/ FileFails(t) /\ End(Silent) /\ UNCHANGED yaml
       /\ UNCHANGED <<announced, at, cached, remotes, item, optedOut>>

-----------------------------------------------------------------------------
(* The lookup of other commands, when a clone does not know its repository. *)

\* consolidate_fetch_reports: the fetch has something to report.
Reports(store) == store # cached

\* get_repo_coordinate_from_user_prompt: the user enters a repository, again
\* and again until the fetch for it reports something new.
Search ==
    /\ pc = "idle"
    /\ Lookup = {}
    /\ \E k \in Coordinate :
       \E store \in Fetches(k) :
        /\ k.id # NoId
        /\ cached' = store
        /\ IF Reports(store)
           THEN /\ Continue("found", [NoTask EXCEPT !.command = "search", !.coordinate = k])
                /\ told' = Silent
           ELSE /\ told' = [what |-> "not found", coordinate |-> k]
                /\ UNCHANGED <<pc, task>>
    /\ UNCHANGED <<announced, at, local, optedOut>>

\* A remote for it, "origin" or a new one, or none.
LinkFound ==
    LET k == task.coordinate IN
    /\ pc = "found"
    /\ \/ \E r \in DOMAIN remotes : remotes' = [remotes EXCEPT ![r] = Nostr(k)]
       \/ UNCHANGED remotes
    /\ Continue("sent", task)
    /\ UNCHANGED <<announced, at, cached, item, yaml, optedOut, told>>

\* git remote add
AddRemote ==
    /\ "remotes" \in env
    /\ pc = "idle"
    /\ \E k \in Coordinate, r \in DOMAIN remotes :
        /\ announced[k] # None
        /\ remotes[r] = NoRemote
        /\ remotes' = [remotes EXCEPT ![r] = Nostr(k)]
    /\ told' = Silent
    /\ UNCHANGED <<announced, at, cached, item, yaml, optedOut, pc, task>>

\* Somebody, or the same user in another clone, announces.
Elsewhere ==
    /\ pc = "idle" \/ "overlap" \in env
    /\ at < MaxAt[env]
    /\ \E u \in Users, id \in Ids, listed \in SUBSET Users, servers \in Servers :
        /\ u \in listed
        /\ announced' = [announced EXCEPT ![Coord(u, id)] =
                [author |-> u, at |-> at + 1,
                 says |-> [listed |-> listed, servers |-> servers, parses |-> TRUE]]]
    /\ at' = at + 1
    /\ told' = Silent
    /\ UNCHANGED <<cached, local, optedOut, pc, task>>

\* A prompt is interrupted, or the command killed.
Quit ==
    /\ \/ pc \in {"asking", "found", "saved"}
       \/ "kill" \in env /\ pc # "idle"
    /\ End(Silent)
    /\ UNCHANGED <<announced, at, cached, local, optedOut>>

Action ==
    \/ Launch \/ OptOut \/ Publish \/ SaveItem \/ PromptOrigin \/ UpdateFile
    \/ Search \/ LinkFound
    \/ AddRemote \/ Elsewhere
    \/ Quit

Next == Action /\ UNCHANGED env

Spec == Init /\ [][Next]_vars

-----------------------------------------------------------------------------
(* Properties.                                                             *)

Own == Coord(User, AnnouncedId(told.id))

\* After an init the other commands find, in this clone, the repository that was
\* announced, and the clone url that was shown leads there, also when it was
\* killed and run again and whatever the clone was linked to before, unless the
\* user kept another nostr remote.
InitIsFound ==
    told.what = "done" =>
        /\ announced[Own] # None
        /\ announced[told.url] # None /\ told.url.by = User
        /\ NostrRemotes \subseteq {told.url} => Lookup = {Own}

\* InitIsFound, where relays answer and the identifier is one that can be found.
Found == env \cap {"offline", "noid", "address"} = {} => InitIsFound

\* A maintainers.yaml says what was announced, so the next init offers that.
FileAgrees ==
    told.what = "done" /\ yaml # None =>
        /\ yaml.id = told.id
        /\ yaml.listed = announced[Own].says.listed

\* FileAgrees, where nobody announces in between and relays answer.
FileInLine == env \cap {"offline", "overlap"} = {} => FileAgrees

\* Whoever runs init again, to change servers or anything else, and accepts the
\* identifier and maintainers that are offered, leaves the maintainers of the
\* repository the clone was linked to as they were: nobody named by others is
\* lost, and the user does not get in by being the one who runs it.
KeepsMaintainers ==
    LET t == task
        k == t.coordinate
    IN /\ env \cap {"overlap", "offline"} = {}
       /\ pc = "asking" /\ pc' = "sent"
       /\ t.ref # None /\ t.file = None
       /\ task'.id \in DefaultIds(t) /\ task'.listed = DefaultListed(t)
       => MaintainersOf(announced', k) = MaintainersOf(announced, k)

\* Accepting every default keeps the maintainers.
DefaultsKeep == [][KeepsMaintainers]_vars
=============================================================================
