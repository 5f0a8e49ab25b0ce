---------------------------- MODULE InitRepo_proofs ----------------------------
(***************************************************************************)
(* ngit init proved for any accounts, identifiers and announcements: its   *)
(* types, that what it says it made is what the clone then finds (Found),  *)
(* that maintainers.yaml follows (FileInLine), and that accepting every    *)
(* default keeps the maintainers (DefaultsKeep).                           *)
(***************************************************************************)
EXTENDS InitRepo, FiniteSetTheorems, TLAPS

-----------------------------------------------------------------------------
(* Announcements and whom they name.                                       *)

\* Of some announcements one is the oldest.
LEMMA OldestExists ==
    ASSUME NEW es \in SUBSET Announcement, es # {}
    PROVE  \E e \in es : \A f \in es : e.at <= f.at
  <1> DEFINE upTo == {1..e.at : e \in es}
  <1>1. \A e \in es : e.at \in Nat
    BY DEF Announcement
  <1>2. upTo \subseteq FiniteSubsetsOf(Nat)
    <2>1. \A n \in Nat : 1..n \in SUBSET Nat /\ IsFiniteSet(1..n)
      BY FS_Interval
    <2> QED
      BY <1>1, <2>1 DEF FiniteSubsetsOf
  <1>3. IsWellFoundedOn(StrictSubsetOrdering(Nat), FiniteSubsetsOf(Nat))
    BY FS_StrictSubsetOrderingWellFounded
  <1>4. upTo # {}
    OBVIOUS
  <1>5. PICK x \in upTo : \A y \in upTo : <<y, x>> \notin StrictSubsetOrdering(Nat)
    BY <1>2, <1>3, <1>4, WFMin
  <1>6. PICK e \in es : x = 1..e.at
    BY <1>5
  <1>7. ASSUME NEW f \in es, f.at < e.at PROVE FALSE
    <2>1. 1..f.at \subseteq 1..e.at /\ e.at \in 1..e.at /\ e.at \notin 1..f.at
      BY <1>1, <1>7
    <2>2. 1..f.at \in SUBSET Nat /\ 1..e.at \in SUBSET Nat
      BY <1>1
    <2>3. <<1..f.at, 1..e.at>> \in StrictSubsetOrdering(Nat)
      BY <2>1, <2>2 DEF StrictSubsetOrdering
    <2> QED
      BY <1>5, <1>6, <2>3
  <1> QED
    BY <1>1, <1>7

\* The named: the trusted account and, with them, whom they list, nobody else.
LEMMA NamedIs ==
    ASSUME NEW u \in Users, NEW es \in SUBSET Announcement
    PROVE  /\ From(u)!NamedFrom(es) \in SUBSET Users
           /\ u \in From(u)!NamedFrom(es)
           /\ \A e \in es : e.author \in From(u)!NamedFrom(es)
                               => e.says.listed \subseteq From(u)!NamedFrom(es)
           /\ \A us \in SUBSET Users :
                /\ u \in us
                /\ \A e \in es : e.author \in us => e.says.listed \subseteq us
                => From(u)!NamedFrom(es) \subseteq us
  <1>1. \A e \in es : /\ e.author \in Users /\ e.says.parses = TRUE
                      /\ e.says.listed \in SUBSET Users
    BY DEF Announcement, Says
  <1>2. \A us \in SUBSET Users :
            From(u)!ClosedUnder(us, es)
                <=> \A e \in es : e.author \in us => e.says.listed \subseteq us
    BY <1>1 DEF From!ClosedUnder, From!Parses, From!Named
  <1>3. \A x : x \in From(u)!NamedFrom(es) <=>
            /\ x \in Users
            /\ \A us \in SUBSET Users :
                /\ u \in us
                /\ \A e \in es : e.author \in us => e.says.listed \subseteq us
                => x \in us
    BY <1>2 DEF From!NamedFrom
  <1> QED
    BY <1>1, <1>3

-----------------------------------------------------------------------------
(* Types.                                                                  *)

Stages == {"idle", "asking", "found", "sent", "saved", "linked"}

\* An announcement is filed under its author.
Filed(store) ==
    /\ store \in Store
    /\ \A k \in Coordinate : store[k] # None => store[k].author = k.by

\* What a command at a stage works on.
Fit(stage, t) ==
    /\ t \in Task
    /\ t.file # None => t.file.first \in t.file.listed
    /\ stage \in {"asking", "saved", "linked"} => t.command = "init"
    /\ stage = "found" => t.command = "search"
    /\ stage = "sent" => t.command \in {"init", "search"}
    /\ t.command = "search" => t.coordinate \in Coordinate
    /\ stage \in {"sent", "saved", "linked"} /\ t.command = "init" =>
            t.servers \in Servers /\ User \in t.listed
    /\ stage \in {"saved", "linked"} => t.url \in Coordinate

StoresInv == Filed(announced) /\ at \in Nat /\ Filed(cached)
CloneInv ==
    /\ remotes \in [{"origin", "other"} -> Remote]
    /\ item \in Coordinate \cup {None}
    /\ yaml # None => yaml \in Yaml /\ yaml.first \in yaml.listed
    /\ optedOut \subseteq {"clone", "account"}
RunInv == pc \in Stages /\ Fit(pc, task) /\ told \in Told

TypeInv == StoresInv /\ CloneInv /\ RunInv

LEMMA TypeInvImplies == TypeInv /\ env \in Envs => TypeOK
  BY DEF TypeInv, StoresInv, Filed, CloneInv, RunInv, Fit, Stages, TypeOK

LEMMA NoTaskFits ==
    /\ Fit("idle", NoTask)
    /\ Silent \in Told
  BY DEF Fit, NoTask, Task, Silent, Told

\* The announcements of an identifier are those of a store, by their authors.
LEMMA EventsAtIs ==
    ASSUME NEW store, Filed(store), NEW id \in Ids \cup {NoId}
    PROVE  /\ EventsAt(store, id) \in SUBSET Announcement
           /\ \A e \in EventsAt(store, id) : e = store[Coord(e.author, id)]
           /\ \A u \in Users : /\ Coord(u, id) \in Coordinate
                               /\ store[Coord(u, id)] # None
                                    => store[Coord(u, id)] \in EventsAt(store, id)
  <1>1. \A u \in Users : Coord(u, id) \in Coordinate /\ Coord(u, id).by = u
    BY DEF Coord, Coordinate
  <1>2. \A u \in Users : store[Coord(u, id)] # None =>
            store[Coord(u, id)] \in Announcement /\ store[Coord(u, id)].author = u
    BY <1>1 DEF Filed, Store
  <1> QED
    BY <1>1, <1>2 DEF EventsAt

\* The repository that is read from a store.
LEMMA RefOfIs ==
    ASSUME NEW store, Filed(store), NEW k \in Coordinate
    PROVE  /\ RefOf(store, k) \in Ref \cup {None}
           /\ RefOf(store, k) # None => RefOf(store, k).maintainers = MaintainersOf(store, k)
  <1> DEFINE es == EventsOf(store, k)
             base == CHOOSE e \in es : \A f \in es : e.at <= f.at
  <1>1. k.by \in Users /\ k.id \in Ids \cup {NoId}
    BY DEF Coordinate
  <1>2. MaintainersOf(store, k) \in SUBSET Users
    BY <1>1, NamedIs, EventsAtIs DEF MaintainersOf
  <1>3. es \in SUBSET Announcement
    BY <1>1, EventsAtIs DEF EventsOf
  <1>4. CASE es = {}
    BY <1>4 DEF RefOf
  <1>5. CASE es # {}
    <2>1. base \in es
      BY <1>3, <1>5, OldestExists
    <2>2. base.says.servers \in Servers
      BY <1>3, <2>1 DEF Announcement, Says
    <2>3. RefOf(store, k) = [maintainers |-> MaintainersOf(store, k),
                             servers |-> base.says.servers]
      BY <1>5 DEF RefOf
    <2> HIDE DEF base, es
    <2> QED
      BY <1>2, <2>2, <2>3 DEF Ref
  <1> QED
    BY <1>4, <1>5

\* What a fetch gives.
LEMMA FetchesFiled ==
    ASSUME StoresInv, NEW k \in Coordinate
    PROVE  \A store \in Fetches(k) : Filed(store)
  <1>1. Filed(Fetched(k))
    BY DEF StoresInv, Filed, Store, Fetched
  <1> QED
    BY <1>1 DEF StoresInv, Fetches

LEMMA LookupIs == CloneInv => Lookup \in SUBSET Coordinate
  <1> SUFFICES ASSUME CloneInv
               PROVE  Lookup \in SUBSET Coordinate
    OBVIOUS
  <1>1. NostrRemotes \in SUBSET Coordinate
    BY DEF CloneInv, Remote, NostrRemotes
  <1>2. yaml # None /\ yaml.id # None => Coord(yaml.first, yaml.id) \in Coordinate
    BY DEF CloneInv, Yaml, Coord, Coordinate
  <1> QED
    BY <1>1, <1>2 DEF CloneInv, Lookup

LEMMA TypeInit == Init => TypeInv
  <1> SUFFICES ASSUME Init
               PROVE  TypeInv
    OBVIOUS
  <1>1. StoresInv
    BY DEF Init, StoresInv, Filed, Store
  <1>2. remotes \in [{"origin", "other"} -> Remote]
    <2>1. PICK kind \in {"none", "plain", "push only"} :
            remotes = [r \in {"origin", "other"} |->
                          IF r = "origin" THEN [kind |-> kind] ELSE NoRemote]
      BY DEF Init
    <2>2. [kind |-> kind] \in Remote /\ NoRemote \in Remote
      BY <2>1 DEF Remote, NoRemote
    <2> QED
      BY <2>1, <2>2
  <1>3. CloneInv
    BY <1>2 DEF Init, CloneInv
  <1>4. RunInv
    BY NoTaskFits DEF Init, RunInv, Stages
  <1> QED
    BY <1>1, <1>3, <1>4 DEF TypeInv

\* A command ends.
LEMMA TypeEnd ==
    ASSUME NEW says \in Told, End(says)
    PROVE  RunInv'
  <1>1. pc' = "idle" /\ task' = NoTask /\ told' = says
    BY DEF End, Continue
  <1>2. Fit("idle", NoTask)
    BY NoTaskFits
  <1> QED
    BY <1>1, <1>2 DEF RunInv, Stages

LEMMA TypeLaunch == TypeInv /\ Launch => TypeInv'
  <1> SUFFICES ASSUME TypeInv, Launch
               PROVE  TypeInv'
    OBVIOUS
  <1>1. PICK k \in IF Lookup = {} THEN {None} ELSE Lookup :
        \E store \in IF k = None THEN {cached} ELSE Fetches(k) :
            /\ cached' = store
            /\ Continue("asking",
                 [NoTask EXCEPT !.command = "init", !.coordinate = k, !.file = yaml,
                                !.ref = IF k = None THEN None ELSE RefOf(store, k)])
    BY DEF Launch
  <1>2. k \in Coordinate \/ k = None
    BY LookupIs DEF TypeInv
  <1>3. Filed(cached')
    BY <1>1, <1>2, FetchesFiled DEF TypeInv, StoresInv
  <1> DEFINE ref == IF k = None THEN None ELSE RefOf(cached', k)
             t == [NoTask EXCEPT !.command = "init", !.coordinate = k, !.file = yaml,
                                 !.ref = ref]
  <1>4. ref \in Ref \cup {None}
    BY <1>2, <1>3, RefOfIs
  <1>5. pc' = "asking" /\ task' = t
    BY <1>1 DEF Continue
  <1> HIDE DEF ref
  <1>6. yaml \in Yaml \cup {None} /\ (yaml # None => yaml.first \in yaml.listed)
    BY DEF TypeInv, CloneInv
  <1>7. t.command = "init" /\ t.file = yaml
    BY DEF NoTask
  <1>8. t \in Task
    BY <1>2, <1>4, <1>6 DEF Task, NoTask
  <1>9. Fit("asking", t)
    BY <1>6, <1>7, <1>8 DEF Fit
  <1>10. told' \in Told
    BY NoTaskFits DEF Launch
  <1>11. RunInv'
    BY <1>5, <1>9, <1>10 DEF RunInv, Stages
  <1>12. StoresInv' /\ CloneInv'
    BY <1>3 DEF Launch, TypeInv, StoresInv, CloneInv, Filed, local
  <1> QED
    BY <1>11, <1>12 DEF TypeInv

LEMMA TypeOptOut == TypeInv /\ OptOut => TypeInv'
  BY DEF OptOut, TypeInv, StoresInv, CloneInv, RunInv, Filed, Fit, local

\* An announcement is filed.
LEMMA FiledAnnounces ==
    ASSUME NEW store, Filed(store), NEW k \in Coordinate, NEW e \in Announcement, e.author = k.by
    PROVE  Filed([store EXCEPT ![k] = e])
  BY DEF Filed, Store

\* What the user announces.
LEMMA AnnouncementType ==
    ASSUME at \in Nat, NEW u \in Users, NEW listed \in SUBSET Users, NEW servers \in Servers
    PROVE  [author |-> u, at |-> at + 1,
            says |-> [listed |-> listed, servers |-> servers, parses |-> TRUE]] \in Announcement
  BY DEF Announcement, Says

LEMMA OwnType ==
    ASSUME NEW id \in Ids \cup {NoId}
    PROVE  /\ AnnouncedId(id) \in Ids
           /\ Coord(User, AnnouncedId(id)) \in Coordinate
           /\ Coord(User, AnnouncedId(id)).by = User
  BY SourcesAssumption DEF AnnouncedId, Coord, Coordinate

LEMMA TypePublish == TypeInv /\ Publish => TypeInv'
  <1> SUFFICES ASSUME TypeInv, Publish
               PROVE  TypeInv'
    OBVIOUS
  <1>1. PICK id \in Ids \cup (IF "noid" \in env THEN {NoId} ELSE {}),
          listed \in {us \in SUBSET Users : User \in us}, servers \in Servers :
       LET k == Coord(User, AnnouncedId(id))
           e == [author |-> User, at |-> at + 1,
                 says |-> [listed |-> listed, servers |-> servers, parses |-> TRUE]]
       IN /\ Continue("sent", [task EXCEPT !.id = id, !.listed = listed, !.servers = servers])
          /\ \/ /\ announced' = [announced EXCEPT ![k] = e]
                /\ cached' = [cached EXCEPT ![k] = e]
                /\ at' = at + 1
             \/ "offline" \in env /\ UNCHANGED <<announced, cached, at>>
    BY DEF Publish
  <1> DEFINE k == Coord(User, AnnouncedId(id))
             e == [author |-> User, at |-> at + 1,
                   says |-> [listed |-> listed, servers |-> servers, parses |-> TRUE]]
             t == [task EXCEPT !.id = id, !.listed = listed, !.servers = servers]
  <1>2. id \in Ids \cup {NoId} /\ listed \in SUBSET Users /\ User \in listed
    BY <1>1
  <1>3. k \in Coordinate /\ k.by = User
    BY <1>2, OwnType
  <1>4. e \in Announcement /\ e.author = User
    BY <1>2, AnnouncementType, SourcesAssumption DEF TypeInv, StoresInv
  <1>5. Continue("sent", t)
    BY <1>1
  <1>6. \/ /\ announced' = [announced EXCEPT ![k] = e]
           /\ cached' = [cached EXCEPT ![k] = e]
           /\ at' = at + 1
        \/ UNCHANGED <<announced, cached, at>>
    BY <1>1
  <1> HIDE DEF k, e
  <1>7. StoresInv'
    <2>1. Filed([announced EXCEPT ![k] = e]) /\ Filed([cached EXCEPT ![k] = e])
      BY <1>3, <1>4, FiledAnnounces DEF TypeInv, StoresInv
    <2>2. CASE UNCHANGED <<announced, cached, at>>
      BY <2>2 DEF TypeInv, StoresInv, Filed
    <2>3. CASE /\ announced' = [announced EXCEPT ![k] = e]
               /\ cached' = [cached EXCEPT ![k] = e]
               /\ at' = at + 1
      <3>1. Filed(announced') /\ Filed(cached')
        BY <2>1, <2>3
      <3> QED
        BY <3>1, <2>3 DEF TypeInv, StoresInv, Filed
    <2> QED
      BY <1>6, <2>2, <2>3
  <1>8. Fit("sent", t)
    <2>1. pc = "asking" /\ Fit("asking", task)
      BY DEF Publish, TypeInv, RunInv
    <2>2. t \in Task
      BY <1>2, <2>1 DEF Fit, Task
    <2> QED
      BY <1>2, <2>1, <2>2 DEF Fit, Task
  <1>9. RunInv'
    <2>1. pc' = "sent" /\ task' = t
      BY <1>5 DEF Continue
    <2>2. told' = told
      BY DEF Publish
    <2> HIDE DEF t
    <2> QED
      BY <1>8, <2>1, <2>2 DEF TypeInv, RunInv, Stages
  <1>10. CloneInv'
    BY DEF Publish, TypeInv, CloneInv, local
  <1> QED
    BY <1>7, <1>9, <1>10 DEF TypeInv

LEMMA TypeSaveItem == TypeInv /\ SaveItem => TypeInv'
  <1> SUFFICES ASSUME TypeInv, SaveItem
               PROVE  TypeInv'
    OBVIOUS
  <1>1. Fit("sent", task) /\ task.command \in {"init", "search"}
    BY DEF SaveItem, TypeInv, RunInv, Fit
  <1>2. \A by \in Users : Coord(by, task.id) \in Coordinate
    BY <1>1 DEF Fit, Task, Coord, Coordinate
  <1>3. StoresInv'
    BY DEF SaveItem, TypeInv, StoresInv, Filed
  <1>4. CloneInv'
    <2>1. OwnCoordinate(task) \in Coordinate
      BY <1>1, <1>2, SourcesAssumption DEF OwnCoordinate, Fit
    <2> QED
      BY <2>1 DEF SaveItem, TypeInv, CloneInv
  <1>5. CASE task.command = "search"
    <2>1. End(Silent)
      BY <1>5 DEF SaveItem
    <2> QED
      BY <1>3, <1>4, <2>1, NoTaskFits, TypeEnd DEF TypeInv
  <1>6. CASE task.command # "search"
    <2>1. PICK by \in Users : Continue("saved", [task EXCEPT !.url = Coord(by, task.id)])
      BY <1>6, SourcesAssumption DEF SaveItem
    <2>2. told' = told
      BY <1>6 DEF SaveItem
    <2> DEFINE t == [task EXCEPT !.url = Coord(by, task.id)]
    <2>3. t \in Task
      BY <1>1, <1>2 DEF Fit, Task
    <2>4. Fit("saved", t)
      BY <1>1, <1>2, <1>6, <2>3 DEF Fit, Task
    <2>5. pc' = "saved" /\ task' = t
      BY <2>1 DEF Continue
    <2> HIDE DEF t
    <2>6. RunInv'
      BY <2>2, <2>4, <2>5 DEF TypeInv, RunInv, Stages
    <2> QED
      BY <1>3, <1>4, <2>6 DEF TypeInv
  <1> QED
    BY <1>5, <1>6

\* A command that goes on with what it works on.
LEMMA FitOn == \A t : Fit("saved", t) => Fit("linked", t)
  BY DEF Fit

LEMMA RemoteSet ==
    ASSUME CloneInv, NEW r \in DOMAIN remotes, NEW k \in Coordinate
    PROVE  [remotes EXCEPT ![r] = Nostr(k)] \in [{"origin", "other"} -> Remote]
  <1>1. Nostr(k) \in Remote
    BY DEF Nostr, Remote
  <1> QED
    BY <1>1 DEF CloneInv

LEMMA TypePromptOrigin == TypeInv /\ PromptOrigin => TypeInv'
  <1> SUFFICES ASSUME TypeInv, PromptOrigin
               PROVE  TypeInv'
    OBVIOUS
  <1>1. Fit("saved", task) /\ task.url \in Coordinate
    BY DEF PromptOrigin, TypeInv, RunInv, Fit
  <1>2. StoresInv'
    BY DEF PromptOrigin, TypeInv, StoresInv, Filed
  <1>3. CloneInv'
    <2>1. "origin" \in DOMAIN remotes
      BY DEF TypeInv, CloneInv
    <2>2. [remotes EXCEPT !["origin"] = Nostr(task.url)] \in [{"origin", "other"} -> Remote]
      BY <1>1, <2>1, RemoteSet DEF TypeInv
    <2>3. remotes' = remotes \/ remotes' = [remotes EXCEPT !["origin"] = Nostr(task.url)]
      BY DEF PromptOrigin
    <2> QED
      BY <2>2, <2>3 DEF PromptOrigin, TypeInv, CloneInv
  <1>4. CASE End(Silent)
    BY <1>2, <1>3, <1>4, NoTaskFits, TypeEnd DEF TypeInv
  <1>5. CASE Continue("linked", task) /\ UNCHANGED told
    <2>1. RunInv'
      BY <1>1, <1>5, FitOn DEF Continue, TypeInv, RunInv, Stages
    <2> QED
      BY <1>2, <1>3, <2>1 DEF TypeInv
  <1> QED
    BY <1>4, <1>5 DEF PromptOrigin

LEMMA TypeUpdateFile == TypeInv /\ UpdateFile => TypeInv'
  <1> SUFFICES ASSUME TypeInv, UpdateFile
               PROVE  TypeInv'
    OBVIOUS
  <1> DEFINE t == task
             done == [what |-> "done", id |-> t.id, servers |-> t.servers, url |-> t.url]
  <1>1. Fit("linked", t)
    BY DEF UpdateFile, TypeInv, RunInv
  <1>2. done \in Told
    BY <1>1 DEF Fit, Task, Told
  <1>3. RunInv'
    BY <1>2, NoTaskFits, TypeEnd DEF UpdateFile
  <1>4. yaml' # None => yaml' \in Yaml /\ yaml'.first \in yaml'.listed
    <2>1. CASE UNCHANGED yaml
      BY <2>1 DEF TypeInv, CloneInv
    <2>2. CASE /\ t.file # None
               /\ \E first \in IF t.file.listed = t.listed THEN {t.file.first} ELSE t.listed :
                    yaml' = [id |-> t.id, first |-> first, listed |-> t.listed, readable |-> TRUE]
      <3>1. PICK first \in IF t.file.listed = t.listed THEN {t.file.first} ELSE t.listed :
                yaml' = [id |-> t.id, first |-> first, listed |-> t.listed, readable |-> TRUE]
        BY <2>2
      <3>2. first \in t.listed /\ t.listed \in SUBSET Users /\ t.id \in Ids \cup {NoId}
        BY <1>1, <2>2, <3>1 DEF Fit, Task
      <3> QED
        BY <3>1, <3>2 DEF Yaml
    <2>3. FileDiffers(t) => t.file # None
      BY DEF FileDiffers
    <2> QED
      BY <2>1, <2>2, <2>3 DEF UpdateFile
  <1>5. StoresInv' /\ CloneInv'
    BY <1>4 DEF UpdateFile, TypeInv, StoresInv, Filed, CloneInv
  <1> QED
    BY <1>3, <1>5 DEF TypeInv

LEMMA TypeSearch == TypeInv /\ Search => TypeInv'
  <1> SUFFICES ASSUME TypeInv, Search
               PROVE  TypeInv'
    OBVIOUS
  <1>1. PICK k \in Coordinate :
       \E store \in Fetches(k) :
        /\ cached' = store
        /\ IF Reports(store)
           THEN /\ Continue("found", [NoTask EXCEPT !.command = "search", !.coordinate = k])
                /\ told' = Silent
           ELSE /\ told' = [what |-> "not found", coordinate |-> k]
                /\ UNCHANGED <<pc, task>>
    BY DEF Search
  <1>2. Filed(cached')
    BY <1>1, FetchesFiled DEF TypeInv
  <1>3. StoresInv' /\ CloneInv'
    BY <1>2 DEF Search, TypeInv, StoresInv, CloneInv, Filed, local
  <1> DEFINE t == [NoTask EXCEPT !.command = "search", !.coordinate = k]
  <1>4. t \in Task /\ t.file = None /\ t.command = "search" /\ t.coordinate = k
    BY DEF NoTask, Task
  <1>5. Fit("found", t)
    BY <1>4 DEF Fit
  <1>6. [what |-> "not found", coordinate |-> k] \in Told
    BY DEF Told
  <1>7. \/ Continue("found", t) /\ told' = Silent
        \/ told' = [what |-> "not found", coordinate |-> k] /\ UNCHANGED <<pc, task>>
    BY <1>1
  <1> HIDE DEF t
  <1>8. RunInv'
    <2>1. CASE Continue("found", t) /\ told' = Silent
      BY <1>5, <2>1, NoTaskFits DEF Continue, RunInv, Stages
    <2>2. CASE told' = [what |-> "not found", coordinate |-> k] /\ UNCHANGED <<pc, task>>
      BY <1>6, <2>2 DEF TypeInv, RunInv
    <2> QED
      BY <1>7, <2>1, <2>2
  <1> QED
    BY <1>3, <1>8 DEF TypeInv

LEMMA TypeLinkFound == TypeInv /\ LinkFound => TypeInv'
  <1> SUFFICES ASSUME TypeInv, LinkFound
               PROVE  TypeInv'
    OBVIOUS
  <1>1. Fit("found", task) /\ task.command = "search" /\ task.coordinate \in Coordinate
    BY DEF LinkFound, TypeInv, RunInv, Fit
  <1>2. Fit("sent", task)
    BY <1>1 DEF Fit
  <1>3. RunInv'
    BY <1>2 DEF LinkFound, Continue, TypeInv, RunInv, Stages
  <1>4. remotes' \in [{"origin", "other"} -> Remote]
    BY <1>1, RemoteSet DEF LinkFound, TypeInv, CloneInv
  <1>5. StoresInv' /\ CloneInv'
    BY <1>4 DEF LinkFound, TypeInv, StoresInv, Filed, CloneInv
  <1> QED
    BY <1>3, <1>5 DEF TypeInv

LEMMA TypeAddRemote == TypeInv /\ AddRemote => TypeInv'
  <1> SUFFICES ASSUME TypeInv, AddRemote
               PROVE  TypeInv'
    OBVIOUS
  <1>1. remotes' \in [{"origin", "other"} -> Remote]
    BY RemoteSet DEF AddRemote, TypeInv
  <1>2. RunInv'
    BY NoTaskFits DEF AddRemote, TypeInv, RunInv
  <1>3. StoresInv' /\ CloneInv'
    BY <1>1 DEF AddRemote, TypeInv, StoresInv, Filed, CloneInv
  <1> QED
    BY <1>2, <1>3 DEF TypeInv

LEMMA TypeElsewhere == TypeInv /\ Elsewhere => TypeInv'
  <1> SUFFICES ASSUME TypeInv, Elsewhere
               PROVE  TypeInv'
    OBVIOUS
  <1>1. PICK u \in Users, id \in Ids, listed \in SUBSET Users, servers \in Servers :
            announced' = [announced EXCEPT ![Coord(u, id)] =
                [author |-> u, at |-> at + 1,
                 says |-> [listed |-> listed, servers |-> servers, parses |-> TRUE]]]
    BY DEF Elsewhere
  <1> DEFINE e == [author |-> u, at |-> at + 1,
                   says |-> [listed |-> listed, servers |-> servers, parses |-> TRUE]]
  <1>2. e \in Announcement /\ e.author = u
    BY AnnouncementType DEF TypeInv, StoresInv
  <1>3. Coord(u, id) \in Coordinate /\ Coord(u, id).by = u
    BY DEF Coord, Coordinate
  <1>4. announced' = [announced EXCEPT ![Coord(u, id)] = e]
    BY <1>1
  <1> HIDE DEF e
  <1>5. Filed(announced')
    BY <1>2, <1>3, <1>4, FiledAnnounces DEF TypeInv, StoresInv
  <1>6. StoresInv'
    BY <1>5 DEF Elsewhere, TypeInv, StoresInv, Filed
  <1>7. CloneInv' /\ RunInv'
    BY NoTaskFits DEF Elsewhere, TypeInv, CloneInv, RunInv, local
  <1> QED
    BY <1>6, <1>7 DEF TypeInv

LEMMA TypeQuit == TypeInv /\ Quit => TypeInv'
  <1> SUFFICES ASSUME TypeInv, Quit
               PROVE  TypeInv'
    OBVIOUS
  <1>1. RunInv'
    BY NoTaskFits, TypeEnd DEF Quit
  <1>2. StoresInv' /\ CloneInv'
    BY DEF Quit, TypeInv, StoresInv, Filed, CloneInv, local
  <1> QED
    BY <1>1, <1>2 DEF TypeInv

LEMMA TypeNext == TypeInv /\ [Next]_vars => TypeInv'
  <1>1. TypeInv /\ UNCHANGED vars => TypeInv'
    BY DEF vars, local, TypeInv, StoresInv, Filed, CloneInv, RunInv, Fit
  <1> QED
    BY <1>1, TypeLaunch, TypeOptOut, TypePublish, TypeSaveItem, TypePromptOrigin,
       TypeUpdateFile, TypeSearch, TypeLinkFound, TypeAddRemote, TypeElsewhere, TypeQuit
       DEF Next, Action

\* What may happen in a behaviour is settled when it begins.
LEMMA EnvStays == [Next]_vars => env' = env
  BY DEF Next, vars

\* What the clone and the relays hold, and what a command works on.
LEMMA Typed == Spec => []TypeInv
  BY TypeInit, TypeNext, PTL DEF Spec

\* The announcements, the files of the clone and a run of `ngit init` are what
\* the types say, for any accounts, identifiers and environments.
THEOREM TypeCorrect == Spec => []TypeOK
  <1>1. Init => env \in Envs
    BY Zenon DEF Init
  <1>2. env \in Envs /\ [Next]_vars => (env \in Envs)'
    BY EnvStays
  <1> QED
    BY <1>1, <1>2, Typed, TypeInvImplies, PTL DEF Spec

-----------------------------------------------------------------------------
(* What an init ends with.                                                 *)

\* Relays answer, and the identifier is one that can be found.
Findable == env \cap {"offline", "noid", "address"} = {}

\* An init that has sent its announcement works on a repository that is
\* announced, and from the next step on the item and the url are the user's own,
\* whatever is left of a run that was killed before.
LinkInv ==
    /\ pc \in {"sent", "saved", "linked"} /\ task.command = "init" =>
        task.id \in Ids /\ announced[Coord(User, task.id)] # None
    /\ pc \in {"saved", "linked"} =>
        item = Coord(User, task.id) /\ task.url = Coord(User, task.id)

\* The same, of what the user is told; nobody is told while a command runs.
DoneInv ==
    told.what = "done" =>
        /\ pc = "idle"
        /\ told.id \in Ids /\ announced[Coord(User, told.id)] # None
        /\ item = Coord(User, told.id) /\ told.url = Coord(User, told.id)

FoundInv == TypeInv /\ LinkInv /\ DoneInv

\* Announcements are only ever replaced.
Stay ==
    /\ \A k \in Coordinate : announced[k] # None => announced'[k] # None

LEMMA IdIsAnnounced ==
    ASSUME NEW id \in Ids
    PROVE  AnnouncedId(id) = id /\ Coord(User, id) \in Coordinate /\ Coord(User, id).by = User
  BY SourcesAssumption DEF AnnouncedId, Coord, Coordinate

\* A coordinate that is announced stays so, in every step.
LEMMA AnnouncedStays == TypeInv /\ [Next]_vars => Stay
  <1> SUFFICES ASSUME TypeInv, [Next]_vars, NEW k \in Coordinate, announced[k] # None
               PROVE  announced'[k] # None
    BY DEF Stay
  <1>1. CASE UNCHANGED announced
    BY <1>1
  <1>2. CASE \E x \in Coordinate, e \in Announcement : announced' = [announced EXCEPT ![x] = e]
    BY <1>2, NoneAssumption DEF TypeInv, StoresInv, Filed, Store
  <1>3. CASE Publish
    <2>1. PICK id \in Ids \cup {NoId}, listed \in SUBSET Users, servers \in Servers :
            \/ announced' = [announced EXCEPT ![Coord(User, AnnouncedId(id))] =
                    [author |-> User, at |-> at + 1,
                     says |-> [listed |-> listed, servers |-> servers, parses |-> TRUE]]]
            \/ UNCHANGED announced
      BY <1>3 DEF Publish
    <2> QED
      BY <1>1, <1>2, <2>1, OwnType, AnnouncementType, SourcesAssumption DEF TypeInv, StoresInv
  <1>4. CASE Elsewhere
    <2>1. PICK u \in Users, id \in Ids, listed \in SUBSET Users, servers \in Servers :
            announced' = [announced EXCEPT ![Coord(u, id)] =
                    [author |-> u, at |-> at + 1,
                     says |-> [listed |-> listed, servers |-> servers, parses |-> TRUE]]]
      BY <1>4 DEF Elsewhere
    <2>2. Coord(u, id) \in Coordinate
      BY DEF Coord, Coordinate
    <2> QED
      BY <1>2, <2>1, <2>2, AnnouncementType DEF TypeInv, StoresInv
  <1> QED
    BY <1>1, <1>3, <1>4 DEF Next, Action, Launch, OptOut, SaveItem, PromptOrigin, UpdateFile,
        Search, LinkFound, AddRemote, Quit, vars, local

\* What the next command finds.
LEMMA FoundInvImplies == FoundInv => InitIsFound
  <1> SUFFICES ASSUME FoundInv, told.what = "done"
               PROVE  InitIsFound
    BY DEF InitIsFound
  <1>1. Own = Coord(User, told.id) /\ Own \in Coordinate /\ Own.by = User
    BY IdIsAnnounced DEF Own, FoundInv, DoneInv
  <1>2. Own # None
    BY <1>1, NoneAssumption
  <1>3. announced[Own] # None /\ item = Own /\ told.url = Own
    BY <1>1 DEF FoundInv, DoneInv
  <1> HIDE DEF Own
  <1> QED
    BY <1>1, <1>2, <1>3 DEF InitIsFound, Lookup

\* A command that has not sent anything, and tells nothing.
LEMMA NothingYet ==
    ASSUME pc' \in {"idle", "asking", "found"}, told'.what # "done"
    PROVE  LinkInv' /\ DoneInv'
  BY DEF LinkInv, DoneInv

LEMMA LinkPublish == FoundInv /\ Findable /\ Publish => LinkInv' /\ DoneInv'
  <1> SUFFICES ASSUME FoundInv, Findable, Publish
               PROVE  LinkInv' /\ DoneInv'
    OBVIOUS
  <1>1. PICK id \in Ids, listed \in SUBSET Users, servers \in Servers :
            /\ Continue("sent", [task EXCEPT !.id = id, !.listed = listed, !.servers = servers])
            /\ announced' = [announced EXCEPT ![Coord(User, AnnouncedId(id))] =
                    [author |-> User, at |-> at + 1,
                     says |-> [listed |-> listed, servers |-> servers, parses |-> TRUE]]]
    BY DEF Publish, Findable
  <1> DEFINE e == [author |-> User, at |-> at + 1,
                   says |-> [listed |-> listed, servers |-> servers, parses |-> TRUE]]
  <1>2. e # None
    BY AnnouncementType, NoneAssumption, SourcesAssumption DEF FoundInv, TypeInv, StoresInv
  <1>3. announced' = [announced EXCEPT ![Coord(User, id)] = e] /\ Coord(User, id) \in Coordinate
    BY <1>1, IdIsAnnounced
  <1> HIDE DEF e
  <1>4. announced'[Coord(User, id)] # None
    BY <1>2, <1>3 DEF FoundInv, TypeInv, StoresInv, Filed, Store
  <1>5. task'.id = id /\ pc' = "sent"
    BY <1>1 DEF Continue, FoundInv, TypeInv, RunInv, Fit, Task
  <1>6. told'.what # "done"
    BY DEF Publish, FoundInv, DoneInv
  <1> QED
    BY <1>4, <1>5, <1>6 DEF LinkInv, DoneInv

LEMMA LinkSaveItem == FoundInv /\ Findable /\ SaveItem => LinkInv' /\ DoneInv'
  <1> SUFFICES ASSUME FoundInv, Findable, SaveItem
               PROVE  LinkInv' /\ DoneInv'
    OBVIOUS
  <1>1. task \in Task /\ task.command \in {"init", "search"} /\ pc = "sent"
    BY DEF SaveItem, FoundInv, TypeInv, RunInv, Fit
  <1>2. CASE task.command = "search"
    BY <1>2, NothingYet DEF SaveItem, End, Continue, Silent
  <1>3. CASE task.command = "init"
    <2>1. Continue("saved", [task EXCEPT !.url = Coord(User, task.id)])
      BY <1>3 DEF SaveItem, Findable
    <2>2. pc' = "saved" /\ task'.id = task.id /\ task'.url = Coord(User, task.id)
      BY <1>1, <2>1 DEF Continue, Task
    <2>3. item' = Coord(User, task.id) /\ told' = told /\ announced' = announced
      BY <1>3 DEF SaveItem, OwnCoordinate
    <2> QED
      BY <1>1, <1>3, <2>2, <2>3 DEF FoundInv, LinkInv, DoneInv
  <1> QED
    BY <1>1, <1>2, <1>3

LEMMA LinkPromptOrigin == FoundInv /\ PromptOrigin => LinkInv' /\ DoneInv'
  <1> SUFFICES ASSUME FoundInv, PromptOrigin
               PROVE  LinkInv' /\ DoneInv'
    OBVIOUS
  <1>1. CASE End(Silent)
    BY <1>1, NothingYet DEF End, Continue, Silent
  <1>2. CASE Continue("linked", task) /\ UNCHANGED told
    BY <1>2 DEF PromptOrigin, Continue, FoundInv, LinkInv, DoneInv, TypeInv, RunInv, Fit
  <1> QED
    BY <1>1, <1>2 DEF PromptOrigin

LEMMA LinkUpdateFile == FoundInv /\ UpdateFile => LinkInv' /\ DoneInv'
  <1> SUFFICES ASSUME FoundInv, UpdateFile
               PROVE  LinkInv' /\ DoneInv'
    OBVIOUS
  <1>1. CASE End(Silent)
    BY <1>1, NothingYet DEF End, Continue, Silent
  <1> DEFINE done == [what |-> "done", id |-> task.id, servers |-> task.servers,
                      url |-> task.url]
  <1>2. CASE End(done)
    BY <1>2 DEF UpdateFile, End, Continue, FoundInv, LinkInv, DoneInv, TypeInv, RunInv, Fit
  <1> QED
    BY <1>1, <1>2 DEF UpdateFile

LEMMA LinkElsewhere == FoundInv /\ [Next]_vars /\ Elsewhere => LinkInv' /\ DoneInv'
  <1> SUFFICES ASSUME FoundInv, [Next]_vars, Elsewhere
               PROVE  LinkInv' /\ DoneInv'
    OBVIOUS
  <1>1. Stay
    BY AnnouncedStays DEF FoundInv
  <1>2. \A id \in Ids : Coord(User, id) \in Coordinate
    BY IdIsAnnounced
  <1> QED
    BY <1>1, <1>2 DEF Elsewhere, local, Silent, Stay, FoundInv, LinkInv, DoneInv

LEMMA LinkNext == FoundInv /\ Findable /\ [Next]_vars => FoundInv'
  <1> SUFFICES ASSUME FoundInv, Findable, [Next]_vars
               PROVE  LinkInv' /\ DoneInv'
    BY TypeNext DEF FoundInv
  <1>2. CASE UNCHANGED vars
    BY <1>2 DEF vars, local, FoundInv, LinkInv, DoneInv
  <1>3. CASE Launch
    BY <1>3, NothingYet DEF Launch, Continue, Silent
  <1>4. CASE OptOut
    BY <1>4 DEF OptOut, local, FoundInv, LinkInv, DoneInv
  <1>5. CASE Search
    <2>1. PICK k \in Coordinate :
            \/ pc' = "found" /\ told' = Silent
            \/ told' = [what |-> "not found", coordinate |-> k] /\ pc' = pc
      BY <1>5 DEF Search, Continue
    <2>2. pc = "idle"
      BY <1>5 DEF Search
    <2>3. CASE told' = [what |-> "not found", coordinate |-> k] /\ pc' = pc
      <3>1. told'.what = "not found"
        BY <2>3
      <3> QED
        BY <2>2, <2>3, <3>1, NothingYet
    <2>4. CASE pc' = "found" /\ told' = Silent
      BY <2>4, NothingYet DEF Silent
    <2> QED
      BY <2>1, <2>3, <2>4
  <1>6. CASE LinkFound
    BY <1>6 DEF LinkFound, Continue, FoundInv, LinkInv, DoneInv, TypeInv, RunInv, Fit
  <1>7. CASE AddRemote
    BY <1>7, NothingYet DEF AddRemote, Silent, local
  <1>8. CASE Quit
    BY <1>8, NothingYet DEF Quit, End, Continue, Silent
  <1> QED
    BY <1>2, <1>3, <1>4, <1>5, <1>6, <1>7, <1>8, LinkPublish, LinkSaveItem,
       LinkPromptOrigin, LinkUpdateFile, LinkElsewhere DEF Next, Action

\* What a run of init says it made is what the next command in the clone finds,
\* and where the url that was shown leads, for any accounts, identifiers and
\* announcements, and any runs that were killed before: where relays answer and
\* neither the identifier is empty nor an address leads elsewhere.
THEOREM FoundAgain == Spec => []Found
  <1> DEFINE Inv == FoundInv \/ ~Findable
  <1>1. Init => Inv
    <2>1. Init => pc = "idle" /\ told = Silent
      BY Zenon DEF Init
    <2>2. pc = "idle" /\ told = Silent => LinkInv /\ DoneInv
      BY DEF Silent, LinkInv, DoneInv
    <2> QED
      BY <2>1, <2>2, TypeInit DEF FoundInv
  <1>2. Inv /\ [Next]_vars => Inv'
    BY LinkNext, EnvStays DEF Findable
  <1>3. Inv => Found
    BY FoundInvImplies DEF Found, Findable
  <1> QED
    BY <1>1, <1>2, <1>3, PTL DEF Spec

-----------------------------------------------------------------------------
(* maintainers.yaml.                                                       *)

\* Relays answer, and nobody announces anything while a command runs.
Undisturbed == env \cap {"offline", "overlap"} = {}

OwnOf(t) == Coord(User, AnnouncedId(t.id))

\* A run of init has the file that is there, and what it has announced is what it
\* will write.
RunsOnFile ==
    pc \in {"asking", "sent", "saved", "linked"} /\ task.command = "init" =>
        /\ task.file = yaml
        /\ pc # "asking" => announced[OwnOf(task)].says.listed = task.listed

FileInv ==
    /\ TypeInv
    /\ RunsOnFile
    /\ told.what = "done" => pc = "idle"
    /\ FileAgrees

\* A command that is not an init, or none, and tells nothing.
LEMMA NoInitRuns ==
    ASSUME pc' \in {"idle", "found"} \/ task'.command # "init", told'.what # "done"
    PROVE  RunsOnFile' /\ (told'.what = "done" => pc' = "idle") /\ FileAgrees'
  BY DEF RunsOnFile, FileAgrees

LEMMA EndsSilent ==
    ASSUME End(Silent)
    PROVE  RunsOnFile' /\ (told'.what = "done" => pc' = "idle") /\ FileAgrees'
  <1>1. pc' = "idle" /\ told'.what # "done"
    BY DEF End, Continue, Silent
  <1> QED
    BY <1>1, NoInitRuns

\* The file is brought in line at the end.
LEMMA FileUpdated ==
    ASSUME FileInv, UpdateFile
    PROVE  RunsOnFile' /\ (told'.what = "done" => pc' = "idle") /\ FileAgrees'
  <1> DEFINE t == task
             done == [what |-> "done", id |-> t.id, servers |-> t.servers, url |-> t.url]
  <1>1. CASE End(Silent)
    BY <1>1, EndsSilent
  <1>2. CASE End(done) /\ ~End(Silent)
    <2>1. pc' = "idle" /\ told' = done /\ announced' = announced
      BY <1>2 DEF End, Continue, UpdateFile
    <2>2. told'.what = "done" /\ told'.id = t.id
      BY <2>1
    <2>3. pc = "linked" /\ t.file = yaml /\ announced[OwnOf(t)].says.listed = t.listed
      BY DEF UpdateFile, FileInv, RunsOnFile, TypeInv, RunInv, Fit
    <2>4. Own' = OwnOf(t)
      BY <2>2 DEF Own, OwnOf
    <2>5. CASE FileDiffers(t)
      <3>1. PICK first : yaml' = [id |-> t.id, first |-> first, listed |-> t.listed,
                                  readable |-> TRUE]
        BY <1>2, <2>5 DEF UpdateFile
      <3>2. yaml'.id = t.id /\ yaml'.listed = t.listed
        BY <3>1
      <3> QED
        BY <2>1, <2>2, <2>3, <2>4, <3>2 DEF RunsOnFile, FileAgrees
    <2>6. CASE ~FileDiffers(t)
      <3>1. yaml' = yaml
        BY <1>2, <2>6 DEF UpdateFile
      <3>2. yaml # None => yaml.id = t.id /\ yaml.listed = t.listed
        BY <2>3, <2>6 DEF FileDiffers
      <3> QED
        BY <2>1, <2>2, <2>3, <2>4, <3>1, <3>2 DEF RunsOnFile, FileAgrees
    <2> QED
      BY <2>5, <2>6
  <1> QED
    BY <1>1, <1>2 DEF UpdateFile

LEMMA FilePublish ==
    ASSUME FileInv, Undisturbed, Publish
    PROVE  RunsOnFile' /\ (told'.what = "done" => pc' = "idle") /\ FileAgrees'
  <1>1. PICK id \in Ids \cup {NoId}, listed \in SUBSET Users, servers \in Servers :
            /\ Continue("sent", [task EXCEPT !.id = id, !.listed = listed, !.servers = servers])
            /\ announced' = [announced EXCEPT ![Coord(User, AnnouncedId(id))] =
                    [author |-> User, at |-> at + 1,
                     says |-> [listed |-> listed, servers |-> servers, parses |-> TRUE]]]
    BY DEF Publish, Undisturbed
  <1>2. pc = "asking" /\ task \in Task /\ task.command = "init"
    BY DEF Publish, FileInv, TypeInv, RunInv, Fit
  <1>3. /\ pc' = "sent"
        /\ task'.id = id /\ task'.listed = listed /\ task'.file = task.file
    BY <1>1, <1>2 DEF Continue, Task
  <1>4. OwnOf(task') = Coord(User, AnnouncedId(id)) /\ OwnOf(task') \in Coordinate
    BY <1>3, OwnType DEF OwnOf
  <1>5. announced'[OwnOf(task')].says.listed = listed
    BY <1>1, <1>4 DEF FileInv, TypeInv, StoresInv, Filed, Store
  <1>6. told'.what # "done" /\ yaml' = yaml
    BY <1>2 DEF Publish, FileInv, local
  <1> QED
    BY <1>2, <1>3, <1>5, <1>6 DEF FileInv, RunsOnFile, FileAgrees

LEMMA FileNext == FileInv /\ Undisturbed /\ [Next]_vars => FileInv'
  <1> SUFFICES ASSUME FileInv, Undisturbed, [Next]_vars
               PROVE  RunsOnFile' /\ (told'.what = "done" => pc' = "idle") /\ FileAgrees'
    BY TypeNext DEF FileInv
  <1>1. CASE UNCHANGED vars
    BY <1>1 DEF vars, local, FileInv, RunsOnFile, OwnOf, FileAgrees, Own
  <1>2. CASE Launch
    <2>1. told' = Silent /\ yaml' = yaml
      BY <1>2 DEF Launch, local
    <2>2. pc' = "asking" /\ task'.file = yaml
      BY <1>2 DEF Launch, Continue, NoTask
    <2> QED
      BY <2>1, <2>2 DEF Silent, RunsOnFile, FileAgrees
  <1>3. CASE OptOut
    BY <1>3 DEF OptOut, local, FileInv, RunsOnFile, OwnOf, FileAgrees, Own
  <1>4. CASE Publish
    BY <1>4, FilePublish
  <1>5. CASE SaveItem
    <2>1. CASE task.command = "search"
      BY <1>5, <2>1, EndsSilent DEF SaveItem
    <2>2. CASE task.command # "search"
      <3>1. PICK by : Continue("saved", [task EXCEPT !.url = Coord(by, task.id)])
        BY <1>5, <2>2 DEF SaveItem
      <3>2. /\ pc = "sent" /\ task \in Task /\ task.command = "init" /\ told' = told
            /\ UNCHANGED <<announced, yaml>>
        BY <1>5, <2>2 DEF SaveItem, FileInv, TypeInv, RunInv, Fit
      <3>3. /\ pc' = "saved"
            /\ task'.file = task.file /\ task'.listed = task.listed /\ task'.id = task.id
        BY <3>1, <3>2 DEF Continue, Task
      <3> QED
        BY <3>2, <3>3 DEF FileInv, RunsOnFile, OwnOf, FileAgrees, Own
    <2> QED
      BY <2>1, <2>2
  <1>6. CASE PromptOrigin
    <2>1. CASE End(Silent)
      BY <2>1, EndsSilent
    <2>2. CASE Continue("linked", task) /\ UNCHANGED told
      BY <1>6, <2>2 DEF PromptOrigin, Continue, FileInv, RunsOnFile, OwnOf, FileAgrees, Own
    <2> QED
      BY <1>6, <2>1, <2>2 DEF PromptOrigin
  <1>7. CASE UpdateFile
    BY <1>7, FileUpdated
  <1>8. CASE Search
    <2>1. PICK k \in Coordinate :
            \/ pc' = "found" /\ told' = Silent
            \/ told' = [what |-> "not found", coordinate |-> k] /\ pc' = pc
      BY <1>8 DEF Search, Continue
    <2>2. pc = "idle"
      BY <1>8 DEF Search
    <2>3. CASE told' = [what |-> "not found", coordinate |-> k] /\ pc' = pc
      <3>1. told'.what = "not found"
        BY <2>3
      <3> QED
        BY <2>2, <2>3, <3>1, NoInitRuns
    <2>4. CASE pc' = "found" /\ told' = Silent
      BY <2>4, NoInitRuns DEF Silent
    <2> QED
      BY <2>1, <2>3, <2>4
  <1>9. CASE LinkFound
    <2>1. task' = task /\ task.command = "search" /\ told' = told /\ pc = "found"
      BY <1>9 DEF LinkFound, Continue, FileInv, TypeInv, RunInv, Fit
    <2> QED
      BY <2>1, NoInitRuns DEF FileInv
  <1>10. CASE AddRemote
    BY <1>10, NoInitRuns DEF AddRemote, Silent
  <1>11. CASE Elsewhere
    BY <1>11, NoInitRuns DEF Elsewhere, Undisturbed, Silent, local
  <1>12. CASE Quit
    BY <1>12, EndsSilent DEF Quit
  <1> QED
    BY <1>1, <1>2, <1>3, <1>4, <1>5, <1>6, <1>7, <1>8, <1>9, <1>10, <1>11, <1>12 DEF Next, Action

\* A maintainers.yaml says, after an init, what the init announced, for any file
\* that was there, any maintainers and any run that was killed before: where
\* relays answer and nobody announces while a command runs.
THEOREM FileFollows == Spec => []FileInLine
  <1> DEFINE Inv == FileInv \/ ~Undisturbed
  <1>1. Init => Inv
    <2>1. Init => pc = "idle" /\ told = Silent
      BY Zenon DEF Init
    <2>2. pc = "idle" /\ told = Silent => RunsOnFile /\ FileAgrees
      BY DEF Silent, RunsOnFile, FileAgrees
    <2> QED
      BY <2>1, <2>2, TypeInit DEF FileInv
  <1>2. Inv /\ [Next]_vars => Inv'
    BY FileNext, EnvStays DEF Undisturbed
  <1>3. Inv => FileInLine
    BY DEF FileInv, FileInLine, Undisturbed
  <1> QED
    BY <1>1, <1>2, <1>3, PTL DEF Spec

-----------------------------------------------------------------------------
(* Maintainers.                                                            *)

\* The maintainers of a coordinate, as NamedIs has them.
LEMMA MaintainersIs ==
    ASSUME NEW store, Filed(store), NEW k \in Coordinate
    PROVE  LET us == MaintainersOf(store, k)
               es == EventsAt(store, k.id)
           IN  /\ us \in SUBSET Users /\ k.by \in us
               /\ \A e \in es : e.author \in us => e.says.listed \subseteq us
               /\ \A vs \in SUBSET Users :
                    k.by \in vs /\ (\A e \in es : e.author \in vs => e.says.listed \subseteq vs)
                    => us \subseteq vs
  <1>1. k.by \in Users /\ k.id \in Ids \cup {NoId}
    BY DEF Coordinate
  <1>2. EventsAt(store, k.id) \in SUBSET Announcement
    BY <1>1, EventsAtIs
  <1> QED
    BY <1>1, <1>2, NamedIs DEF MaintainersOf

\* A fetch gets what names the maintainers: it asks for all whom the cache or the
\* relays name, and those the relays name are among them.
LEMMA FetchedMaintainers ==
    ASSUME StoresInv, NEW k \in Coordinate
    PROVE  MaintainersOf(Fetched(k), k) = MaintainersOf(announced, k)
  <1> DEFINE known == EventsAt(cached, k.id) \cup EventsAt(announced, k.id)
             asked == From(k.by)!NamedFrom(known)
             us == MaintainersOf(announced, k)
             vs == MaintainersOf(Fetched(k), k)
  <1>1. k.by \in Users /\ k.id \in Ids \cup {NoId}
    BY DEF Coordinate
  <1>2. Filed(announced) /\ Filed(cached) /\ Filed(Fetched(k))
    BY FetchesFiled DEF StoresInv, Fetches
  <1>3. known \in SUBSET Announcement
    BY <1>1, <1>2, EventsAtIs
  <1>4. /\ asked \in SUBSET Users /\ k.by \in asked
        /\ \A e \in known : e.author \in asked => e.says.listed \subseteq asked
    BY <1>1, <1>3, NamedIs
  <1>5. \A u \in Users : /\ Coord(u, k.id) \in Coordinate
                         /\ u \in asked => Fetched(k)[Coord(u, k.id)] = announced[Coord(u, k.id)]
    BY <1>1, <1>4, EventsAtIs, <1>2 DEF Fetched, Asked
  <1> HIDE DEF asked
  <1>6. us \subseteq asked
    BY <1>2, <1>4, MaintainersIs
  <1>7. /\ us \in SUBSET Users /\ vs \in SUBSET Users /\ k.by \in us /\ k.by \in vs
        /\ \A e \in EventsAt(announced, k.id) : e.author \in us => e.says.listed \subseteq us
        /\ \A e \in EventsAt(Fetched(k), k.id) : e.author \in vs => e.says.listed \subseteq vs
    BY <1>2, MaintainersIs
  <1>8. /\ \A e \in EventsAt(announced, k.id) :
                e \in Announcement /\ e = announced[Coord(e.author, k.id)]
        /\ \A e \in EventsAt(Fetched(k), k.id) :
                e \in Announcement /\ e = Fetched(k)[Coord(e.author, k.id)]
        /\ \A u \in Users : announced[Coord(u, k.id)] # None =>
                announced[Coord(u, k.id)] \in EventsAt(announced, k.id)
        /\ \A u \in Users : Fetched(k)[Coord(u, k.id)] # None =>
                Fetched(k)[Coord(u, k.id)] \in EventsAt(Fetched(k), k.id)
    BY <1>1, <1>2, EventsAtIs
  <1>9. \A e : e \in Announcement => e # None /\ e.author \in Users
    BY NoneAssumption DEF Announcement
  <1>10. vs \subseteq us
    <2>1. ASSUME NEW e \in EventsAt(Fetched(k), k.id), e.author \in us
          PROVE  e.says.listed \subseteq us
      <3>1. e = announced[Coord(e.author, k.id)] /\ e # None
        BY <1>5, <1>6, <1>8, <1>9, <2>1
      <3>2. e \in EventsAt(announced, k.id)
        BY <1>8, <1>9, <3>1
      <3> QED
        BY <1>7, <2>1, <3>2
    <2> QED
      BY <1>2, <1>7, <2>1, MaintainersIs
  <1>11. us \subseteq vs
    <2>1. ASSUME NEW e \in EventsAt(announced, k.id), e.author \in vs
          PROVE  e.says.listed \subseteq vs
      <3>1. e = Fetched(k)[Coord(e.author, k.id)] /\ e # None
        BY <1>5, <1>6, <1>8, <1>9, <1>10, <2>1
      <3>2. e \in EventsAt(Fetched(k), k.id)
        BY <1>8, <1>9, <3>1
      <3> QED
        BY <1>7, <2>1, <3>2
    <2> QED
      BY <1>2, <1>7, <2>1, MaintainersIs
  <1> QED
    BY <1>10, <1>11

\* An announcement of the user's that lists the maintainers there are, and the
\* user, changes nothing: it counts only if the user is one of them.
LEMMA AddingKeeps ==
    ASSUME NEW store, Filed(store), NEW k \in Coordinate,
           NEW e \in Announcement, e.author = User,
           e.says.listed = {User} \cup MaintainersOf(store, k)
    PROVE  MaintainersOf([store EXCEPT ![Coord(User, k.id)] = e], k) = MaintainersOf(store, k)
  <1> DEFINE own == Coord(User, k.id)
             new == [store EXCEPT ![own] = e]
             us == MaintainersOf(store, k)
             vs == MaintainersOf(new, k)
  <1>1. k.id \in Ids \cup {NoId} /\ own \in Coordinate /\ own.by = User
    BY SourcesAssumption DEF Coordinate, Coord
  <1>2. Filed(new)
    BY <1>1, FiledAnnounces
  <1>3. \A u \in Users : Coord(u, k.id) \in Coordinate /\ (u # User => Coord(u, k.id) # own)
    BY <1>1 DEF Coord, Coordinate
  <1>4. /\ new[own] = e
        /\ \A u \in Users : u # User => new[Coord(u, k.id)] = store[Coord(u, k.id)]
    BY <1>1, <1>3 DEF Filed, Store
  <1> HIDE DEF new
  <1>5. /\ us \in SUBSET Users /\ vs \in SUBSET Users /\ k.by \in us /\ k.by \in vs
        /\ \A f \in EventsAt(store, k.id) : f.author \in us => f.says.listed \subseteq us
        /\ \A f \in EventsAt(new, k.id) : f.author \in vs => f.says.listed \subseteq vs
    BY <1>2, MaintainersIs
  <1>6. /\ \A f \in EventsAt(store, k.id) :
                f \in Announcement /\ f = store[Coord(f.author, k.id)]
        /\ \A f \in EventsAt(new, k.id) :
                f \in Announcement /\ f = new[Coord(f.author, k.id)]
        /\ \A u \in Users : store[Coord(u, k.id)] # None =>
                store[Coord(u, k.id)] \in EventsAt(store, k.id)
        /\ \A u \in Users : new[Coord(u, k.id)] # None =>
                new[Coord(u, k.id)] \in EventsAt(new, k.id)
    BY <1>1, <1>2, EventsAtIs
  <1>7. \A f : f \in Announcement => f # None /\ f.author \in Users
    BY NoneAssumption DEF Announcement
  <1>8. e \in EventsAt(new, k.id)
    BY <1>4, <1>6, <1>7, SourcesAssumption
  <1>9. \A f : f.author # User =>
            (f \in EventsAt(new, k.id) <=> f \in EventsAt(store, k.id))
    BY <1>4, <1>6, <1>7
  <1>10. \A f \in EventsAt(new, k.id) : f.author = User => f = e
    BY <1>4, <1>6
  <1> HIDE DEF us, vs
  <1>11. vs \subseteq us
    <2>1. ASSUME NEW f \in EventsAt(new, k.id), f.author \in us
          PROVE  f.says.listed \subseteq us
      <3>1. CASE f.author = User
        BY <1>10, <2>1, <3>1 DEF us
      <3>2. CASE f.author # User
        BY <1>5, <1>9, <2>1, <3>2
      <3> QED
        BY <3>1, <3>2
    <2> QED
      BY <1>2, <1>5, <2>1, MaintainersIs DEF vs
  <1>12. CASE User \in vs
    <2>1. e.says.listed \subseteq vs
      BY <1>5, <1>8, <1>12
    <2>2. us \subseteq vs
      BY <2>1 DEF us
    <2> QED
      BY <1>11, <2>2 DEF us, vs, new
  <1>13. CASE User \notin vs
    <2>1. ASSUME NEW f \in EventsAt(store, k.id), f.author \in vs
          PROVE  f.says.listed \subseteq vs
      BY <1>5, <1>9, <1>13, <2>1
    <2>2. us \subseteq vs
      BY <1>5, <2>1, MaintainersIs DEF us
    <2> QED
      BY <1>11, <2>2 DEF us, vs, new
  <1> QED
    BY <1>12, <1>13

\* An init that is asked has the maintainers there are.
KeptInv ==
    pc = "asking" /\ task.ref # None =>
        /\ task.coordinate \in Coordinate
        /\ task.ref.maintainers = MaintainersOf(announced, task.coordinate)

LEMMA KeptNext == TypeInv /\ KeptInv /\ Undisturbed /\ [Next]_vars => KeptInv'
  <1> SUFFICES ASSUME TypeInv, KeptInv, Undisturbed, [Next]_vars, pc' = "asking"
               PROVE  KeptInv'
    BY DEF KeptInv
  <1>1. CASE Launch
    <2>1. PICK k \in IF Lookup = {} THEN {None} ELSE Lookup :
          \E store \in IF k = None THEN {cached} ELSE Fetches(k) :
            /\ cached' = store
            /\ Continue("asking",
                 [NoTask EXCEPT !.command = "init", !.coordinate = k, !.file = yaml,
                                !.ref = IF k = None THEN None ELSE RefOf(store, k)])
      BY <1>1 DEF Launch
    <2>2. task'.coordinate = k /\ task'.ref = IF k = None THEN None ELSE RefOf(cached', k)
      BY <2>1 DEF Continue, NoTask
    <2>3. announced' = announced
      BY <1>1 DEF Launch
    <2>4. CASE k = None
      BY <2>2, <2>4 DEF KeptInv
    <2>5. CASE k # None
      <3>1. k \in Coordinate
        BY <2>1, <2>5, LookupIs DEF TypeInv
      <3>2. cached' = Fetched(k)
        BY <2>1, <2>5 DEF Fetches, Undisturbed
      <3>3. Filed(Fetched(k))
        BY <3>1, FetchesFiled DEF TypeInv, Fetches
      <3>4. task'.ref # None => task'.ref.maintainers = MaintainersOf(Fetched(k), k)
        BY <2>2, <2>5, <3>1, <3>2, <3>3, RefOfIs
      <3>5. MaintainersOf(Fetched(k), k) = MaintainersOf(announced, k)
        BY <3>1, FetchedMaintainers DEF TypeInv
      <3>6. task'.ref # None => task'.ref.maintainers = MaintainersOf(announced', k)
        BY <2>3, <3>4, <3>5
      <3> QED
        BY <2>2, <3>1, <3>6 DEF KeptInv
    <2> QED
      BY <2>4, <2>5
  <1>2. CASE UNCHANGED <<announced, pc, task>>
    BY <1>2 DEF KeptInv
  <1> QED
    BY <1>1, <1>2 DEF Next, Action, OptOut, Publish, SaveItem, PromptOrigin, UpdateFile, Search,
       LinkFound, AddRemote, Elsewhere, Quit, Continue, End, vars, local, Undisturbed

\* A repository that is announced as it is offered.
LEMMA PublishKeeps ==
    ASSUME TypeInv, KeptInv, [Next]_vars
    PROVE  KeepsMaintainers
  <1> SUFFICES ASSUME Undisturbed, pc = "asking", pc' = "sent",
                      task.ref # None, task.file = None,
                      task'.id \in DefaultIds(task), task'.listed = DefaultListed(task)
               PROVE  MaintainersOf(announced', task.coordinate)
                        = MaintainersOf(announced, task.coordinate)
    BY DEF KeepsMaintainers, Undisturbed
  <1> DEFINE k == task.coordinate
             us == MaintainersOf(announced, k)
  <1>1. k \in Coordinate /\ task.ref.maintainers = us
    BY DEF KeptInv
  <1>2. Publish
    BY DEF Next, Action, Launch, OptOut, SaveItem, PromptOrigin, UpdateFile, Search,
       LinkFound, AddRemote, Elsewhere, Quit, Continue, End, vars, local
  <1>3. PICK id \in Ids \cup {NoId}, listed \in SUBSET Users, servers \in Servers :
            /\ Continue("sent", [task EXCEPT !.id = id, !.listed = listed, !.servers = servers])
            /\ announced' = [announced EXCEPT ![Coord(User, AnnouncedId(id))] =
                    [author |-> User, at |-> at + 1,
                     says |-> [listed |-> listed, servers |-> servers, parses |-> TRUE]]]
    BY <1>2 DEF Publish, Undisturbed
  <1>4. task'.id = id /\ task'.listed = listed
    BY <1>3 DEF Continue, TypeInv, RunInv, Fit, Task
  <1>5. id = k.id /\ id # NoId
    BY <1>1, <1>4, NoneAssumption DEF DefaultIds
  <1>6. AnnouncedId(id) = k.id
    BY <1>5 DEF AnnouncedId
  <1>7. listed = {User} \cup us
    BY <1>1, <1>4 DEF DefaultListed
  <1> DEFINE e == [author |-> User, at |-> at + 1,
                   says |-> [listed |-> listed, servers |-> servers, parses |-> TRUE]]
  <1>8. e \in Announcement /\ e.author = User /\ e.says.listed = {User} \cup us
    BY <1>7, AnnouncementType, SourcesAssumption DEF TypeInv, StoresInv
  <1>9. announced' = [announced EXCEPT ![Coord(User, k.id)] = e]
    BY <1>3, <1>6
  <1> HIDE DEF e
  <1> QED
    BY <1>1, <1>8, <1>9, AddingKeeps DEF TypeInv, StoresInv

\* Whoever runs init again and accepts the identifier and the maintainers that
\* are offered leaves the maintainers of the repository as they were, whatever
\* the cache of the clone was when it began, and whether or not the user is one
\* of them: where relays answer and nobody announces while the command runs.
THEOREM MaintainersKept == Spec => DefaultsKeep
  <1> DEFINE Inv == KeptInv \/ ~Undisturbed
  <1>1. Init => Inv
    <2>1. Init => pc = "idle"
      BY Zenon DEF Init
    <2> QED
      BY <2>1 DEF KeptInv
  <1>2. TypeInv /\ Inv /\ [Next]_vars => Inv'
    BY KeptNext, EnvStays DEF Undisturbed
  <1>3. TypeInv /\ Inv /\ [Next]_vars => [KeepsMaintainers]_vars
    BY PublishKeeps DEF KeepsMaintainers, Undisturbed
  <1> QED
    BY <1>1, <1>2, <1>3, Typed, PTL DEF Spec, DefaultsKeep
=============================================================================
