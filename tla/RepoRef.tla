------------------------------- MODULE RepoRef -------------------------------
(***************************************************************************)
(* get_repo_ref_from_cache: from the trusted maintainer of a nostr:// url  *)
(* to the repository.  The loop reads the announcements of the maintainers *)
(* it knows, from the global cache (shared by all clones of the account)   *)
(* and from the clone's own cache, until none names a new maintainer.  The *)
(* two reads are separate awaits, and other processes may store            *)
(* announcements in either cache meanwhile.                                *)
(***************************************************************************)
EXTENDS Announcements

CONSTANTS NoAnn,      \* "this author has no announcement here"
          Contents,   \* bound: what announcements may say
          MaxAt       \* bound: number of announcements ever made

ASSUME RepoRefAssumption ==
    /\ NoAnn \notin Announcement
    /\ Contents \subseteq Content
    /\ MaxAt \in Nat

VARIABLES globalCache, \* the announcement of each author on this machine
          localCache,  \* ... and in this clone (.git/nostr-cache.lmdb)
          at,          \* created_at of the newest announcement
          finding,     \* "idle", "global", "local", "found" or "none"
          maintainers, \* maintainers: HashSet<PublicKey>
          read,        \* events the iteration that runs has read
          repoEvents,  \* repo_events: those of all iterations
          base,        \* the announcement `..repo_ref` comes from
          changed      \* history: a cache has changed since the call

stores == <<globalCache, localCache, at>>
findVars == <<stores, finding, maintainers, read, repoEvents, base, changed>>

Store == [Users -> Announcement \cup {NoAnn}]

\* The cached announcements and the lookup that reads them, by shape.
FindTypeOK ==
    /\ globalCache \in Store
    /\ localCache \in Store
    /\ at \in Nat
    /\ finding \in {"idle", "global", "local", "found", "none"}
    /\ maintainers \subseteq Users
    /\ read \subseteq Announcement
    /\ repoEvents \subseteq Announcement
    /\ base \in Announcement \cup {NoAnn}
    /\ changed \in BOOLEAN

FindInit ==
    /\ globalCache = [u \in Users |-> NoAnn]
    /\ localCache = [u \in Users |-> NoAnn]
    /\ at = 0
    /\ finding = "idle"
    /\ maintainers = {}
    /\ read = {}
    /\ repoEvents = {}
    /\ base = NoAnn
    /\ changed = FALSE

\* Mutants: the filter loses its authors; an author without an announcement
\* counts as one event.
BugEveryAuthor(store, us) == {store[u] : u \in Users} \ {NoAnn}
BugKeepsMissing(store, us) == {store[u] : u \in us}

\* The events of the authors us in a store: get_filter_repo_events.
By(store, us) == {store[u] : u \in us} \ {NoAnn}

\* Mutant: one unreadable event fails the iteration.
BugAllOrNothing(es) == IF \A e \in es : Parses(e) THEN es ELSE {}

\* The events that RepoRef::try_from accepts, and those they name.
Valid(es) == {e \in es : Parses(e)}
NamedIn(es) == UNION {Named(e) : e \in es}

\* A process of this clone stores an announcement in its cache and then in the
\* global one, unless it is killed in between; one of another clone stores it in
\* the global cache alone.
Places == {{"local", "global"}, {"local"}, {"global"}}
Stored(u, content, into) ==
    LET e == [author |-> u, at |-> at + 1, says |-> content]
    IN  /\ at < MaxAt
        /\ at' = at + 1
        /\ globalCache' = IF "global" \in into THEN [globalCache EXCEPT ![u] = e] ELSE globalCache
        /\ localCache' = IF "local" \in into THEN [localCache EXCEPT ![u] = e] ELSE localCache
        /\ changed' = TRUE
        /\ UNCHANGED <<finding, maintainers, read, repoEvents, base>>

StartFinding ==
    /\ finding = "idle"
    /\ finding' = "global"
    /\ maintainers' = {Trusted}
    /\ changed' = FALSE
    /\ UNCHANGED <<stores, read, repoEvents, base>>

ReadGlobal ==
    /\ finding = "global"
    /\ read' = By(globalCache, maintainers)
    /\ finding' = "local"
    /\ UNCHANGED <<stores, maintainers, repoEvents, base, changed>>

\* Mutants: the loop runs once, or until nothing at all is named.
BugOnePass(es) == FALSE
BugWhileAnyNamed(es) == NamedIn(es) # {}

\* new_coordinate.
NewNamed(es) == ~(NamedIn(es) \subseteq maintainers)

\* The other read and the end of an iteration.  In the end the first event by
\* created_at is the repository.
ReadLocal ==
    /\ finding = "local"
    /\ LET es == Valid(read \cup By(localCache, maintainers))
       IN  /\ maintainers' = maintainers \cup NamedIn(es)
           /\ repoEvents' = repoEvents \cup es
           /\ \/ NewNamed(es) /\ finding' = "global" /\ UNCHANGED base
              \/ ~NewNamed(es) /\ repoEvents' = {} /\ finding' = "none" /\ UNCHANGED base
              \/ ~NewNamed(es) /\ finding' = "found" /\ base' \in Oldest(repoEvents')
    /\ read' = {}
    /\ UNCHANGED <<stores, changed>>

\* The caller has its RepoRef, or the error that there is no announcement.
ReturnFound ==
    /\ finding \in {"found", "none"}
    /\ finding' = "idle"
    /\ maintainers' = {}
    /\ repoEvents' = {}
    /\ base' = NoAnn
    /\ UNCHANGED <<stores, read, changed>>

FindNext ==
    \/ \E u \in Users, content \in Contents, into \in Places : Stored(u, content, into)
    \/ StartFinding
    \/ ReadGlobal
    \/ ReadLocal
    \/ ReturnFound

FindSpec == FindInit /\ [][FindNext]_findVars

\* Once called, the function runs on; nobody is obliged to call it.
FindFairSpec == FindSpec /\ WF_findVars(ReadGlobal \/ ReadLocal)

-----------------------------------------------------------------------------
(* Properties.                                                             *)

\* Nobody is taken for a maintainer who is not named through a chain of
\* announcements that were read, starting at the trusted maintainer, whatever
\* other processes store while the loop runs.
OnlyNamed == maintainers \subseteq NamedFrom(repoEvents)

\* What both caches hold.
Cached ==
    {e \in {globalCache[u] : u \in Users} \cup {localCache[u] : u \in Users} :
        e # NoAnn /\ Parses(e)}

\* When the caches do not change meanwhile, the loop finds exactly the
\* maintainers that everything cached names and has read exactly what they
\* announced: stopping at the first iteration without a new name is enough.
Complete ==
    ~changed /\ finding = "found" =>
        /\ maintainers = NamedFrom(Cached)
        /\ repoEvents = {e \in Cached : e.author \in maintainers}

\* A repository without a readable announcement of a maintainer is reported
\* as such, even if others announce the same identifier.
NoneOnlyIfNone ==
    ~changed /\ finding = "none" =>
        \A e \in Cached : e.author \notin NamedFrom(Cached)

\* get_repo_ref_from_cache finds all there is to find.
FindsAll == Complete /\ NoneOnlyIfNone

\* The loop ends although every process that runs may add maintainers.
Ends == finding = "global" ~> finding \in {"found", "none"}
=============================================================================
