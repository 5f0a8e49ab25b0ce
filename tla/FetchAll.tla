------------------------------- MODULE FetchAll -------------------------------
(***************************************************************************)
(* fetch_all of client.rs: how a clone learns what relays hold.  A fetch   *)
(* makes one request from the caches, asks relays in rounds, and every     *)
(* answer may name maintainers and proposals that the same relay is asked  *)
(* about again; after a round the announcements found so far may list      *)
(* relays for another one.  Relays answer independently of each other, may *)
(* fail, and are asked at most once per fetch.                             *)
(***************************************************************************)
EXTENDS Announcements, FiniteSets

CONSTANTS Events,   \* the signed events there are
          Hostings, \* bound: what relays may hold, a set of [Relays -> SUBSET Events]
          Fallback, \* fallback_relays
          Hinted,   \* relays in the nostr:// url
          Me,       \* set with the account that is logged in, or empty
          Env       \* "relay_fault", "crash", "other_clone"

Kinds == {"announcement", "state", "root", "status", "profile"}

\* A root (patch or cover letter) is about the repositories of some
\* maintainers and starts a thread; a status belongs to a thread; a profile is
\* the metadata and relay list of its author.
Event == [kind : Kinds, author : Users, at : Nat, says : Content,
          about : SUBSET Users, thread : Nat]

ASSUME FetchAllAssumption ==
    /\ Events \subseteq Event /\ IsFiniteSet(Events)
    /\ Hostings \subseteq [Relays -> SUBSET Events]
    /\ Fallback \subseteq Relays /\ Hinted \subseteq Relays /\ Me \subseteq Users

\* The fields of a filter list (get_fetch_filters).
Wanted == [coords : SUBSET Users, roots : SUBSET Nat, profiles : SUBSET Users]
Nothing == [coords |-> {}, roots |-> {}, profiles |-> {}]

VARIABLES hosted,    \* the events of each relay
          local,     \* the cache of this clone
          global,    \* the cache of the account, shared by clones
          torn,      \* history: events whose storing a crash cut in half
          pc,        \* "idle", "round", "asking" or "reported"
          request,   \* FetchRequest, without relays
          repoRelays, userRelays, \* its relays, replaced after each round
          processed, \* processed_relays
          round,     \* relays of this round that have not finished
          asking,    \* what each of them is asked next
          found,     \* report.repo_coordinates_without_relays of each
          report,    \* the other events each relay's report mentions
          asked,     \* relays that were asked about the repository
          failed     \* relays that gave an error

caches == <<local, global, torn>>
fetch == <<request, repoRelays, userRelays, processed, round, asking, found, report,
           asked, failed>>
vars == <<hosted, caches, pc, fetch>>

Request == [coords : SUBSET Users, proposals : SUBSET Nat, contributors : SUBSET Users,
            missing : SUBSET Users, existing : SUBSET Events,
            announced : SUBSET Events, state : SUBSET Events]
NoRequest == [coords |-> {}, proposals |-> {}, contributors |-> {},
              missing |-> {}, existing |-> {}, announced |-> {}, state |-> {}]

\* Relays, caches and the requests still to be made, by shape.
TypeOK ==
    /\ hosted \in [Relays -> SUBSET Events]
    /\ local \subseteq Events /\ global \subseteq Events /\ torn \subseteq Events
    /\ pc \in {"idle", "round", "asking", "reported"}
    /\ request \in Request
    /\ repoRelays \subseteq Relays /\ userRelays \subseteq Relays
    /\ processed \subseteq Relays /\ round \subseteq Relays
    /\ asked \subseteq Relays /\ failed \subseteq Relays
    /\ asking \in [Relays -> Wanted]
    /\ found \in [Relays -> SUBSET Users]
    /\ report \in [Relays -> SUBSET Events]

-----------------------------------------------------------------------------
(* Stores and filters.                                                     *)

\* An event of the same author and an addressable or replaceable kind.
SameAddress(e, f) ==
    e.kind = f.kind /\ e.author = f.author /\ e.kind \in {"announcement", "state", "profile"}

\* e is stored, or was replaced by a newer event.
Covered(e, store) == e \in store \/ \E f \in store : SameAddress(e, f) /\ f.at > e.at

\* What a store keeps of the events es.
Kept(es) == {e \in es : ~\E f \in es : SameAddress(e, f) /\ f.at > e.at}

OfKind(kind, es) == {e \in es : e.kind = kind}
Matching(want, es) ==
    {e \in es :
        \/ e.kind \in {"announcement", "state"} /\ e.author \in want.coords
        \/ e.kind = "root" /\ e.about \cap want.coords # {}
        \/ e.kind = "status" /\ e.thread \in want.roots
        \/ e.kind = "profile" /\ e.author \in want.profiles}

\* get_repo_ref_from_cache (module RepoRef): the announcements of maintainers.
Announced(es) == {e \in OfKind("announcement", es) : Parses(e)}
Maintainers == NamedFrom(Announced(local \cup global))
RepoEvents == {e \in Announced(local \cup global) : e.author \in Maintainers}

\* get_user_ref_from_cache, for the relays of this account.
WriteRelays == UNION {e.says.relays : e \in {f \in OfKind("profile", global) : f.author \in Me}}

ListedBy(es) == UNION {e.says.relays : e \in es}

Init ==
    /\ hosted \in Hostings
    /\ local = {} /\ global = {} /\ torn = {}
    /\ pc = "idle"
    /\ request = NoRequest
    /\ repoRelays = {} /\ userRelays = {}
    /\ processed = {} /\ round = {} /\ asked = {} /\ failed = {}
    /\ report = [r \in Relays |-> {}]
    /\ asking = [r \in Relays |-> Nothing]
    /\ found = [r \in Relays |-> {}]

-----------------------------------------------------------------------------
(* A fetch.                                                                *)

\* get_state_from_cache (module RemoteHelper): the oldest state event.
StateInUse ==
    IF RepoEvents = {} THEN {}
    ELSE Oldest({e \in OfKind("state", local) : e.author \in Maintainers})

\* The proposals of maintainers us that this clone knows.
KnownRoots(us) == {e \in OfKind("root", local) : e.about \cap us # {}}

\* create_relays_request.  A profile that another clone fetched is copied to
\* this clone's cache, the others are missing.
MakeRequest ==
    LET known == KnownRoots(Maintainers)
        contributors == (IF RepoEvents = {} THEN {} ELSE Maintainers) \cup {e.author : e \in known}
        profiled == {e.author : e \in OfKind("profile", global)}
        missing == (contributors \cup Me) \ profiled
        copied == {e \in OfKind("profile", global) : e.author \in contributors}
        threads == {e.thread : e \in known}
    IN  /\ local' = Kept(local \cup copied)
        /\ request' = [coords |-> Maintainers, proposals |-> threads,
                       contributors |-> contributors, missing |-> missing,
                       existing |-> Matching([coords |-> Maintainers, roots |-> threads,
                                              profiles |-> missing \cup Me], local'),
                       announced |-> RepoEvents,
                       state |-> StateInUse]

Start ==
    /\ pc = "idle"
    /\ MakeRequest
    /\ repoRelays' = Fallback \cup Hinted \cup ListedBy(Oldest(RepoEvents))
    /\ userRelays' = WriteRelays
    /\ pc' = "round"
    /\ UNCHANGED <<hosted, global, torn, processed, round, asking, found, report, asked,
                   failed>>

NewRelays == (repoRelays \cup userRelays) \ processed

\* The head of the loop.  A relay that is only one of the account's own is
\* asked for profiles only.
StartRound ==
    /\ pc = "round"
    /\ NewRelays # {}
    /\ round' = NewRelays
    /\ asking' = [r \in Relays |->
          IF r \notin NewRelays THEN Nothing
          ELSE IF r \in repoRelays
          THEN [coords |-> request.coords, roots |-> request.proposals,
                profiles |-> request.missing \cup Me]
          ELSE [Nothing EXCEPT !.profiles = request.missing \cup Me]]
    /\ asked' = asked \cup (NewRelays \cap repoRelays)
    /\ pc' = "asking"
    /\ UNCHANGED <<hosted, caches, request, repoRelays, userRelays, processed,
                   found, report, failed>>

\* The coordinates the request for a relay starts with.
Requested(r) == IF r \in repoRelays THEN request.coords ELSE {}

\* Mutant: maintainers the same relay named before are new again.
BugForgetsFound(r, es) == (UNION {Named(e) : e \in Announced(es)}) \ Requested(r)

\* Maintainers that are neither in the request nor in the relay's report.
NewCoordinates(r, es) == (UNION {Named(e) : e \in Announced(es)}) \ (Requested(r) \cup found[r])

\* Mutant: only what the request asks for is asked.
BugAsksOnce(r, es) == Nothing

\* fresh_coordinates, fresh_proposal_roots and fresh_profiles.
Fresh(r, es) ==
    [coords |-> NewCoordinates(r, es),
     roots |-> {e.thread : e \in OfKind("root", es)},
     profiles |-> (NewCoordinates(r, es) \ (request.contributors \cup Me))
                  \cup ({e.author : e \in OfKind("root", es)} \ request.contributors)]

\* Mutant: who is mentioned instead of what.
BugMentionsAuthors(es) == {e.author : e \in es}

\* What the report mentions: what is newer than the announcement or the state
\* the clone had, the profiles it missed, proposals and statuses.  A first
\* state event is not newer than anything.
Mentioned(es) ==
    {e \in es :
        /\ e.kind = "announcement" =>
              \A f \in Oldest({g \in request.announced : g.author = e.author}) : e.at > f.at
        /\ e.kind = "state" => \E f \in request.state : e.at > f.at}

\* Mutant: announcements stay in the clone.
BugGlobalProfiles(es) == OfKind("profile", es)

ForGlobal(es) == OfKind("announcement", es) \cup OfKind("profile", es)

\* One pass of the loop of fetch_all_from_relay with process_fetched_events.
Answer(r) ==
    /\ pc = "asking"
    /\ r \in round
    /\ LET es == Matching(asking[r], hosted[r]) \ request.existing
       IN  /\ local' = Kept(local \cup es)
           /\ global' = Kept(global \cup ForGlobal(es))
           /\ asking' = [asking EXCEPT ![r] = Fresh(r, es)]
           /\ found' = [found EXCEPT ![r] = @ \cup NewCoordinates(r, es)]
           /\ report' = [report EXCEPT ![r] = @ \cup Mentioned(es)]
           /\ round' = IF Fresh(r, es) = Nothing THEN round \ {r} ELSE round
    /\ UNCHANGED <<hosted, torn, pc, request, repoRelays, userRelays, processed, asked,
                   failed>>

\* A relay cannot be reached or does not answer in time; its report is lost.
Fail(r) ==
    /\ "relay_fault" \in Env
    /\ pc = "asking"
    /\ r \in round
    /\ round' = round \ {r}
    /\ failed' = failed \cup {r}
    /\ found' = [found EXCEPT ![r] = {}]
    /\ report' = [report EXCEPT ![r] = {}]
    /\ UNCHANGED <<hosted, caches, pc, request, repoRelays, userRelays, processed,
                   asking, asked>>

\* Mutant: the relays of the request are all there are.
BugKeepsRelays == repoRelays

RelaysNow == IF RepoEvents = {} THEN repoRelays ELSE ListedBy(Oldest(RepoEvents))

\* All relays of the round have finished.
EndRound ==
    /\ pc = "asking"
    /\ round = {}
    /\ processed' = processed \cup NewRelays
    /\ repoRelays' = RelaysNow
    /\ userRelays' = WriteRelays
    /\ pc' = "round"
    /\ UNCHANGED <<hosted, caches, request, round, asking, found, report, asked, failed>>

\* No relay is left: the caller prints the report.
Finish ==
    /\ pc = "round"
    /\ NewRelays = {}
    /\ pc' = "reported"
    /\ UNCHANGED <<hosted, caches, fetch>>

Forget ==
    /\ pc' = "idle"
    /\ request' = NoRequest
    /\ repoRelays' = {} /\ userRelays' = {}
    /\ processed' = {} /\ round' = {} /\ asked' = {} /\ failed' = {}
    /\ report' = [r \in Relays |-> {}]
    /\ asking' = [r \in Relays |-> Nothing]
    /\ found' = [r \in Relays |-> {}]

Return ==
    /\ pc = "reported"
    /\ Forget
    /\ UNCHANGED <<hosted, caches>>

\* The process is killed while it stores what a relay sent: each event goes
\* to this clone's cache first.
Crash(r) ==
    /\ "crash" \in Env
    /\ pc = "asking"
    /\ r \in round
    /\ \E es \in SUBSET (Matching(asking[r], hosted[r]) \ request.existing) :
          /\ local' = Kept(local \cup es)
          /\ \E last \in SUBSET es :
                /\ \A e, f \in last : e = f
                /\ global' = Kept(global \cup ForGlobal(es \ last))
                /\ torn' = torn \cup ForGlobal(last)
    /\ Forget
    /\ UNCHANGED hosted

\* Another clone of the account stores an event some relay has.
OtherClone(r, e) ==
    /\ "other_clone" \in Env
    /\ e \in ForGlobal(hosted[r])
    /\ global' = Kept(global \cup {e})
    /\ UNCHANGED <<hosted, local, torn, pc, fetch>>

\* Steps of a fetch in which nothing fails.
FetchStep ==
    \/ StartRound
    \/ \E r \in Relays : Answer(r)
    \/ EndRound
    \/ Finish

Next ==
    \/ Start
    \/ FetchStep
    \/ Return
    \/ \E r \in Relays : Fail(r) \/ Crash(r)
    \/ \E r \in Relays, e \in Events : OtherClone(r, e)

Spec == Init /\ [][Next]_vars

\* A fetch that was started goes on: a relay that does not fail answers.
FairSpec == Spec /\ WF_vars(FetchStep)

-----------------------------------------------------------------------------
(* Properties.                                                             *)

\* The maintainers a relay's own announcements add to those of the request.
Reach(r) ==
    {u \in Users : \A us \in SUBSET Users :
        request.coords \subseteq us /\ ClosedUnder(us, Announced(hosted[r])) => u \in us}

\* What a relay holds of the repository, as far as the clone can know of it.
Relevant(r) ==
    LET roots == {e \in OfKind("root", hosted[r]) : e.about \cap Reach(r) # {}}
    IN  Matching([coords |-> Reach(r),
                  roots |-> request.proposals \cup {e.thread : e \in roots},
                  profiles |-> {}],
                 hosted[r])

\* At the end of a fetch every relay that was asked about the repository and
\* answered has nothing left to tell: all that follows, through any number of
\* maintainers and proposals, from what the clone knew and what this relay
\* holds is cached, or something newer is.  Whatever failed or was
\* interrupted before does not hide anything.
RelayExhausted ==
    pc = "reported" =>
        \A r \in asked \ failed : \A e \in Relevant(r) : Covered(e, local)

\* "if relay isn't a repo relay, just filter for user profile": at the end of a
\* fetch every relay of the repository was asked about it, also those that only
\* the fetch itself made known, except relays of the account.  (What another
\* clone stores meanwhile may be news to this one, and so may what a killed
\* fetch left half stored.)
OwnRelays == ListedBy({e \in OfKind("profile", Events) : e.author \in Me})
CacheHasAll == \A e \in OfKind("announcement", global) : Covered(e, local)
RepoRelaysAsked ==
    pc = "reported" /\ torn = {} /\ CacheHasAll =>
        ListedBy(Oldest(RepoEvents)) \subseteq asked \cup OwnRelays

\* What other clones of the account read is as new as what this clone reads,
\* but for the event at which a fetch was killed: no later fetch repairs that.
GlobalKeepsUp ==
    \A e \in local \ torn : e.kind \in {"announcement", "profile"} => Covered(e, global)

\* A fetch ends, whoever names whom, unless it is killed.
FetchEnds == pc = "round" ~> pc \in {"reported", "idle"}
=============================================================================
