----------------------------- MODULE Client_proofs -----------------------------
(***************************************************************************)
(* client.rs proved for any accounts, relays and events, with every fault. *)
(* fetch_all: its types, that a relay which answers has nothing left to    *)
(* tell (RelayExhausted), that the relays of the repository are asked      *)
(* (RepoRelaysAsked), and that the cache of the account is as new as that  *)
(* of the clone (GlobalKeepsUp).  get_repo_ref_from_cache: nobody is       *)
(* a maintainer who is not named (OnlyNamed), and, when the caches stay as *)
(* they are, everybody is who is (FindsAll).  send_events: a relay holds a *)
(* prefix of the events (NoGaps).                                          *)
(***************************************************************************)
EXTENDS FetchAll, RepoRef, SendEvents, FiniteSetTheorems, TLAPS

-----------------------------------------------------------------------------
(* Stores.                                                                 *)

\* Of finitely many events one is the newest.
LEMMA Newest ==
    ASSUME NEW es \in SUBSET Event, IsFiniteSet(es), es # {}
    PROVE  \E e \in es : \A f \in es : f.at <= e.at
  <1> DEFINE Newer(e) == {f \in es : f.at > e.at}
             sets == {Newer(e) : e \in es}
  <1>1. IsWellFoundedOn(StrictSubsetOrdering(es), FiniteSubsetsOf(es))
    BY FS_StrictSubsetOrderingWellFounded
  <1>2. sets \subseteq FiniteSubsetsOf(es)
    BY FS_Subset DEF FiniteSubsetsOf
  <1>3. sets # {}
    OBVIOUS
  <1>4. PICK x \in sets : \A y \in sets : <<y, x>> \notin StrictSubsetOrdering(es)
    BY <1>1, <1>2, <1>3, WFMin
  <1>5. PICK e \in es : x = Newer(e)
    BY <1>4
  <1>6. ASSUME NEW f \in es, f.at > e.at PROVE FALSE
    <2>1. Newer(f) \subseteq Newer(e) /\ f \in Newer(e) /\ f \notin Newer(f)
      BY <1>6 DEF Event
    <2>2. <<Newer(f), Newer(e)>> \in StrictSubsetOrdering(es)
      BY <2>1 DEF StrictSubsetOrdering
    <2> QED
      BY <1>4, <1>5, <2>2
  <1> QED
    BY <1>6 DEF Event

\* What a store drops is replaced by something newer that it keeps.
LEMMA KeptCovers ==
    ASSUME NEW es \in SUBSET Events, NEW e \in Event, Covered(e, es)
    PROVE  Covered(e, Kept(es))
  <1> DEFINE candidates == {f \in es : f = e \/ (SameAddress(e, f) /\ f.at > e.at)}
  <1>1. candidates # {}
    BY DEF Covered
  <1>2. candidates \in SUBSET Event /\ IsFiniteSet(candidates)
    BY FetchAllAssumption, FS_Subset
  <1>3. PICK g \in candidates : \A f \in candidates : f.at <= g.at
    BY <1>1, <1>2, Newest
  <1>4. ASSUME NEW f \in es, SameAddress(g, f), f.at > g.at PROVE FALSE
    <2>1. SameAddress(e, f) /\ f.at > e.at
      BY <1>2, <1>3, <1>4, FetchAllAssumption DEF SameAddress, Event
    <2> QED
      BY <1>2, <1>3, <1>4, <2>1 DEF Event
  <1>5. g \in Kept(es)
    BY <1>3, <1>4 DEF Kept
  <1> QED
    BY <1>3, <1>5 DEF Covered

\* What was covered stays covered as events are stored, and so are these.
LEMMA StoringCovers ==
    ASSUME NEW store \in SUBSET Events, NEW es \in SUBSET Events
    PROVE  /\ Kept(store \cup es) \in SUBSET Events
           /\ \A e \in Events : Covered(e, store) => Covered(e, Kept(store \cup es))
           /\ \A e \in es : Covered(e, Kept(store \cup es))
  <1>1. Kept(store \cup es) \in SUBSET Events
    BY DEF Kept
  <1>2. ASSUME NEW e \in Events, Covered(e, store) \/ e \in es
        PROVE  Covered(e, Kept(store \cup es))
    <2>1. Covered(e, store \cup es)
      BY <1>2 DEF Covered
    <2> QED
      BY <2>1, KeptCovers, FetchAllAssumption
  <1> QED
    BY <1>1, <1>2

\* An event that is in a store is covered by it.
LEMMA StoredCovered == \A store : \A e \in store : Covered(e, store)
  BY DEF Covered

\* Whom the announcements of the named name is named.
LEMMA MaintainersClosed ==
    ASSUME NEW es \in SUBSET Events
    PROVE  ClosedUnder(NamedFrom(es), es)
  <1> SUFFICES ASSUME NEW e \in es, Parses(e), e.author \in NamedFrom(es), NEW u \in Named(e)
               PROVE  u \in NamedFrom(es)
    BY DEF ClosedUnder
  <1>1. u \in Users
    BY FetchAllAssumption DEF Named, Event, Content
  <1>2. ASSUME NEW us \in SUBSET Users, Trusted \in us, ClosedUnder(us, es)
        PROVE  u \in us
    <2>1. e.author \in us
      BY <1>2 DEF NamedFrom
    <2> QED
      BY <1>2, <2>1 DEF ClosedUnder
  <1> QED
    BY <1>1, <1>2 DEF NamedFrom

-----------------------------------------------------------------------------
(* Types.                                                                  *)

\* What is made of events are events.
LEMMA EventSets ==
    ASSUME NEW es \in SUBSET Events
    PROVE  /\ \A want : Matching(want, es) \in SUBSET Events
           /\ \A kind : OfKind(kind, es) \in SUBSET Events
           /\ Kept(es) \in SUBSET Events
           /\ Announced(es) \in SUBSET Events
           /\ ForGlobal(es) \in SUBSET Events
           /\ Oldest(es) \in SUBSET Events
           /\ {e.author : e \in es} \in SUBSET Users
           /\ {e.thread : e \in es} \in SUBSET Nat
           /\ ListedBy(es) \in SUBSET Relays
           /\ UNION {Named(e) : e \in es} \in SUBSET Users
  <1>1. es \subseteq Event
    BY FetchAllAssumption
  <1>2. \A e \in es : /\ e.author \in Users /\ e.thread \in Nat
                      /\ e.says.relays \subseteq Relays /\ Named(e) \subseteq Users
    BY <1>1 DEF Event, Content, Named
  <1>3. /\ {e.author : e \in es} \in SUBSET Users
        /\ {e.thread : e \in es} \in SUBSET Nat
        /\ ListedBy(es) \in SUBSET Relays
        /\ UNION {Named(e) : e \in es} \in SUBSET Users
    BY <1>2 DEF ListedBy
  <1> QED
    BY <1>3 DEF Matching, OfKind, Kept, Announced, ForGlobal, Oldest

\* What the caches say of the repository.
LEMMA CacheTypes ==
    ASSUME local \in SUBSET Events, global \in SUBSET Events
    PROVE  /\ Maintainers \in SUBSET Users
           /\ RepoEvents \in SUBSET Events
           /\ WriteRelays \in SUBSET Relays
           /\ ListedBy(Oldest(RepoEvents)) \in SUBSET Relays
           /\ StateInUse \in SUBSET Events
           /\ \A us : KnownRoots(us) \in SUBSET Events
  <1>1. Maintainers \in SUBSET Users
    BY DEF Maintainers, NamedFrom
  <1>2. RepoEvents \in SUBSET Events
    BY EventSets DEF RepoEvents
  <1>3. WriteRelays \in SUBSET Relays
    <2>1. {f \in OfKind("profile", global) : f.author \in Me} \in SUBSET Events
      BY EventSets
    <2> QED
      BY <2>1, EventSets DEF WriteRelays, ListedBy
  <1>4. ListedBy(Oldest(RepoEvents)) \in SUBSET Relays
    BY <1>2, EventSets
  <1>5. StateInUse \in SUBSET Events
    BY EventSets DEF StateInUse, Oldest
  <1>6. \A us : KnownRoots(us) \in SUBSET Events
    BY EventSets DEF KnownRoots
  <1> QED
    BY <1>1, <1>2, <1>3, <1>4, <1>5, <1>6

\* A request made of the caches.
LEMMA RequestTypes ==
    ASSUME TypeOK, MakeRequest
    PROVE  request' \in Request /\ local' \in SUBSET Events
  <1> DEFINE known == KnownRoots(Maintainers)
             contributors == (IF RepoEvents = {} THEN {} ELSE Maintainers) \cup {e.author : e \in known}
             missing == (contributors \cup Me) \ {e.author : e \in OfKind("profile", global)}
             copied == {e \in OfKind("profile", global) : e.author \in contributors}
             threads == {e.thread : e \in known}
  <1>1. local \in SUBSET Events /\ global \in SUBSET Events
    BY DEF TypeOK
  <1>2. known \in SUBSET Events /\ Maintainers \in SUBSET Users
    BY <1>1, CacheTypes
  <1>3. contributors \in SUBSET Users /\ threads \in SUBSET Nat
    BY <1>2, EventSets
  <1>4. missing \in SUBSET Users
    BY <1>3, FetchAllAssumption
  <1>5. copied \in SUBSET Events
    BY <1>1, EventSets
  <1>6. local' = Kept(local \cup copied)
    BY DEF MakeRequest
  <1>7. local' \in SUBSET Events
    BY <1>1, <1>5, <1>6, EventSets
  <1>8. request' = [coords |-> Maintainers, proposals |-> threads,
                    contributors |-> contributors, missing |-> missing,
                    existing |-> Matching([coords |-> Maintainers, roots |-> threads,
                                           profiles |-> missing \cup Me], local'),
                    announced |-> RepoEvents,
                    state |-> StateInUse]
    BY DEF MakeRequest
  <1>9. RepoEvents \in SUBSET Events /\ StateInUse \in SUBSET Events
    BY <1>1, CacheTypes
  <1> HIDE DEF known, contributors, missing, copied, threads
  <1>10. \A want : Matching(want, local') \in SUBSET Events
    BY <1>7, EventSets
  <1> QED
    BY <1>2, <1>3, <1>4, <1>7, <1>8, <1>9, <1>10 DEF Request

\* What a relay answers, and what it is asked then.
LEMMA AnswerTypes ==
    ASSUME TypeOK, NEW r \in Relays, NEW es \in SUBSET Events
    PROVE  /\ NewCoordinates(r, es) \in SUBSET Users
           /\ Fresh(r, es) \in Wanted
           /\ Mentioned(es) \in SUBSET Events
  <1>1. Announced(es) \in SUBSET Events
    BY EventSets
  <1>2. NewCoordinates(r, es) \in SUBSET Users
    BY <1>1, EventSets DEF NewCoordinates
  <1>3. OfKind("root", es) \in SUBSET Events
    BY EventSets
  <1>4. /\ {e.author : e \in OfKind("root", es)} \in SUBSET Users
        /\ {e.thread : e \in OfKind("root", es)} \in SUBSET Nat
    BY <1>3, EventSets
  <1>5. Fresh(r, es) \in Wanted
    BY <1>2, <1>4 DEF Fresh, Wanted
  <1> QED
    BY <1>2, <1>5 DEF Mentioned

\* What a relay sends, and what is stored of it.
LEMMA SentTypes ==
    ASSUME TypeOK, NEW r \in Relays
    PROVE  Matching(asking[r], hosted[r]) \ request.existing \in SUBSET Events
  <1>1. hosted[r] \in SUBSET Events
    BY DEF TypeOK
  <1> QED
    BY <1>1, EventSets

\* A fetch that is over.
LEMMA ForgetTypes ==
    ASSUME TypeOK, Forget, UNCHANGED hosted,
           local' \in SUBSET Events, global' \in SUBSET Events, torn' \in SUBSET Events
    PROVE  TypeOK'
  <1>1. NoRequest \in Request
    BY DEF NoRequest, Request
  <1>2. Nothing \in Wanted
    BY DEF Nothing, Wanted
  <1> QED
    BY <1>1, <1>2 DEF Forget, TypeOK

\* Whatever relays hold and answer, and whatever fails: caches, requests and
\* reports keep their types.
THEOREM TypeCorrect == Spec => []TypeOK
  <1>1. Init => TypeOK
    <2>1. NoRequest \in Request /\ Nothing \in Wanted
      BY DEF NoRequest, Request, Nothing, Wanted
    <2> QED
      BY <2>1, FetchAllAssumption DEF Init, TypeOK
  <1>2. TypeOK /\ [Next]_vars => TypeOK'
    <2> SUFFICES ASSUME TypeOK, [Next]_vars PROVE TypeOK'
      OBVIOUS
    <2>0. local \in SUBSET Events /\ global \in SUBSET Events /\ torn \in SUBSET Events
      BY DEF TypeOK
    <2>1. CASE Start
      <3>1. request' \in Request /\ local' \in SUBSET Events
        BY <2>1, RequestTypes DEF Start
      <3>2. repoRelays' \subseteq Relays /\ userRelays' \subseteq Relays
        BY <2>0, <2>1, CacheTypes, FetchAllAssumption DEF Start
      <3> QED
        BY <2>1, <3>1, <3>2 DEF Start, TypeOK
    <2>2. CASE StartRound
      <3>1. NewRelays \subseteq Relays
        BY DEF NewRelays, TypeOK
      <3>2. ASSUME NEW r \in Relays
            PROVE  asking'[r] \in Wanted
        <4>1. request \in Request /\ Me \subseteq Users
          BY FetchAllAssumption DEF TypeOK
        <4>2. /\ Nothing \in Wanted
              /\ [Nothing EXCEPT !.profiles = request.missing \cup Me] \in Wanted
              /\ [coords |-> request.coords, roots |-> request.proposals,
                  profiles |-> request.missing \cup Me] \in Wanted
          BY <4>1 DEF Nothing, Wanted, Request
        <4> QED
          BY <2>2, <4>2 DEF StartRound
      <3>3. asking' \in [Relays -> Wanted]
        BY <2>2, <3>2 DEF StartRound
      <3> QED
        BY <2>2, <3>1, <3>3 DEF StartRound, TypeOK, caches
    <2>3. ASSUME NEW r \in Relays, Answer(r) PROVE TypeOK'
      <3> DEFINE es == Matching(asking[r], hosted[r]) \ request.existing
      <3>1. es \in SUBSET Events
        BY SentTypes
      <3>2. /\ local' = Kept(local \cup es)
            /\ global' = Kept(global \cup ForGlobal(es))
            /\ asking' = [asking EXCEPT ![r] = Fresh(r, es)]
            /\ found' = [found EXCEPT ![r] = @ \cup NewCoordinates(r, es)]
            /\ report' = [report EXCEPT ![r] = @ \cup Mentioned(es)]
            /\ round' \subseteq round
        BY <2>3 DEF Answer
      <3>3. UNCHANGED <<hosted, torn, pc, request, repoRelays, userRelays, processed, asked,
                        failed>>
        BY <2>3 DEF Answer
      <3> HIDE DEF es
      <3>4. ForGlobal(es) \in SUBSET Events
        BY <3>1, EventSets
      <3>5. local' \in SUBSET Events /\ global' \in SUBSET Events
        BY <2>0, <3>1, <3>2, <3>4, EventSets
      <3>6. /\ asking' \in [Relays -> Wanted]
            /\ found' \in [Relays -> SUBSET Users]
            /\ report' \in [Relays -> SUBSET Events]
        BY <3>1, <3>2, AnswerTypes DEF TypeOK
      <3> QED
        BY <3>2, <3>3, <3>5, <3>6 DEF TypeOK
    <2>4. ASSUME NEW r \in Relays, Fail(r) PROVE TypeOK'
      BY <2>4 DEF Fail, TypeOK, caches
    <2>5. CASE EndRound
      <3>1. RelaysNow \subseteq Relays /\ WriteRelays \subseteq Relays
        BY <2>0, CacheTypes DEF RelaysNow, TypeOK
      <3>2. NewRelays \subseteq Relays
        BY DEF NewRelays, TypeOK
      <3> QED
        BY <2>5, <3>1, <3>2 DEF EndRound, TypeOK, caches
    <2>6. CASE Finish
      BY <2>6 DEF Finish, TypeOK, caches, fetch
    <2>7. CASE Return
      BY <2>0, <2>7, ForgetTypes DEF Return, caches
    <2>8. ASSUME NEW r \in Relays, Crash(r) PROVE TypeOK'
      <3> DEFINE sent == Matching(asking[r], hosted[r]) \ request.existing
      <3>1. PICK es \in SUBSET sent :
               /\ local' = Kept(local \cup es)
               /\ \E last \in SUBSET es :
                     /\ \A e, f \in last : e = f
                     /\ global' = Kept(global \cup ForGlobal(es \ last))
                     /\ torn' = torn \cup ForGlobal(last)
        BY <2>8 DEF Crash
      <3>2. PICK last \in SUBSET es :
               /\ \A e, f \in last : e = f
               /\ global' = Kept(global \cup ForGlobal(es \ last))
               /\ torn' = torn \cup ForGlobal(last)
        BY <3>1
      <3>3. sent \in SUBSET Events
        BY SentTypes
      <3> HIDE DEF sent
      <3>4. /\ es \in SUBSET Events
            /\ ForGlobal(es \ last) \in SUBSET Events /\ ForGlobal(last) \in SUBSET Events
        BY <3>2, <3>3, EventSets
      <3>5. local' \in SUBSET Events /\ global' \in SUBSET Events /\ torn' \in SUBSET Events
        BY <2>0, <3>1, <3>2, <3>4, EventSets
      <3> QED
        BY <2>8, <3>5, ForgetTypes DEF Crash
    <2>9. ASSUME NEW r \in Relays, NEW e \in Events, OtherClone(r, e) PROVE TypeOK'
      <3>1. global' \in SUBSET Events
        BY <2>0, <2>9, EventSets DEF OtherClone
      <3> QED
        BY <2>9, <3>1 DEF OtherClone, TypeOK, fetch
    <2>10. CASE UNCHANGED vars
      BY <2>10 DEF vars, caches, fetch, TypeOK
    <2> QED
      BY <2>1, <2>2, <2>3, <2>4, <2>5, <2>6, <2>7, <2>8, <2>9, <2>10 DEF Next, FetchStep
  <1> QED
    BY <1>1, <1>2, PTL DEF Spec

-----------------------------------------------------------------------------
(* The cache of the account.                                               *)

\* Events for both caches that are stored in both.
LEMMA BothStores ==
    ASSUME local \in SUBSET Events, global \in SUBSET Events, GlobalKeepsUp,
           NEW es \in SUBSET Events, NEW fs \in SUBSET Events, NEW cut,
           \A e \in ForGlobal(es) : e \in fs \/ e \in cut
    PROVE  \A e \in Kept(local \cup es) \ (torn \cup cut) :
              e.kind \in {"announcement", "profile"} => Covered(e, Kept(global \cup fs))
  <1> SUFFICES ASSUME NEW e \in Kept(local \cup es), e \notin torn \cup cut,
                      e.kind \in {"announcement", "profile"}
               PROVE  Covered(e, Kept(global \cup fs))
    OBVIOUS
  <1>1. e \in local \/ e \in es
    BY DEF Kept
  <1>2. CASE e \in local
    BY <1>2, StoringCovers DEF GlobalKeepsUp
  <1>3. CASE e \in es
    <2>1. e \in fs
      BY <1>3 DEF ForGlobal, OfKind
    <2> QED
      BY <2>1, StoringCovers
  <1> QED
    BY <1>1, <1>2, <1>3

\* process_fetched_events: but for the event at which a fetch was killed, what
\* the clone has of announcements and profiles the account has too, or newer,
\* whatever fetches failed and whatever other clones store.
THEOREM AccountKeepsUp == Spec => []GlobalKeepsUp
  <1>1. Init => GlobalKeepsUp
    BY DEF Init, GlobalKeepsUp
  <1>2. TypeOK /\ GlobalKeepsUp /\ [Next]_vars => GlobalKeepsUp'
    <2> SUFFICES ASSUME TypeOK, GlobalKeepsUp, [Next]_vars PROVE GlobalKeepsUp'
      OBVIOUS
    <2>0. local \in SUBSET Events /\ global \in SUBSET Events /\ torn \in SUBSET Events
      BY DEF TypeOK
    <2>1. CASE Start
      <3>1. PICK us : local' = Kept(local \cup {e \in OfKind("profile", global) : e.author \in us})
        BY <2>1 DEF Start, MakeRequest
      <3> DEFINE copied == {e \in OfKind("profile", global) : e.author \in us}
      <3>2. copied \subseteq global
        BY DEF OfKind
      <3>3. local' = Kept(local \cup copied)
        BY <3>1
      <3> HIDE DEF copied
      <3>4. \A e \in local' : e \in local \/ e \in global
        BY <3>2, <3>3 DEF Kept
      <3>5. torn' = torn /\ global' = global
        BY <2>1 DEF Start
      <3> QED
        BY <3>4, <3>5, StoredCovered DEF GlobalKeepsUp
    <2>2. ASSUME NEW r \in Relays, Answer(r) PROVE GlobalKeepsUp'
      <3> DEFINE es == Matching(asking[r], hosted[r]) \ request.existing
      <3>1. es \in SUBSET Events /\ ForGlobal(es) \in SUBSET Events
        BY SentTypes, EventSets
      <3>2. /\ local' = Kept(local \cup es)
            /\ global' = Kept(global \cup ForGlobal(es))
            /\ torn' = torn
        BY <2>2 DEF Answer
      <3> HIDE DEF es
      <3>3. \A e \in Kept(local \cup es) \ (torn \cup {}) :
               e.kind \in {"announcement", "profile"} =>
                   Covered(e, Kept(global \cup ForGlobal(es)))
        BY <2>0, <3>1, BothStores
      <3> QED
        BY <3>2, <3>3 DEF GlobalKeepsUp
    <2>3. ASSUME NEW r \in Relays, Crash(r) PROVE GlobalKeepsUp'
      <3> DEFINE sent == Matching(asking[r], hosted[r]) \ request.existing
      <3>1. PICK es \in SUBSET sent :
               /\ local' = Kept(local \cup es)
               /\ \E last \in SUBSET es :
                     /\ \A e, f \in last : e = f
                     /\ global' = Kept(global \cup ForGlobal(es \ last))
                     /\ torn' = torn \cup ForGlobal(last)
        BY <2>3 DEF Crash
      <3>2. PICK last \in SUBSET es :
               /\ \A e, f \in last : e = f
               /\ global' = Kept(global \cup ForGlobal(es \ last))
               /\ torn' = torn \cup ForGlobal(last)
        BY <3>1
      <3>3. sent \in SUBSET Events
        BY SentTypes
      <3> HIDE DEF sent
      <3>4. es \in SUBSET Events /\ ForGlobal(es \ last) \in SUBSET Events
        BY <3>3, EventSets
      <3>5. \A e \in ForGlobal(es) : e \in ForGlobal(es \ last) \/ e \in ForGlobal(last)
        BY DEF ForGlobal, OfKind
      <3>6. \A e \in Kept(local \cup es) \ (torn \cup ForGlobal(last)) :
               e.kind \in {"announcement", "profile"} =>
                   Covered(e, Kept(global \cup ForGlobal(es \ last)))
        BY <2>0, <3>4, <3>5, BothStores
      <3> QED
        BY <3>1, <3>2, <3>6 DEF GlobalKeepsUp
    <2>4. ASSUME NEW r \in Relays, NEW e \in Events, OtherClone(r, e) PROVE GlobalKeepsUp'
      <3>1. global' = Kept(global \cup {e}) /\ local' = local /\ torn' = torn
        BY <2>4 DEF OtherClone
      <3>2. \A f \in local : Covered(f, global) => Covered(f, Kept(global \cup {e}))
        BY <2>0, StoringCovers
      <3> QED
        BY <3>1, <3>2 DEF GlobalKeepsUp
    <2>5. CASE StartRound \/ EndRound \/ Finish \/ Return \/ UNCHANGED vars
      BY <2>5 DEF StartRound, EndRound, Finish, Return, vars, caches, GlobalKeepsUp
    <2>6. ASSUME NEW r \in Relays, Fail(r) PROVE GlobalKeepsUp'
      BY <2>6 DEF Fail, caches, GlobalKeepsUp
    <2> QED
      BY <2>1, <2>2, <2>3, <2>4, <2>5, <2>6 DEF Next, FetchStep
  <1> QED
    BY <1>1, <1>2, TypeCorrect, PTL DEF Spec

-----------------------------------------------------------------------------
(* What a relay has still to tell.                                         *)

\* What relay r is asked next, if anything.
Pending(r) == IF r \in round THEN asking[r] ELSE Nothing

\* The maintainers known to the fetch of r, and those it was asked about.
Coordinates(r) == request.coords \cup found[r]
SoFar(r) == Coordinates(r) \ Pending(r).coords

\* All that r has about those it was asked about is cached, whom they name was
\* asked about or will be next, and so were the proposals that came of it.
ToldSoFar(r) ==
    /\ \A e \in hosted[r] : e.kind \in {"announcement", "state"} /\ e.author \in SoFar(r)
          => Covered(e, local)
    /\ \A e \in Announced(hosted[r]) : e.author \in SoFar(r) => Named(e) \subseteq Coordinates(r)
    /\ \A e \in OfKind("root", hosted[r]) : e.about \cap SoFar(r) # {} => Covered(e, local)
    /\ \A e \in OfKind("status", hosted[r]) :
          \/ e.thread \in request.proposals
          \/ \E f \in OfKind("root", hosted[r]) : f.about \cap SoFar(r) # {} /\ f.thread = e.thread
          => e.thread \in Pending(r).roots \/ Covered(e, local)

\* What the request leaves out is cached, and has been followed.
ExistingInv ==
    \A e \in request.existing :
        /\ Covered(e, local)
        /\ e \in Announced(request.existing) => Named(e) \subseteq request.coords
        /\ e.kind = "root" => e.thread \in request.proposals

\* Which relays were asked, and which are.
RoundsInv ==
    /\ pc \in {"idle", "round", "reported"} => round = {}
    /\ pc \in {"idle", "round"} => \A r \in Relays \ processed : found[r] = {}
    /\ pc = "idle" => processed = {} /\ asked = {}
    /\ pc \in {"round", "reported"} => asked \subseteq processed
    /\ pc = "asking" =>
          /\ round \subseteq NewRelays
          /\ asked \subseteq processed \cup repoRelays
          /\ asked \subseteq processed \cup NewRelays
          /\ \A r \in Relays \ (processed \cup NewRelays) : found[r] = {}

FetchInv ==
    /\ RoundsInv
    /\ pc # "idle" => ExistingInv
    /\ pc # "idle" => \A r \in asked \ failed : ToldSoFar(r)

\* With a newer cache, as much was told.
LEMMA ToldStays ==
    ASSUME TypeOK, NEW r \in Relays, ToldSoFar(r),
           \A e \in Events : Covered(e, local) => Covered(e, local'),
           hosted' = hosted, request' = request, found'[r] = found[r],
           Pending(r)' = Pending(r)
    PROVE  ToldSoFar(r)'
  <1>1. SoFar(r)' = SoFar(r) /\ Coordinates(r)' = Coordinates(r)
    BY DEF SoFar, Coordinates
  <1>2. hosted[r] \subseteq Events
    BY DEF TypeOK
  <1>3. \A e \in hosted[r] : Covered(e, local) => Covered(e, local')
    BY <1>2
  <1>4. /\ Announced(hosted[r])' = Announced(hosted[r])
        /\ OfKind("root", hosted[r])' = OfKind("root", hosted[r])
        /\ OfKind("status", hosted[r])' = OfKind("status", hosted[r])
    BY DEF Announced, OfKind
  <1>5. /\ OfKind("root", hosted[r]) \subseteq hosted[r]
        /\ OfKind("status", hosted[r]) \subseteq hosted[r]
    BY DEF OfKind
  <1> DEFINE roots == OfKind("root", hosted[r])
             statuses == OfKind("status", hosted[r])
             announced == Announced(hosted[r])
             pending == Pending(r).roots
  <1>6. (Pending(r).roots)' = pending
    OBVIOUS
  <1> QED
    BY <1>1, <1>3, <1>4, <1>5 DEF ToldSoFar

\* A request: what the clone has is followed already.
LEMMA StartTold ==
    ASSUME TypeOK, RoundsInv, Start
    PROVE  FetchInv'
  <1> DEFINE known == KnownRoots(Maintainers)
             threads == {e.thread : e \in known}
             want(profiles) == [coords |-> Maintainers, roots |-> threads,
                                profiles |-> profiles]
  <1>1. RoundsInv'
    BY DEF Start, RoundsInv
  <1>2. PICK us, profiles :
           /\ local' = Kept(local \cup {e \in OfKind("profile", global) : e.author \in us})
           /\ request'.coords = Maintainers
           /\ request'.proposals = threads
           /\ request'.existing = Matching(want(profiles), local')
    BY DEF Start, MakeRequest
  <1>3. ASSUME NEW e \in request'.existing
        PROVE  /\ Covered(e, local')
               /\ e \in Announced(request'.existing) => Named(e) \subseteq request'.coords
               /\ e.kind = "root" => e.thread \in request'.proposals
    <2>1. /\ e \in local'
          /\ e.kind = "announcement" => e.author \in Maintainers
          /\ e.kind = "root" => e.about \cap Maintainers # {}
      BY <1>2 DEF Matching
    <2>2. e.kind # "profile" => e \in local
      BY <1>2, <2>1 DEF Kept, OfKind
    <2>3. e.kind = "root" => e \in known
      BY <2>1, <2>2 DEF KnownRoots, OfKind
    <2>4. ASSUME e \in Announced(request'.existing) PROVE Named(e) \subseteq Maintainers
      <3>1. e.kind = "announcement" /\ Parses(e)
        BY <2>4 DEF Announced, OfKind
      <3>2. e \in Announced(local \cup global)
        BY <2>2, <3>1 DEF Announced, OfKind
      <3>3. Announced(local \cup global) \in SUBSET Events
        BY EventSets DEF TypeOK
      <3> QED
        BY <2>1, <3>1, <3>2, <3>3, MaintainersClosed DEF Maintainers, ClosedUnder
    <2> QED
      BY <1>2, <2>1, <2>3, <2>4, StoredCovered
  <1>4. ExistingInv'
    BY <1>3 DEF ExistingInv
  <1>5. asked' = {}
    BY DEF Start, RoundsInv
  <1> QED
    BY <1>1, <1>4, <1>5 DEF FetchInv

\* The next round of relays.
LEMMA RoundTold ==
    ASSUME TypeOK, FetchInv, StartRound
    PROVE  FetchInv'
  <1>1. /\ pc = "round" /\ round = {} /\ asked \subseteq processed
        /\ \A r \in Relays \ processed : found[r] = {}
    BY DEF StartRound, FetchInv, RoundsInv
  <1>2. /\ round' = NewRelays /\ NewRelays' = NewRelays /\ processed' = processed
        /\ asked' = asked \cup (NewRelays \cap repoRelays) /\ repoRelays' = repoRelays
        /\ found' = found /\ local' = local /\ request' = request /\ hosted' = hosted
        /\ pc' = "asking" /\ failed' = failed
    BY DEF StartRound, caches, NewRelays
  <1>3. RoundsInv'
    BY <1>1, <1>2 DEF RoundsInv
  <1>4. ExistingInv'
    BY <1>1, <1>2 DEF FetchInv, ExistingInv
  <1>5. ASSUME NEW r \in asked' \ failed' PROVE ToldSoFar(r)'
    <2>0. r \in Relays
      BY <1>2, <1>5 DEF TypeOK, NewRelays
    <2>1. CASE r \in asked
      <3>1. r \notin NewRelays
        BY <1>1, <2>1 DEF NewRelays
      <3>2. Pending(r)' = Nothing /\ Pending(r) = Nothing
        BY <1>1, <1>2, <3>1 DEF Pending, Nothing
      <3>3. ToldSoFar(r)
        BY <1>1, <1>2, <1>5, <2>1 DEF FetchInv
      <3> QED
        BY <1>2, <2>0, <3>2, <3>3, ToldStays
    <2>2. CASE r \in NewRelays \cap repoRelays
      <3>1. found[r] = {}
        BY <1>1, <2>0, <2>2 DEF NewRelays
      <3>2. asking'[r] = [coords |-> request.coords, roots |-> request.proposals,
                          profiles |-> request.missing \cup Me]
        BY <2>0, <2>2 DEF StartRound
      <3>3. /\ Pending(r)'.coords = request.coords
            /\ Pending(r)'.roots = request.proposals
        BY <1>2, <2>2, <3>2 DEF Pending
      <3>4. SoFar(r)' = {}
        BY <1>2, <3>1, <3>3 DEF SoFar, Coordinates
      <3> QED
        BY <1>2, <3>3, <3>4 DEF ToldSoFar
    <2> QED
      BY <1>2, <1>5, <2>1, <2>2
  <1> QED
    BY <1>2, <1>3, <1>4, <1>5 DEF FetchInv

\* What a relay that is asked about the repository answers.
LEMMA AnswerTold ==
    ASSUME TypeOK, FetchInv, NEW r \in Relays, Answer(r), r \in asked \ failed
    PROVE  ToldSoFar(r)'
  <1> DEFINE matched == Matching(asking[r], hosted[r])
             es == matched \ request.existing
             new == NewCoordinates(r, es)
  <1>1. /\ pc = "asking" /\ r \in round
        /\ hosted' = hosted /\ request' = request
        /\ local' = Kept(local \cup es)
        /\ asking' = [asking EXCEPT ![r] = Fresh(r, es)]
        /\ found' = [found EXCEPT ![r] = @ \cup new]
        /\ round' = IF Fresh(r, es) = Nothing THEN round \ {r} ELSE round
    BY DEF Answer
  <1>2. /\ hosted[r] \in SUBSET Events /\ local \in SUBSET Events
        /\ es \in SUBSET Events
    BY SentTypes DEF TypeOK
  <1>3. ExistingInv /\ ToldSoFar(r)
    BY <1>1 DEF FetchInv
  <1>4. Requested(r) = request.coords
    BY <1>1 DEF FetchInv, RoundsInv, NewRelays, Requested
  <1>5. Pending(r) = asking[r]
    BY <1>1 DEF Pending
  <1>6. asking'[r] = Fresh(r, es) /\ found'[r] = found[r] \cup new
    BY <1>1 DEF TypeOK
  <1>7. Pending(r)' = Fresh(r, es)
    BY <1>1, <1>6 DEF Pending
  <1>8. /\ Fresh(r, es).coords = new
        /\ Fresh(r, es).roots = {e.thread : e \in OfKind("root", es)}
    BY DEF Fresh
  <1>9. /\ new \cap Coordinates(r) = {}
        /\ \A e \in Announced(es) : Named(e) \subseteq new \cup Coordinates(r)
    <2> DEFINE named == UNION {Named(e) : e \in Announced(es)}
    <2>1. new = named \ (request.coords \cup found[r])
      BY <1>4 DEF NewCoordinates
    <2>2. \A e \in Announced(es) : Named(e) \subseteq named
      OBVIOUS
    <2>3. Coordinates(r) = request.coords \cup found[r]
      BY DEF Coordinates
    <2> HIDE DEF new, named, es
    <2>4. new \cap Coordinates(r) = {} /\ named \subseteq new \cup Coordinates(r)
      BY <2>1, <2>3
    <2> QED
      BY <2>2, <2>4
  <1>10. Coordinates(r)' = Coordinates(r) \cup new
    BY <1>1, <1>6 DEF Coordinates
  <1>11. SoFar(r)' = Coordinates(r)
    BY <1>7, <1>8, <1>9, <1>10 DEF SoFar
  <1>12. \A u \in Coordinates(r) : u \in SoFar(r) \/ u \in asking[r].coords
    BY <1>5 DEF SoFar
  <1>13. matched \in SUBSET Events
    BY <1>2, EventSets
  <1>14. \A e \in Events : Covered(e, local) => Covered(e, local')
    BY <1>1, <1>2, StoringCovers
  <1>15. ASSUME NEW e \in matched PROVE Covered(e, local')
    <2>1. CASE e \in es
      BY <1>1, <1>2, <2>1, StoringCovers
    <2>2. CASE e \in request.existing
      BY <1>3, <1>13, <1>14, <2>2 DEF ExistingInv
    <2> QED
      BY <2>1, <2>2
  <1>16. \A e \in hosted[r] : Covered(e, local) => Covered(e, local')
    BY <1>2, <1>14
  <1>17. /\ \A e \in hosted[r] : e.kind \in {"announcement", "state"} /\ e.author \in asking[r].coords
               => e \in matched
         /\ \A e \in OfKind("root", hosted[r]) : e.about \cap asking[r].coords # {} => e \in matched
         /\ \A e \in OfKind("status", hosted[r]) : e.thread \in asking[r].roots => e \in matched
    BY DEF Matching, OfKind
  <1>18. \A e \in matched : e \in es \/ e \in request.existing
    OBVIOUS
  <1> HIDE DEF matched, es, new
  <1>19. ASSUME NEW e \in hosted[r], e.kind \in {"announcement", "state"},
                e.author \in Coordinates(r)
         PROVE  Covered(e, local')
    <2>1. CASE e.author \in SoFar(r)
      BY <1>3, <1>16, <1>19, <2>1 DEF ToldSoFar
    <2>2. CASE e.author \in asking[r].coords
      BY <1>15, <1>17, <1>19, <2>2
    <2> QED
      BY <1>12, <1>19, <2>1, <2>2
  <1>20. ASSUME NEW e \in Announced(hosted[r]), e.author \in Coordinates(r)
         PROVE  Named(e) \subseteq Coordinates(r) \cup new
    <2>1. e \in hosted[r] /\ e.kind = "announcement" /\ Parses(e)
      BY DEF Announced, OfKind
    <2>2. CASE e.author \in SoFar(r)
      BY <1>3, <2>2 DEF ToldSoFar
    <2>3. CASE e.author \in asking[r].coords
      <3>1. e \in es \/ e \in request.existing
        BY <1>17, <1>18, <2>1, <2>3
      <3>2. CASE e \in es
        <4>1. e \in Announced(es)
          BY <2>1, <3>2 DEF Announced, OfKind
        <4> QED
          BY <1>9, <4>1
      <3>3. CASE e \in request.existing
        <4>1. e \in Announced(request.existing)
          BY <2>1, <3>3 DEF Announced, OfKind
        <4>2. Named(e) \subseteq request.coords
          BY <1>3, <3>3, <4>1 DEF ExistingInv
        <4> QED
          BY <4>2 DEF Coordinates
      <3> QED
        BY <3>1, <3>2, <3>3
    <2> QED
      BY <1>12, <1>20, <2>2, <2>3
  <1>21. ASSUME NEW e \in OfKind("root", hosted[r]), e.about \cap Coordinates(r) # {}
         PROVE  Covered(e, local')
    <2>1. e \in hosted[r]
      BY DEF OfKind
    <2>2. CASE e.about \cap SoFar(r) # {}
      BY <1>3, <1>16, <2>1, <2>2 DEF ToldSoFar
    <2>3. CASE e.about \cap asking[r].coords # {}
      BY <1>15, <1>17, <2>3
    <2> QED
      BY <1>12, <1>21, <2>2, <2>3
  <1>22. ASSUME NEW e \in OfKind("status", hosted[r]),
                \/ e.thread \in request.proposals
                \/ \E f \in OfKind("root", hosted[r]) :
                       f.about \cap Coordinates(r) # {} /\ f.thread = e.thread
         PROVE  e.thread \in Fresh(r, es).roots \/ Covered(e, local')
    <2>1. e \in hosted[r]
      BY DEF OfKind
    <2>2. CASE \/ e.thread \in request.proposals
               \/ \E f \in OfKind("root", hosted[r]) :
                      f.about \cap SoFar(r) # {} /\ f.thread = e.thread
      <3>1. e.thread \in asking[r].roots \/ Covered(e, local)
        BY <1>3, <1>5, <2>2 DEF ToldSoFar
      <3> QED
        BY <1>15, <1>16, <1>17, <2>1, <3>1
    <2>3. CASE \E f \in OfKind("root", hosted[r]) :
                   f.about \cap asking[r].coords # {} /\ f.thread = e.thread
      <3>1. PICK f \in OfKind("root", hosted[r]) :
                f.about \cap asking[r].coords # {} /\ f.thread = e.thread
        BY <2>3
      <3>2. f.kind = "root" /\ (f \in es \/ f \in request.existing)
        BY <1>17, <1>18, <3>1 DEF OfKind
      <3>3. CASE f \in es
        <4>1. f \in OfKind("root", es)
          BY <3>2, <3>3 DEF OfKind
        <4> QED
          BY <1>8, <3>1, <4>1
      <3>4. CASE f \in request.existing
        <4>1. e.thread \in request.proposals
          BY <1>3, <3>1, <3>2, <3>4 DEF ExistingInv
        <4> QED
          BY <2>2, <4>1
      <3> QED
        BY <3>2, <3>3, <3>4
    <2> QED
      BY <1>12, <1>22, <2>2, <2>3
  <1>23. /\ Announced(hosted[r])' = Announced(hosted[r])
         /\ OfKind("root", hosted[r])' = OfKind("root", hosted[r])
         /\ OfKind("status", hosted[r])' = OfKind("status", hosted[r])
    BY <1>1 DEF Announced, OfKind
  <1>24. Pending(r)'.roots = Fresh(r, es).roots
    BY <1>7
  <1> QED
    BY <1>1, <1>10, <1>11, <1>19, <1>20, <1>21, <1>22, <1>23, <1>24 DEF ToldSoFar

\* One relay answers.
LEMMA AnswerKeeps ==
    ASSUME TypeOK, FetchInv, NEW r \in Relays, Answer(r)
    PROVE  FetchInv'
  <1> DEFINE es == Matching(asking[r], hosted[r]) \ request.existing
  <1>1. /\ pc = "asking" /\ r \in round
        /\ local' = Kept(local \cup es)
        /\ asking' = [asking EXCEPT ![r] = Fresh(r, es)]
        /\ found' = [found EXCEPT ![r] = @ \cup NewCoordinates(r, es)]
        /\ round' = IF Fresh(r, es) = Nothing THEN round \ {r} ELSE round
        /\ UNCHANGED <<hosted, torn, pc, request, repoRelays, userRelays, processed, asked,
                       failed>>
    BY DEF Answer
  <1>2. es \in SUBSET Events /\ local \in SUBSET Events
    BY SentTypes DEF TypeOK
  <1> HIDE DEF es
  <1>3. \A e \in Events : Covered(e, local) => Covered(e, local')
    BY <1>1, <1>2, StoringCovers
  <1>4. RoundsInv'
    <2>1. NewRelays' = NewRelays
      BY <1>1 DEF NewRelays
    <2>2. \A g \in Relays : g # r => found'[g] = found[g]
      BY <1>1 DEF TypeOK
    <2>3. r \in NewRelays
      BY <1>1 DEF FetchInv, RoundsInv
    <2> QED
      BY <1>1, <2>1, <2>2, <2>3 DEF FetchInv, RoundsInv
  <1>5. ExistingInv'
    <2>1. \A e \in request.existing : e \in Events
      BY DEF TypeOK, Request
    <2> QED
      BY <1>1, <1>3, <2>1 DEF FetchInv, ExistingInv, Announced, OfKind
  <1>6. ASSUME NEW g \in asked \ failed PROVE ToldSoFar(g)'
    <2>1. CASE g = r
      BY <2>1, AnswerTold
    <2>2. CASE g # r
      <3>1. g \in Relays
        BY DEF TypeOK
      <3>2. found'[g] = found[g] /\ Pending(g)' = Pending(g)
        BY <1>1, <2>2, <3>1 DEF Pending, TypeOK
      <3>3. ToldSoFar(g)
        BY <1>1 DEF FetchInv
      <3> QED
        BY <1>1, <1>3, <3>1, <3>2, <3>3, ToldStays
    <2> QED
      BY <2>1, <2>2
  <1> QED
    BY <1>1, <1>4, <1>5, <1>6 DEF FetchInv

\* One relay fails.
LEMMA FailKeeps ==
    ASSUME TypeOK, FetchInv, NEW r \in Relays, Fail(r)
    PROVE  FetchInv'
  <1>1. /\ pc = "asking" /\ r \in round /\ round' = round \ {r} /\ failed' = failed \cup {r}
        /\ found' = [found EXCEPT ![r] = {}]
        /\ UNCHANGED <<hosted, local, pc, request, repoRelays, userRelays, processed,
                       asking, asked>>
    BY DEF Fail, caches
  <1>2. \A g \in Relays : found'[g] = IF g = r THEN {} ELSE found[g]
    BY <1>1 DEF TypeOK
  <1>3. RoundsInv'
    <2>1. NewRelays' = NewRelays
      BY <1>1 DEF NewRelays
    <2> QED
      BY <1>1, <1>2, <2>1 DEF FetchInv, RoundsInv
  <1>4. ExistingInv'
    BY <1>1 DEF FetchInv, ExistingInv, Announced, OfKind
  <1>5. ASSUME NEW g \in asked \ failed, g # r PROVE ToldSoFar(g)'
    <2>1. g \in Relays
      BY DEF TypeOK
    <2>2. found'[g] = found[g] /\ Pending(g)' = Pending(g)
      BY <1>1, <1>2, <1>5, <2>1 DEF Pending
    <2>3. ToldSoFar(g)
      BY <1>1 DEF FetchInv
    <2> QED
      BY <1>1, <2>1, <2>2, <2>3, ToldStays
  <1> QED
    BY <1>1, <1>3, <1>4, <1>5 DEF FetchInv

\* A round or a fetch ends, or another clone stores something.
LEMMA EndKeeps ==
    ASSUME TypeOK, FetchInv,
           \/ EndRound \/ Finish \/ UNCHANGED vars
           \/ \E r \in Relays, e \in Events : OtherClone(r, e)
    PROVE  FetchInv'
  <1>1. /\ UNCHANGED <<hosted, local, request, round, asking, found, asked, failed>>
        /\ \/ EndRound
           \/ Finish
           \/ UNCHANGED <<pc, repoRelays, userRelays, processed>>
    BY DEF EndRound, Finish, OtherClone, vars, caches, fetch
  <1>2. RoundsInv'
    <2>1. CASE EndRound
      BY <1>1, <2>1 DEF EndRound, FetchInv, RoundsInv
    <2>2. CASE Finish
      BY <1>1, <2>2 DEF Finish, fetch, FetchInv, RoundsInv
    <2>3. CASE UNCHANGED <<pc, repoRelays, userRelays, processed>>
      <3>1. NewRelays' = NewRelays
        BY <2>3 DEF NewRelays
      <3> QED
        BY <1>1, <2>3, <3>1 DEF FetchInv, RoundsInv
    <2> QED
      BY <1>1, <2>1, <2>2, <2>3
  <1>3. pc = "idle" <=> pc' = "idle"
    BY <1>1 DEF EndRound, Finish
  <1>4. pc' # "idle" => ExistingInv'
    BY <1>1, <1>3 DEF FetchInv, ExistingInv, Announced, OfKind
  <1>5. ASSUME pc' # "idle", NEW g \in asked \ failed PROVE ToldSoFar(g)'
    <2>1. g \in Relays
      BY DEF TypeOK
    <2>2. found'[g] = found[g] /\ Pending(g)' = Pending(g)
      BY <1>1 DEF Pending
    <2>3. ToldSoFar(g)
      BY <1>3, <1>5 DEF FetchInv
    <2> QED
      BY <1>1, <2>1, <2>2, <2>3, ToldStays
  <1> QED
    BY <1>1, <1>2, <1>4, <1>5 DEF FetchInv

\* A fetch is over, or the process is killed.
LEMMA ForgetKeeps ==
    ASSUME Forget
    PROVE  FetchInv'
  BY DEF Forget, FetchInv, RoundsInv

\* fetch_all_from_relay: whatever relays hold, however answers interleave, and
\* whatever failed, was interrupted or was stored by other clones before, a
\* relay that was asked about the repository and answered has nothing left to
\* tell when the fetch ends.
THEOREM NothingLeft == Spec => []RelayExhausted
  <1>1. Init => FetchInv
    BY DEF Init, FetchInv, RoundsInv
  <1>2. TypeOK /\ FetchInv /\ [Next]_vars => FetchInv'
    <2> SUFFICES ASSUME TypeOK, FetchInv, [Next]_vars PROVE FetchInv'
      OBVIOUS
    <2>1. CASE Start
      BY <2>1, StartTold DEF FetchInv
    <2>2. CASE Return \/ \E r \in Relays : Crash(r)
      BY <2>2, ForgetKeeps DEF Return, Crash
    <2> QED
      BY <2>1, <2>2, RoundTold, AnswerKeeps, FailKeeps, EndKeeps DEF Next, FetchStep
  <1>3. TypeOK /\ FetchInv => RelayExhausted
    <2> SUFFICES ASSUME TypeOK, FetchInv, pc = "reported",
                        NEW r \in asked \ failed, NEW e \in Relevant(r)
                 PROVE  Covered(e, local)
      BY DEF RelayExhausted
    <2>1. ToldSoFar(r) /\ Pending(r) = Nothing
      BY DEF FetchInv, RoundsInv, Pending
    <2>2. SoFar(r) = Coordinates(r) /\ Pending(r).roots = {}
      BY <2>1 DEF SoFar, Nothing
    <2>3. Reach(r) \subseteq Coordinates(r)
      <3>1. Coordinates(r) \in SUBSET Users
        <4>1. r \in Relays
          BY DEF TypeOK
        <4> QED
          BY <4>1 DEF TypeOK, Request, Coordinates
      <3>2. ClosedUnder(Coordinates(r), Announced(hosted[r]))
        BY <2>1, <2>2 DEF ToldSoFar, ClosedUnder
      <3> QED
        BY <3>1, <3>2 DEF Reach, Coordinates
    <2> DEFINE roots == {f \in OfKind("root", hosted[r]) : f.about \cap Reach(r) # {}}
               threads == request.proposals \cup {f.thread : f \in roots}
    <2>4. Relevant(r) = Matching([coords |-> Reach(r), roots |-> threads, profiles |-> {}],
                                 hosted[r])
      BY DEF Relevant
    <2>5. /\ e \in hosted[r]
          /\ \/ e.kind \in {"announcement", "state"} /\ e.author \in Reach(r)
             \/ e.kind = "root" /\ e.about \cap Reach(r) # {}
             \/ e.kind = "status" /\ e.thread \in threads
      BY <2>4 DEF Matching
    <2>6. CASE e.kind \in {"announcement", "state"} /\ e.author \in Reach(r)
      BY <2>1, <2>2, <2>3, <2>5, <2>6 DEF ToldSoFar
    <2>7. CASE e.kind = "root" /\ e.about \cap Reach(r) # {}
      BY <2>1, <2>2, <2>3, <2>5, <2>7 DEF ToldSoFar, OfKind
    <2>8. CASE e.kind = "status" /\ e.thread \in threads
      <3>1. e \in OfKind("status", hosted[r])
        BY <2>5, <2>8 DEF OfKind
      <3>2. \/ e.thread \in request.proposals
            \/ \E f \in OfKind("root", hosted[r]) :
                   f.about \cap SoFar(r) # {} /\ f.thread = e.thread
        BY <2>2, <2>3, <2>8
      <3> QED
        BY <2>1, <2>2, <3>1, <3>2 DEF ToldSoFar
    <2> QED
      BY <2>5, <2>6, <2>7, <2>8
  <1> QED
    BY <1>1, <1>2, <1>3, TypeCorrect, PTL DEF Spec

-----------------------------------------------------------------------------
(* The relays of the repository.                                           *)

\* A store keeps all that it holds.
LEMMA KeptTwice ==
    ASSUME NEW es
    PROVE  Kept(Kept(es)) = Kept(es)
  BY DEF Kept

\* The repository is read from the announcements alone.
LEMMA SameRepository ==
    ASSUME OfKind("announcement", local') = OfKind("announcement", local),
           OfKind("announcement", global') = OfKind("announcement", global)
    PROVE  RepoEvents' = RepoEvents
  <1>1. Announced(local \cup global)' = Announced(local \cup global)
    <2>1. \A es, fs : OfKind("announcement", es \cup fs)
                      = OfKind("announcement", es) \cup OfKind("announcement", fs)
      BY DEF OfKind
    <2> QED
      BY <2>1 DEF Announced
  <1> QED
    BY <1>1 DEF RepoEvents, Maintainers

StoresKept == local = Kept(local) /\ global = Kept(global)

\* The invariant: a relay is processed after it was asked or as one of the
\* account, and between rounds the relays are those that the repository names.
AskedInv ==
    /\ StoresKept
    /\ userRelays \subseteq OwnRelays
    /\ processed \subseteq asked \cup OwnRelays
    /\ pc = "asking" => NewRelays \cap repoRelays \subseteq asked
    /\ pc = "reported" => NewRelays = {}
    /\ pc \in {"round", "reported"} /\ torn = {} /\ CacheHasAll =>
            ListedBy(Oldest(RepoEvents)) \subseteq repoRelays

\* What another clone stores is news to this clone, or nothing changes.
LEMMA NewsFromOthers ==
    ASSUME TypeOK, GlobalKeepsUp, StoresKept, torn = {}, NEW e \in Events,
           global' = Kept(global \cup {e}), local' = local, CacheHasAll'
    PROVE  /\ OfKind("announcement", global') = OfKind("announcement", global)
           /\ CacheHasAll
  <1> DEFINE Newer(f, g) == SameAddress(f, g) /\ g.at > f.at
  <1>1. \A f, g, h \in Events : Newer(f, g) /\ Newer(g, h) => Newer(f, h)
    BY FetchAllAssumption DEF SameAddress, Event
  <1>2. local \in SUBSET Events /\ global \in SUBSET Events
    BY DEF TypeOK
  <1>3. CASE e \in global
    <2>1. global \cup {e} = global
      BY <1>3
    <2> QED
      BY <2>1 DEF StoresKept, CacheHasAll
  <1>4. CASE \E g \in global : Newer(e, g)
    <2>1. \A f \in global \cup {e} : f \in Kept(global \cup {e}) <=> f \in Kept(global)
      <3> SUFFICES ASSUME NEW f \in global \cup {e}
                   PROVE  f \in Kept(global \cup {e}) <=> f \in Kept(global)
        OBVIOUS
      <3>1. CASE \E g \in global : Newer(f, g)
        BY <3>1 DEF Kept
      <3>2. CASE ~\E g \in global : Newer(f, g)
        <4>1. f # e /\ f \in global
          BY <1>4, <3>2
        <4>2. ~Newer(f, e)
          BY <1>1, <1>2, <1>4, <3>2, <4>1
        <4> QED
          BY <3>2, <4>1, <4>2 DEF Kept
      <3> QED
        BY <3>1, <3>2
    <2>2. global' = global
      BY <2>1 DEF StoresKept, Kept
    <2> QED
      BY <2>2 DEF CacheHasAll
  <1>5. CASE e \notin global /\ ~\E g \in global : Newer(e, g)
    <2>1. e \in global'
      BY <1>2, <1>5, FetchAllAssumption DEF Kept, Event
    <2>2. e.kind # "announcement"
      <3> SUFFICES ASSUME e.kind = "announcement" PROVE FALSE
        OBVIOUS
      <3>1. Covered(e, local)
        BY <2>1 DEF CacheHasAll, OfKind
      <3>2. PICK l \in local : l = e \/ Newer(e, l)
        BY <3>1 DEF Covered
      <3>3. l.kind = "announcement"
        BY <3>2 DEF SameAddress
      <3>4. Covered(l, global)
        BY <3>3 DEF GlobalKeepsUp
      <3>5. l \in global \/ \E g \in global : Newer(l, g)
        BY <3>4 DEF Covered
      <3> QED
        BY <1>1, <1>2, <1>5, <3>2, <3>5
    <2>3. OfKind("announcement", global') = OfKind("announcement", global)
      <3>1. \A f \in global : f.kind = "announcement" => f \in global'
        BY <2>2 DEF Kept, SameAddress, StoresKept
      <3>2. \A f \in global' : f.kind = "announcement" => f \in global
        BY <2>2 DEF Kept
      <3> QED
        BY <3>1, <3>2 DEF OfKind
    <2> QED
      BY <2>3 DEF CacheHasAll
  <1> QED
    BY <1>3, <1>4, <1>5

\* No step leaves out a relay of the repository.
LEMMA NextAsked == TypeOK /\ GlobalKeepsUp /\ AskedInv /\ [Next]_vars => AskedInv'
  <1> SUFFICES ASSUME TypeOK, GlobalKeepsUp, AskedInv, [Next]_vars PROVE AskedInv'
    OBVIOUS
  <1>0. local \in SUBSET Events /\ global \in SUBSET Events
    BY DEF TypeOK
  <1>1. CASE Start
    <2>1. PICK us : local' = Kept(local \cup {e \in OfKind("profile", global) : e.author \in us})
      BY <1>1 DEF Start, MakeRequest
    <2> DEFINE copied == {e \in OfKind("profile", global) : e.author \in us}
    <2>2. OfKind("announcement", local') = OfKind("announcement", local)
      <3>1. \A e \in copied : e.kind = "profile"
        BY DEF OfKind
      <3>2. local' = Kept(local \cup copied)
        BY <2>1
      <3> HIDE DEF copied
      <3>3. \A e \in local : e.kind = "announcement" => e \in local'
        BY <3>1, <3>2 DEF Kept, SameAddress, AskedInv, StoresKept
      <3>4. \A e \in local' : e.kind = "announcement" => e \in local
        BY <3>1, <3>2 DEF Kept
      <3> QED
        BY <3>3, <3>4 DEF OfKind
    <2>3. global' = global /\ pc' = "round" /\ processed' = processed /\ asked' = asked
      BY <1>1 DEF Start
    <2>4. RepoEvents' = RepoEvents
      BY <2>2, <2>3, SameRepository
    <2>5. ListedBy(Oldest(RepoEvents)) \subseteq repoRelays'
      BY <1>1 DEF Start
    <2>6. userRelays' \subseteq OwnRelays
      BY <1>0, <1>1 DEF Start, WriteRelays, OwnRelays, ListedBy, OfKind
    <2>7. StoresKept'
      BY <2>1, <2>3, KeptTwice DEF AskedInv, StoresKept
    <2> QED
      BY <2>3, <2>4, <2>5, <2>6, <2>7 DEF AskedInv
  <1>2. CASE StartRound
    <2>1. /\ UNCHANGED <<local, global, repoRelays, userRelays, processed>>
          /\ pc' = "asking" /\ asked' = asked \cup (NewRelays \cap repoRelays)
      BY <1>2 DEF StartRound, caches
    <2>2. NewRelays' = NewRelays
      BY <2>1 DEF NewRelays
    <2> QED
      BY <2>1, <2>2 DEF AskedInv, StoresKept
  <1>3. ASSUME NEW r \in Relays, Answer(r) PROVE AskedInv'
    <2>1. PICK es : local' = Kept(local \cup es) /\ global' = Kept(global \cup ForGlobal(es))
      BY <1>3 DEF Answer
    <2>2. UNCHANGED <<pc, repoRelays, userRelays, processed, asked>> /\ pc = "asking"
      BY <1>3 DEF Answer
    <2>3. StoresKept' /\ NewRelays' = NewRelays
      BY <2>1, <2>2, KeptTwice DEF StoresKept, NewRelays
    <2> QED
      BY <2>2, <2>3 DEF AskedInv
  <1>4. ASSUME NEW r \in Relays, Fail(r) PROVE AskedInv'
    <2>1. UNCHANGED <<pc, local, global, repoRelays, userRelays, processed, asked>> /\ pc = "asking"
      BY <1>4 DEF Fail, caches
    <2>2. NewRelays' = NewRelays
      BY <2>1 DEF NewRelays
    <2> QED
      BY <2>1, <2>2 DEF AskedInv, StoresKept
  <1>5. CASE EndRound
    <2>1. /\ pc = "asking" /\ pc' = "round" /\ processed' = processed \cup NewRelays
          /\ repoRelays' = RelaysNow /\ userRelays' = WriteRelays
          /\ UNCHANGED <<local, global, torn, asked>>
      BY <1>5 DEF EndRound, caches
    <2>2. processed' \subseteq asked \cup OwnRelays
      BY <2>1 DEF AskedInv, NewRelays
    <2>3. userRelays' \subseteq OwnRelays
      BY <1>0, <2>1 DEF WriteRelays, OwnRelays, ListedBy, OfKind
    <2>4. RepoEvents' = RepoEvents
      BY <2>1, SameRepository
    <2>5. ListedBy(Oldest(RepoEvents)) \subseteq repoRelays'
      BY <2>1 DEF RelaysNow, Oldest, ListedBy
    <2> QED
      BY <2>1, <2>2, <2>3, <2>4, <2>5 DEF AskedInv, StoresKept
  <1>6. CASE Finish
    <2>1. UNCHANGED <<local, global, torn, repoRelays, userRelays, processed, asked>>
      BY <1>6 DEF Finish, caches, fetch
    <2>2. NewRelays = {} /\ pc = "round" /\ pc' = "reported"
      BY <1>6 DEF Finish
    <2>3. NewRelays' = NewRelays /\ RepoEvents' = RepoEvents /\ CacheHasAll' = CacheHasAll
      BY <2>1, SameRepository DEF NewRelays, CacheHasAll
    <2> QED
      BY <2>1, <2>2, <2>3 DEF AskedInv, StoresKept
  <1>7. CASE Return \/ \E r \in Relays : Crash(r)
    <2>1. Forget
      BY <1>7 DEF Return, Crash
    <2>2. StoresKept'
      <3>1. CASE Return
        BY <3>1 DEF Return, caches, AskedInv, StoresKept
      <3>2. ASSUME NEW r \in Relays, Crash(r) PROVE StoresKept'
        <4>1. \E es, fs : local' = Kept(local \cup es) /\ global' = Kept(global \cup fs)
          BY <3>2 DEF Crash
        <4> QED
          BY <4>1, KeptTwice DEF StoresKept
      <3> QED
        BY <1>7, <3>1, <3>2
    <2> QED
      BY <2>1, <2>2 DEF Forget, AskedInv
  <1>8. ASSUME NEW r \in Relays, NEW e \in Events, OtherClone(r, e) PROVE AskedInv'
    <2>1. /\ UNCHANGED <<local, torn, pc, repoRelays, userRelays, processed, asked>>
          /\ global' = Kept(global \cup {e})
      BY <1>8 DEF OtherClone, fetch
    <2>2. StoresKept' /\ NewRelays' = NewRelays
      BY <2>1, KeptTwice DEF AskedInv, StoresKept, NewRelays
    <2>3. ASSUME pc' \in {"round", "reported"}, torn' = {}, CacheHasAll'
          PROVE  ListedBy(Oldest(RepoEvents))' \subseteq repoRelays'
      <3>1. OfKind("announcement", global') = OfKind("announcement", global) /\ CacheHasAll
        BY <2>1, <2>3, NewsFromOthers DEF AskedInv
      <3>2. RepoEvents' = RepoEvents
        BY <2>1, <3>1, SameRepository
      <3> QED
        BY <2>1, <2>3, <3>1, <3>2 DEF AskedInv
    <2> QED
      BY <2>1, <2>2, <2>3 DEF AskedInv
  <1>9. CASE UNCHANGED vars
    <2>1. UNCHANGED <<local, global, torn, pc, repoRelays, userRelays, processed, asked>>
      BY <1>9 DEF vars, caches, fetch
    <2>2. NewRelays' = NewRelays /\ RepoEvents' = RepoEvents /\ CacheHasAll' = CacheHasAll
      BY <2>1, SameRepository DEF NewRelays, CacheHasAll
    <2> QED
      BY <2>1, <2>2 DEF AskedInv, StoresKept
  <1> QED
    BY <1>1, <1>2, <1>3, <1>4, <1>5, <1>6, <1>7, <1>8, <1>9 DEF Next, FetchStep

\* fetch_all: whatever answers name, when a fetch ends each relay of the
\* repository was asked about it, unless it is one of the account.
THEOREM RelaysAsked == Spec => []RepoRelaysAsked
  <1>1. Init => AskedInv
    BY DEF Init, AskedInv, StoresKept, Kept
  <1>2. AskedInv => RepoRelaysAsked
    BY DEF AskedInv, RepoRelaysAsked, NewRelays
  <1> QED
    BY <1>1, <1>2, NextAsked, TypeCorrect, AccountKeepsUp, PTL DEF Spec

-----------------------------------------------------------------------------
(* get_repo_ref_from_cache.                                                *)

\* An author's announcement is filed under that author.
OwnAnnouncements ==
    \A u \in Users : /\ globalCache[u] # NoAnn => globalCache[u].author = u
                     /\ localCache[u] # NoAnn => localCache[u].author = u

\* An iteration reads what maintainers announced.
ReadOfMaintainers ==
    /\ \A e \in read : e.author \in maintainers
    /\ finding # "local" => read = {}

FoundInv == FindTypeOK /\ OwnAnnouncements /\ ReadOfMaintainers /\ OnlyNamed

\* The loop between its start and its end, with caches that stay.
RunsOnCache ==
    /\ finding # "idle" => Trusted \in maintainers
    /\ finding = "local" => read = By(globalCache, maintainers)
    /\ \A e \in repoEvents : e \in Cached /\ e.author \in maintainers
    /\ finding = "none" => repoEvents = {}

\* The loop at its end.
StopsClosed ==
    finding \in {"found", "none"} =>
        /\ ClosedUnder(maintainers, Cached)
        /\ \A e \in Cached : e.author \in maintainers => e \in repoEvents

CompleteInv ==
    /\ finding = "idle" => repoEvents = {}
    /\ ~changed => RunsOnCache /\ StopsClosed

-----------------------------------------------------------------------------
(* The named, as a function of the announcements.                          *)

\* The trusted maintainer is named whatever is announced.
LEMMA TrustedNamed == \A es : Trusted \in NamedFrom(es)
  BY TrustedAssumption DEF NamedFrom

\* More announcements name no fewer accounts.
LEMMA NamedMonotone ==
    ASSUME NEW es, NEW fs, es \subseteq fs
    PROVE  NamedFrom(es) \subseteq NamedFrom(fs)
  BY DEF NamedFrom, ClosedUnder

\* Whoever is in no closed set but the given one is in that one.
LEMMA NamedWithin ==
    ASSUME NEW es, NEW us \in SUBSET Users, Trusted \in us, ClosedUnder(us, es)
    PROVE  NamedFrom(es) \subseteq us
  BY DEF NamedFrom

\* Whom the announcements of the named name is named.
LEMMA NamedByNamed ==
    ASSUME NEW es \in SUBSET Announcement, NEW e \in es, Parses(e), e.author \in NamedFrom(es)
    PROVE  Named(e) \subseteq NamedFrom(es)
  <1>1. SUFFICES ASSUME NEW u \in Named(e)
                 PROVE  u \in NamedFrom(es)
    OBVIOUS
  <1>2. u \in Users
    BY <1>1 DEF Named, Announcement, Content
  <1>3. ASSUME NEW us \in SUBSET Users, Trusted \in us, ClosedUnder(us, es)
        PROVE  u \in us
    <2>1. e.author \in us
      BY <1>3 DEF NamedFrom
    <2> QED
      BY <1>1, <1>3, <2>1 DEF ClosedUnder
  <1> QED
    BY <1>2, <1>3 DEF NamedFrom

-----------------------------------------------------------------------------
(* Types, and nobody who is not named.                                     *)

\* What a store holds by some accounts are announcements.
LEMMA ByType ==
    ASSUME NEW store \in Store, NEW us \in SUBSET Users
    PROVE  By(store, us) \subseteq Announcement
  BY DEF By, Store

\* What an iteration takes: announcements of maintainers that can be read.
LEMMA IterationReads ==
    ASSUME FoundInv
    PROVE  LET es == Valid(read \cup By(localCache, maintainers))
           IN  /\ es \subseteq Announcement
               /\ NamedIn(es) \subseteq Users
               /\ \A e \in es : Parses(e) /\ e.author \in maintainers
  <1> DEFINE es == Valid(read \cup By(localCache, maintainers))
  <1>1. By(localCache, maintainers) \subseteq Announcement
    BY ByType DEF FoundInv, FindTypeOK
  <1>2. es \subseteq Announcement
    BY <1>1 DEF Valid, FoundInv, FindTypeOK
  <1>3. NamedIn(es) \subseteq Users
    BY <1>2 DEF NamedIn, Named, Announcement, Content
  <1>4. \A e \in es : Parses(e) /\ e.author \in maintainers
    BY DEF Valid, By, FoundInv, OwnAnnouncements, ReadOfMaintainers, FindTypeOK
  <1> QED
    BY <1>2, <1>3, <1>4

\* Nobody is found at the start.
LEMMA FoundInit == FindInit => FoundInv
  <1>1. FindInit => FindTypeOK
    <2>1. FindInit => globalCache \in Store /\ localCache \in Store
      BY DEF FindInit, Store
    <2>2. FindInit => changed \in BOOLEAN
      BY DEF FindInit
    <2> QED
      BY <2>1, <2>2 DEF FindInit, FindTypeOK
  <1>2. FindInit => OwnAnnouncements /\ ReadOfMaintainers /\ OnlyNamed
    BY DEF FindInit, OwnAnnouncements, ReadOfMaintainers, OnlyNamed
  <1> QED
    BY <1>1, <1>2 DEF FoundInv

\* An announcement that arrives names no fewer.
LEMMA FoundStored ==
    ASSUME FoundInv, NEW u \in Users, NEW content \in Contents, NEW into \in Places,
           Stored(u, content, into)
    PROVE  FoundInv'
  <1> DEFINE e == [author |-> u, at |-> at + 1, says |-> content]
  <1>1. e \in Announcement /\ e.author = u
    BY RepoRefAssumption DEF Announcement, FoundInv, FindTypeOK
  <1>2. /\ globalCache' = IF "global" \in into THEN [globalCache EXCEPT ![u] = e] ELSE globalCache
        /\ localCache' = IF "local" \in into THEN [localCache EXCEPT ![u] = e] ELSE localCache
        /\ at' = at + 1
        /\ changed' = TRUE
        /\ UNCHANGED <<finding, maintainers, read, repoEvents, base>>
    BY DEF Stored
  <1> HIDE DEF e
  <1>3. FindTypeOK'
    BY <1>1, <1>2 DEF FoundInv, FindTypeOK, Store
  <1>4. OwnAnnouncements'
    BY <1>1, <1>2 DEF FoundInv, OwnAnnouncements, FindTypeOK, Store
  <1>5. ReadOfMaintainers' /\ OnlyNamed'
    BY <1>2 DEF FoundInv, ReadOfMaintainers, OnlyNamed
  <1> QED
    BY <1>3, <1>4, <1>5 DEF FoundInv

\* Who is found in the cache of the clone is named.
LEMMA FoundReadLocal ==
    ASSUME FoundInv, ReadLocal
    PROVE  FoundInv'
  <1> DEFINE es == Valid(read \cup By(localCache, maintainers))
  <1>1. /\ maintainers' = maintainers \cup NamedIn(es)
        /\ repoEvents' = repoEvents \cup es
        /\ finding' \in {"global", "found", "none"}
        /\ base' = base \/ base' \in Oldest(repoEvents')
        /\ read' = {}
        /\ UNCHANGED <<stores, changed>>
    BY DEF ReadLocal
  <1>2. /\ es \subseteq Announcement
        /\ NamedIn(es) \subseteq Users
        /\ \A e \in es : Parses(e) /\ e.author \in maintainers
    BY IterationReads
  <1> HIDE DEF es
  <1>3. repoEvents' \subseteq Announcement
    BY <1>1, <1>2 DEF FoundInv, FindTypeOK
  <1>4. base' \in Announcement \cup {NoAnn}
    BY <1>1, <1>3 DEF FoundInv, FindTypeOK, Oldest
  <1>5. FindTypeOK'
    BY <1>1, <1>2, <1>3, <1>4 DEF FoundInv, FindTypeOK, stores
  <1>6. OwnAnnouncements' /\ ReadOfMaintainers'
    BY <1>1 DEF FoundInv, OwnAnnouncements, ReadOfMaintainers, stores
  <1>7. maintainers \subseteq NamedFrom(repoEvents')
    BY <1>1, NamedMonotone DEF FoundInv, OnlyNamed
  <1>8. NamedIn(es) \subseteq NamedFrom(repoEvents')
    <2>1. SUFFICES ASSUME NEW e \in es
                   PROVE  Named(e) \subseteq NamedFrom(repoEvents')
      BY DEF NamedIn
    <2>2. e \in repoEvents' /\ Parses(e) /\ e.author \in NamedFrom(repoEvents')
      BY <1>1, <1>2, <1>7, <2>1
    <2> QED
      BY <1>3, <2>2, NamedByNamed
  <1>9. OnlyNamed'
    BY <1>1, <1>7, <1>8 DEF OnlyNamed
  <1> QED
    BY <1>5, <1>6, <1>9 DEF FoundInv

\* No step finds somebody who is not named.
LEMMA FoundStep ==
    ASSUME FoundInv, [FindNext]_findVars
    PROVE  FoundInv'
  <1>1. CASE \E u \in Users, content \in Contents, into \in Places :
               Stored(u, content, into)
    BY <1>1, FoundStored
  <1>2. CASE StartFinding
    <2>1. FindTypeOK'
      BY <1>2, TrustedAssumption DEF StartFinding, FoundInv, FindTypeOK, stores
    <2>2. OwnAnnouncements'
      BY <1>2 DEF StartFinding, FoundInv, OwnAnnouncements, stores
    <2>3. OnlyNamed'
      BY <1>2, TrustedNamed DEF StartFinding, OnlyNamed
    <2>4. ReadOfMaintainers'
      BY <1>2 DEF StartFinding, FoundInv, ReadOfMaintainers
    <2> QED
      BY <2>1, <2>2, <2>3, <2>4 DEF FoundInv
  <1>3. CASE ReadGlobal
    <2>1. By(globalCache, maintainers) \subseteq Announcement
      BY ByType DEF FoundInv, FindTypeOK
    <2>2. \A e \in By(globalCache, maintainers) : e.author \in maintainers
      BY DEF By, FoundInv, OwnAnnouncements, FindTypeOK
    <2> QED
      BY <1>3, <2>1, <2>2
      DEF ReadGlobal, FoundInv, FindTypeOK, OwnAnnouncements, ReadOfMaintainers, OnlyNamed, stores
  <1>4. CASE ReadLocal
    BY <1>4, FoundReadLocal
  <1>5. CASE ReturnFound
    BY <1>5 DEF ReturnFound, FoundInv, FindTypeOK, OwnAnnouncements, ReadOfMaintainers, OnlyNamed, stores
  <1>6. CASE UNCHANGED findVars
    BY <1>6 DEF findVars, stores, FoundInv, FindTypeOK, OwnAnnouncements, ReadOfMaintainers, OnlyNamed
  <1> QED
    BY <1>1, <1>2, <1>3, <1>4, <1>5, <1>6 DEF FindNext

\* Whatever other processes store, the caches, the maintainers and what was
\* read keep their types.
THEOREM FindTypeCorrect == FindSpec => []FindTypeOK
  <1>1. FoundInv => FindTypeOK
    BY DEF FoundInv
  <1> QED
    BY FoundInit, FoundStep, <1>1, PTL DEF FindSpec

\* get_repo_ref_from_cache: whatever is stored while it runs, it takes nobody
\* for a maintainer whom no chain of announcements it read names.
THEOREM NobodyUnnamed == FindSpec => []OnlyNamed
  <1>1. FoundInv => OnlyNamed
    BY DEF FoundInv
  <1> QED
    BY FoundInit, FoundStep, <1>1, PTL DEF FindSpec

-----------------------------------------------------------------------------
(* Everybody who is named, with caches that stay.                          *)

\* What a store holds of an author, the cached announcements hold.
LEMMA CachedOf ==
    ASSUME FoundInv, NEW us \in SUBSET Users
    PROVE  Valid(By(globalCache, us) \cup By(localCache, us)) =
             {e \in Cached : e.author \in us}
  BY DEF Valid, By, Cached, FoundInv, OwnAnnouncements, FindTypeOK

\* Nothing is left out before the lookup.
LEMMA CompleteInit == FindInit => CompleteInv
  BY DEF FindInit, CompleteInv, RunsOnCache, StopsClosed

\* The cache of the clone leaves out nobody it names.
LEMMA CompleteReadLocal ==
    ASSUME FoundInv, CompleteInv, ReadLocal
    PROVE  CompleteInv'
  <1> DEFINE es == Valid(read \cup By(localCache, maintainers))
  <1>1. /\ finding = "local"
        /\ maintainers' = maintainers \cup NamedIn(es)
        /\ repoEvents' = repoEvents \cup es
        /\ finding' \in {"global", "found", "none"}
        /\ finding' # "global" => NamedIn(es) \subseteq maintainers
        /\ finding' = "none" => repoEvents' = {}
        /\ UNCHANGED <<stores, changed>>
    BY DEF ReadLocal, NewNamed
  <1>2. SUFFICES ASSUME ~changed
                 PROVE  RunsOnCache' /\ StopsClosed'
    BY <1>1 DEF CompleteInv
  <1>3. es = {e \in Cached : e.author \in maintainers}
    BY <1>1, <1>2, CachedOf DEF CompleteInv, RunsOnCache, FoundInv, FindTypeOK
  <1> HIDE DEF es
  <1>4. Cached' = Cached
    BY <1>1 DEF stores, Cached
  <1>5. RunsOnCache'
    BY <1>1, <1>2, <1>3, <1>4 DEF CompleteInv, RunsOnCache
  <1>6. StopsClosed'
    <2>1. SUFFICES ASSUME finding' # "global"
                   PROVE  /\ ClosedUnder(maintainers', Cached')
                          /\ \A e \in Cached' : e.author \in maintainers' => e \in repoEvents'
      BY DEF StopsClosed
    <2>2. maintainers' = maintainers
      BY <1>1, <2>1
    <2>3. \A e \in Cached : e.author \in maintainers => e \in es
      BY <1>3
    <2>4. ClosedUnder(maintainers, Cached)
      BY <1>1, <2>1, <2>3 DEF ClosedUnder, NamedIn
    <2> QED
      BY <1>1, <1>4, <2>2, <2>3, <2>4
  <1> QED
    BY <1>5, <1>6

\* No step leaves out a maintainer.
LEMMA CompleteStep ==
    ASSUME FoundInv, CompleteInv, [FindNext]_findVars
    PROVE  CompleteInv'
  <1>1. CASE \E u \in Users, content \in Contents, into \in Places :
               Stored(u, content, into)
    BY <1>1 DEF Stored, CompleteInv
  <1>2. CASE StartFinding
    BY <1>2 DEF StartFinding, CompleteInv, RunsOnCache, StopsClosed, Cached, stores
  <1>3. CASE ReadGlobal
    BY <1>3 DEF ReadGlobal, CompleteInv, RunsOnCache, StopsClosed, Cached, By, stores
  <1>4. CASE ReadLocal
    BY <1>4, CompleteReadLocal
  <1>5. CASE ReturnFound
    BY <1>5 DEF ReturnFound, CompleteInv, RunsOnCache, StopsClosed, Cached, stores
  <1>6. CASE UNCHANGED findVars
    BY <1>6 DEF findVars, stores, CompleteInv, RunsOnCache, StopsClosed, Cached, By
  <1> QED
    BY <1>1, <1>2, <1>3, <1>4, <1>5, <1>6 DEF FindNext

\* At the end the maintainers are a closed set that the trusted one is in.
LEMMA CompleteAtEnd ==
    ASSUME FoundInv, CompleteInv
    PROVE  FindsAll
  <1> SUFFICES ASSUME ~changed, finding \in {"found", "none"}
               PROVE  /\ maintainers = NamedFrom(Cached)
                      /\ repoEvents = {e \in Cached : e.author \in maintainers}
                      /\ finding = "none" => repoEvents = {}
    BY DEF FindsAll, Complete, NoneOnlyIfNone
  <1>1. RunsOnCache /\ StopsClosed
    BY DEF CompleteInv
  <1>2. repoEvents = {e \in Cached : e.author \in maintainers}
    BY <1>1 DEF RunsOnCache, StopsClosed
  <1>3. NamedFrom(Cached) \subseteq maintainers
    BY <1>1, NamedWithin DEF RunsOnCache, StopsClosed, FoundInv, FindTypeOK
  <1>4. maintainers \subseteq NamedFrom(Cached)
    <2>1. repoEvents \subseteq Cached
      BY <1>2
    <2> QED
      BY <2>1, NamedMonotone DEF FoundInv, OnlyNamed
  <1> QED
    BY <1>1, <1>2, <1>3, <1>4 DEF RunsOnCache

\* get_repo_ref_from_cache: with caches that stay as they are, the loop that
\* stops at the first iteration without a new name has found every maintainer
\* and everything they announce, and reports a repository as missing only if
\* no maintainer announces it.
THEOREM AllFound == FindSpec => []FindsAll
  <1>1. FoundInv /\ CompleteInv => FindsAll
    BY CompleteAtEnd
  <1> QED
    BY FoundInit, FoundStep, CompleteInit, CompleteStep, <1>1, PTL DEF FindSpec

-----------------------------------------------------------------------------
(* send_events.                                                            *)

\* Tasks and what relays hold, without the list of urls.
TasksType ==
    /\ pos \in [DOMAIN pos -> 0..Count]
    /\ running \subseteq DOMAIN pos
    /\ held \in [Hosts -> SUBSET (1..Count)]

\* A task that still runs has delivered what it has counted.
Delivered ==
    \A i \in running : relays[i].host \in Hosts =>
        \A m \in 1..pos[i] : m \in held[relays[i].host]

PrefixInv == TasksType /\ Delivered /\ NoGaps

\* A relay that takes the event after the last one its task delivered.
LEMMA HoldsNext ==
    ASSUME PrefixInv, NEW i \in running, pos[i] < Count, Holds(i, pos[i] + 1)
    PROVE  /\ held' \in [Hosts -> SUBSET (1..Count)]
           /\ NoGaps'
           /\ \A h \in Hosts : held[h] \subseteq held'[h]
           /\ relays[i].host \in Hosts => pos[i] + 1 \in held'[relays[i].host]
  <1> DEFINE n == pos[i] + 1
  <1>1. /\ pos[i] \in 0..Count
        /\ n \in 1..Count
        /\ \A m \in 1..Count : m <= n => m \in 1..pos[i] \/ m = n
    BY SendEventsAssumption DEF PrefixInv, TasksType
  <1>2. held' = [held EXCEPT ![relays[i].host] = @ \cup {n}]
    BY DEF Holds
  <1> HIDE DEF n
  <1>3. held' \in [Hosts -> SUBSET (1..Count)]
    BY <1>1, <1>2 DEF PrefixInv, TasksType
  <1>4. \A h \in Hosts : held[h] \subseteq held'[h]
    BY <1>2 DEF PrefixInv, TasksType
  <1>5. relays[i].host \in Hosts => n \in held'[relays[i].host]
    BY <1>2 DEF PrefixInv, TasksType
  <1>6. NoGaps'
    <2>1. SUFFICES ASSUME NEW h \in Hosts, NEW k \in held'[h], NEW m \in 1..Count, m <= k
                   PROVE  m \in held'[h]
      BY DEF NoGaps
    <2>2. CASE k \in held[h]
      BY <1>4, <2>1, <2>2 DEF PrefixInv, NoGaps
    <2>3. CASE k \notin held[h]
      <3>1. relays[i].host = h /\ k = n
        BY <1>2, <2>1, <2>3 DEF PrefixInv, TasksType
      <3>2. m \in 1..pos[i] \/ m = n
        BY <1>1, <2>1, <3>1
      <3>3. \A q \in 1..pos[i] : q \in held[h]
        BY <3>1 DEF PrefixInv, Delivered
      <3> QED
        BY <1>4, <1>5, <3>1, <3>2, <3>3
    <2> QED
      BY <2>2, <2>3
  <1> QED
    BY <1>3, <1>4, <1>5, <1>6 DEF n

\* There is no gap at the start.
LEMMA PrefixInit == SendInit => PrefixInv
  BY DEF SendInit, PrefixInv, TasksType, Delivered, NoGaps

\* A relay accepts its next event.
LEMMA PrefixAccept ==
    ASSUME PrefixInv, NEW i \in 1..Len(relays), Accept(i)
    PROVE  PrefixInv'
  <1>1. /\ i \in running
        /\ pos[i] < Count
        /\ Holds(i, pos[i] + 1)
        /\ pos' = [pos EXCEPT ![i] = pos[i] + 1]
        /\ UNCHANGED <<relays, running>>
    BY DEF Accept
  <1>2. /\ held' \in [Hosts -> SUBSET (1..Count)]
        /\ NoGaps'
        /\ \A h \in Hosts : held[h] \subseteq held'[h]
        /\ relays[i].host \in Hosts => pos[i] + 1 \in held'[relays[i].host]
    BY <1>1, HoldsNext
  <1>3. TasksType'
    BY <1>1, <1>2, SendEventsAssumption DEF PrefixInv, TasksType
  <1>4. Delivered'
    <2>1. SUFFICES ASSUME NEW j \in running, relays[j].host \in Hosts, NEW m \in 1..pos'[j]
                   PROVE  m \in held'[relays[j].host]
      BY <1>1 DEF Delivered
    <2>2. CASE j # i
      BY <1>1, <1>2, <2>1, <2>2 DEF PrefixInv, TasksType, Delivered
    <2>3. CASE j = i
      <3>1. m \in 1..pos[i] \/ m = pos[i] + 1
        BY <1>1, <2>1, <2>3 DEF PrefixInv, TasksType
      <3> QED
        BY <1>1, <1>2, <2>1, <2>3, <3>1 DEF PrefixInv, Delivered
    <2> QED
      BY <2>2, <2>3
  <1> QED
    BY <1>2, <1>3, <1>4 DEF PrefixInv

\* A relay fails.
LEMMA PrefixFail ==
    ASSUME PrefixInv, NEW i \in 1..Len(relays), SendFails(i)
    PROVE  PrefixInv'
  <1>1. /\ i \in running
        /\ pos[i] < Count
        /\ UNCHANGED held \/ Holds(i, pos[i] + 1)
        /\ pos' = [pos EXCEPT ![i] = pos[i] + 1]
        /\ running' = running \ {i}
        /\ relays' = relays
    BY DEF SendFails, EndsOnError
  <1>2. /\ held' \in [Hosts -> SUBSET (1..Count)]
        /\ NoGaps'
        /\ \A h \in Hosts : held[h] \subseteq held'[h]
    BY <1>1, HoldsNext DEF PrefixInv, TasksType, NoGaps
  <1>3. TasksType'
    BY <1>1, <1>2, SendEventsAssumption DEF PrefixInv, TasksType
  <1>4. Delivered'
    BY <1>1, <1>2 DEF PrefixInv, TasksType, Delivered
  <1> QED
    BY <1>2, <1>3, <1>4 DEF PrefixInv

\* The program is killed while it sends.
LEMMA PrefixCrash ==
    ASSUME PrefixInv, SendCrash
    PROVE  PrefixInv'
  <1>1. /\ UNCHANGED held \/ \E i \in running : pos[i] < Count /\ Holds(i, pos[i] + 1)
        /\ running' = {}
        /\ pos' = pos
    BY DEF SendCrash
  <1>2. held' \in [Hosts -> SUBSET (1..Count)] /\ NoGaps'
    BY <1>1, HoldsNext DEF PrefixInv, TasksType, NoGaps
  <1> QED
    BY <1>1, <1>2 DEF PrefixInv, TasksType, Delivered

\* No step opens a gap.
LEMMA PrefixStep ==
    ASSUME PrefixInv, [SendNext]_sendVars
    PROVE  PrefixInv'
  <1>1. CASE StartSending
    <2>1. /\ pos' = [i \in 1..Len(relays') |-> 0]
          /\ running' = 1..Len(relays')
          /\ held' = held
      BY <1>1 DEF StartSending
    <2>2. 0 \in 0..Count
      BY SendEventsAssumption
    <2>3. TasksType'
      BY <2>1, <2>2 DEF PrefixInv, TasksType
    <2>4. Delivered'
      BY <2>1 DEF Delivered
    <2> QED
      BY <2>1, <2>3, <2>4 DEF PrefixInv, NoGaps
  <1>2. ASSUME NEW i \in 1..Len(relays), EndTask(i)
        PROVE  PrefixInv'
    BY <1>2 DEF EndTask, PrefixInv, TasksType, Delivered, NoGaps
  <1>3. CASE Join
    BY <1>3 DEF Join, PrefixInv, TasksType, Delivered, NoGaps
  <1>4. CASE UNCHANGED sendVars
    BY <1>4 DEF sendVars, PrefixInv, TasksType, Delivered, NoGaps
  <1> QED
    BY <1>1, <1>2, <1>3, <1>4, PrefixAccept, PrefixFail, PrefixCrash DEF SendNext, Task

\* send_events: whatever relays refuse or answer late, and wherever the
\* process dies, a relay that has an event has all events before it.
THEOREM PrefixHeld == SendSpec => []NoGaps
  <1>1. PrefixInv => NoGaps
    BY DEF PrefixInv
  <1> QED
    BY PrefixInit, PrefixStep, <1>1, PTL DEF SendSpec
================================================================================
