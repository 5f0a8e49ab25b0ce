------------------------ MODULE RemoteHelper_proofs ------------------------
(***************************************************************************)
(* RemoteHelper keeps its types; what it accepts is delivered and what it  *)
(* caches is on a relay; while helpers run one at a time a push never      *)
(* takes commits off a git server's ref that are not expendable; and for   *)
(* one account whose relays work it implements MirroredRepo and, if nobody *)
(* forces or deletes, no server or tracking branch gets ahead of nostr and *)
(* no push is rejected.                                                    *)
(***************************************************************************)
EXTENDS RemoteHelper, TLAPS

-----------------------------------------------------------------------------
(* Types.                                                                  *)

(* The values an exiting process leaves behind are well typed.             *)
LEMMA RestTypes ==
    /\ NoRefs \in RefMap
    /\ NothingListed \in [Servers -> RefMap \cup {NotListed}]
    /\ EmptyBatch \in [Refs -> PushSpec \cup {NoSpec}]
    /\ NothingToPush \in [Servers -> SUBSET Refs]
BY DEF NoRefs, NothingListed, EmptyBatch, NothingToPush, RefMap, CommitOrNone

(* Exit preserves the types of the variables of the process.               *)
LEMMA ExitTypes ==
    ASSUME TypeOK, NEW h \in Helpers, Exit(h)
    PROVE  /\ pc' \in [Helpers -> Steps]
           /\ listOutputs' \in [Helpers -> [Servers -> RefMap \cup {NotListed}]]
           /\ existingState' \in [Helpers -> RefMap]
           /\ batch' \in [Helpers -> [Refs -> PushSpec \cup {NoSpec}]]
           /\ withProposals' \in [Helpers -> BOOLEAN]
           /\ toPush' \in [Helpers -> [Servers -> SUBSET Refs]]
           /\ nostrRead' \in [Helpers -> SUBSET RefMap]
<1>1. Idle \in Steps
  BY DEF Idle, Steps
<1> QED
  BY <1>1, RestTypes DEF TypeOK, Exit

(* Whatever a helper reads as the state of the repository is a map of its  *)
(* refs.                                                                   *)
LEMMA StateInUseType ==
    ASSUME TypeOK, NEW h \in Helpers
    PROVE  StateInUse(h) \subseteq RefMap /\ NostrState(h) \subseteq RefMap
<1>1. CachedStates(h) \subseteq StateEvent
  BY RemoteHelperAssumption DEF CachedStates, TypeOK
<1>2. \A e \in StateEvent : e.refs \in RefMap
  BY DEF StateEvent
<1>3. NostrState(h) \subseteq RefMap
  BY <1>1, <1>2 DEF Selected, NostrState
<1>4. \A s \in FirstListed(h) : listOutputs[h][s] \in RefMap
  BY DEF Listed, FirstListed, TypeOK
<1> QED
  BY <1>3, <1>4 DEF StateInUse

(* What a server can send is commits, with their history.                  *)
LEMMA HostedClosed ==
    ASSUME TypeOK, NEW s \in Servers
    PROVE  /\ Hosted(s) \in SUBSET Commits
           /\ \A c \in Hosted(s) : Ancestors[c] \subseteq Hosted(s)
<1>1. \A r \in Refs : server[s][r] \in CommitOrNone
  BY DEF TypeOK, RefMap
<1> QED
  BY <1>1, AncestorsAssumption DEF Hosted, Closure, CommitOrNone

(* What listing adds to the object database is what a server can send.     *)
LEMMA ListingObtains ==
    ASSUME NEW h \in Helpers, RunList(h)
    PROVE  \/ UNCHANGED objects
           \/ objects' = [objects EXCEPT ![h] = objects[h]]
           \/ \E s \in Servers : objects' = [objects EXCEPT ![h] = objects[h] \cup Hosted(s)]
<1>1. PICK answered \in SUBSET Servers :
        UNCHANGED objects \/ \E known \in Obtained(h, answered) :
                                 objects' = [objects EXCEPT ![h] = known]
  BY DEF RunList, Answering
<1> QED
  BY <1>1 DEF Obtained

(* Merging stores of events yields an event that one of them holds.        *)
LEMMA LatestType ==
    ASSUME NEW es \in SUBSET StateEvent
    PROVE  Latest(es) \in StateEvent \cup {NoEvent}
BY DEF Latest, Newest

\* A clone starts well typed.
THEOREM TypeInit == Init => TypeOK
<1> SUFFICES ASSUME Init PROVE TypeOK
  OBVIOUS
<1>1. Idle \in Steps
  BY DEF Idle, Steps
<1> QED
  BY <1>1, RestTypes, RemoteHelperAssumption DEF Init, TypeOK

\* Types over the fetch from relays at the start of a helper.
LEMMA ConnectTypes ==
    ASSUME TypeOK, NEW h \in Helpers, Connect(h)
    PROVE  TypeOK'
<1> DEFINE stores(answered) == {relayState[rl] : rl \in answered} \cup {cache[h]}
           merged(answered, u) == IF u \in Maintainers
                                  THEN Latest(EventsOf(stores(answered), u))
                                  ELSE cache[h][u]
<1>1. PICK answered \in SUBSET Relays :
        cache' = [cache EXCEPT ![h] = [u \in Users |-> merged(answered, u)]]
  BY DEF Connect, Answering
<1>2. ASSUME NEW u \in Users
      PROVE  merged(answered, u) \in StateEvent \cup {NoEvent}
  <2>1. \A store \in stores(answered) : store[u] \in StateEvent \cup {NoEvent}
    BY DEF TypeOK
  <2>2. EventsOf(stores(answered), u) \subseteq StateEvent
    BY <2>1 DEF EventsOf
  <2>3. cache[h][u] \in StateEvent \cup {NoEvent}
    BY DEF TypeOK
  <2> QED
    BY <2>2, <2>3, LatestType
<1> HIDE DEF merged
<1>3. [u \in Users |-> merged(answered, u)] \in [Users -> StateEvent \cup {NoEvent}]
  BY <1>2
<1>4. cache' \in [Helpers -> [Users -> StateEvent \cup {NoEvent}]]
  BY <1>1, <1>3 DEF TypeOK
<1>5. pc' \in [Helpers -> Steps]
  BY DEF Connect, TypeOK, Steps
<1>6. UNCHANGED <<relayState, server, clock, env, objects, tracking, listOutputs,
                  existingState, batch, withProposals, toPush, nostrRead>>
  BY DEF Connect, sharedVars, pushVars
<1> QED
  BY <1>4, <1>5, <1>6 DEF TypeOK

\* Types over `list`.
LEMMA RunListTypes ==
    ASSUME TypeOK, NEW h \in Helpers, RunList(h)
    PROVE  TypeOK'
<1>0. objects' \in [Helpers -> SUBSET Commits]
  <2>1. objects \in [Helpers -> SUBSET Commits]
    BY DEF TypeOK
  <2>2. CASE UNCHANGED objects
    BY <2>1, <2>2
  <2>3. CASE objects' = [objects EXCEPT ![h] = objects[h]]
    BY <2>1, <2>3
  <2>4. ASSUME NEW s \in Servers, objects' = [objects EXCEPT ![h] = objects[h] \cup Hosted(s)]
        PROVE  objects' \in [Helpers -> SUBSET Commits]
    <3>1. Hosted(s) \in SUBSET Commits
      BY HostedClosed
    <3>2. objects[h] \cup Hosted(s) \in SUBSET Commits
      BY <2>1, <3>1
    <3> QED
      BY <2>1, <2>4, <3>2
  <2> QED
    BY <2>2, <2>3, <2>4, ListingObtains
<1>1. CASE Exit(h)
  BY <1>0, <1>1, ExitTypes DEF RunList, TypeOK, sharedVars
<1>2. CASE ~Exit(h)
  <2>1. PICK answered \in SUBSET Servers :
          listOutputs' = [listOutputs EXCEPT ![h] =
              [s \in Servers |-> IF s \in answered THEN server[s] ELSE NotListed]]
    BY <1>2 DEF RunList, Answering
  <2>2. listOutputs' \in [Helpers -> [Servers -> RefMap \cup {NotListed}]]
    BY <2>1 DEF TypeOK
  <2>3. pc' \in [Helpers -> Steps]
    <3>1. pc' = [pc EXCEPT ![h] = "listed"]
      BY <1>2 DEF RunList
    <3> QED
      BY <3>1 DEF TypeOK, Steps
  <2>4. UNCHANGED <<sharedVars, tracking, cache, pushVars>>
    BY <1>2 DEF RunList
  <2> QED
    BY <1>0, <2>2, <2>3, <2>4 DEF TypeOK, sharedVars, pushVars
<1> QED
  BY <1>1, <1>2

\* Types over `fetch`.
LEMMA RunFetchTypes ==
    ASSUME TypeOK, NEW h \in Helpers, RunFetch(h)
    PROVE  TypeOK'
<1>1. PICK advertised \in StateInUse(h) :
        \/ /\ objects' = [objects EXCEPT ![h] =
                            @ \cup Closure({advertised[r] : r \in Refs} \ {NoCommit})]
           /\ tracking' = [tracking EXCEPT ![h] = [r \in Refs |->
                            IF advertised[r] # NoCommit THEN advertised[r] ELSE @[r]]]
        \/ UNCHANGED <<objects, tracking>>
  BY DEF RunFetch
<1>2. advertised \in RefMap
  BY StateInUseType
<1>3. Closure({advertised[r] : r \in Refs} \ {NoCommit}) \subseteq Commits
  BY <1>2, AncestorsAssumption DEF Closure, RefMap, CommitOrNone
<1>4. objects' \in [Helpers -> SUBSET Commits]
  <2>1. objects \in [Helpers -> SUBSET Commits]
    BY DEF TypeOK
  <2> QED
    BY <1>1, <1>3, <2>1
<1>5. tracking' \in [Helpers -> RefMap]
  <2>1. [r \in Refs |-> IF advertised[r] # NoCommit THEN advertised[r] ELSE tracking[h][r]]
            \in RefMap
    BY <1>2 DEF TypeOK, RefMap
  <2> QED
    BY <1>1, <2>1 DEF TypeOK
<1> QED
  BY <1>4, <1>5, ExitTypes DEF RunFetch, TypeOK, sharedVars

(* The classification of a batch yields well typed refspecs.               *)
LEMMA ClassificationTypes ==
    ASSUME TypeOK, NEW h \in Helpers, NEW nostr \in RefMap, NEW b \in Batches(h, nostr)
    PROVE  /\ b \in [Refs -> PushSpec \cup {NoSpec}]
           /\ Known(h, b) \subseteq Commits
           /\ Retained(h, nostr, b) \in [Refs -> PushSpec \cup {NoSpec}]
           /\ RemoteRefspecs(h, nostr, b) \in [Servers -> SUBSET Refs]
<1>1. b \in [Refs -> PushSpec \cup {NoSpec}]
  BY DEF Batches
<1>2. {b[r].from : r \in Sent(b)} \subseteq CommitOrNone
  BY <1>1 DEF Sent, PushSpec
<1>3. Known(h, b) \subseteq Commits
  BY <1>2 DEF Known, TypeOK, CommitOrNone
<1>4. Retained(h, nostr, b) \in [Refs -> PushSpec \cup {NoSpec}]
  BY <1>1 DEF Retained
<1>5. RemoteRefspecs(h, nostr, b) \in [Servers -> SUBSET Refs]
  BY DEF RemoteRefspecs, Sent
<1> QED
  BY <1>1, <1>3, <1>4, <1>5

\* Types over the choice of what to push.
LEMMA RunPushTypes ==
    ASSUME TypeOK, NEW h \in Helpers, RunPush(h)
    PROVE  TypeOK'
<1>1. PICK nostr \in StateInUse(h) : \E b \in Batches(h, nostr), proposals \in BOOLEAN :
        /\ objects' = [objects EXCEPT ![h] = Known(h, b)]
        /\ \/ Exit(h)
           \/ /\ existingState' = [existingState EXCEPT ![h] = nostr]
              /\ batch' = [batch EXCEPT ![h] = Retained(h, nostr, b)]
              /\ withProposals' = [withProposals EXCEPT ![h] = proposals]
              /\ toPush' = [toPush EXCEPT ![h] = RemoteRefspecs(h, nostr, b)]
              /\ nostrRead' = [nostrRead EXCEPT ![h] = NostrState(h)]
              /\ pc' = [pc EXCEPT ![h] = "publish"]
              /\ UNCHANGED listOutputs
  BY DEF RunPush
<1>2. nostr \in RefMap
  BY StateInUseType
<1>3. PICK b \in Batches(h, nostr), proposals \in BOOLEAN :
        /\ objects' = [objects EXCEPT ![h] = Known(h, b)]
        /\ \/ Exit(h)
           \/ /\ existingState' = [existingState EXCEPT ![h] = nostr]
              /\ batch' = [batch EXCEPT ![h] = Retained(h, nostr, b)]
              /\ withProposals' = [withProposals EXCEPT ![h] = proposals]
              /\ toPush' = [toPush EXCEPT ![h] = RemoteRefspecs(h, nostr, b)]
              /\ nostrRead' = [nostrRead EXCEPT ![h] = NostrState(h)]
              /\ pc' = [pc EXCEPT ![h] = "publish"]
              /\ UNCHANGED listOutputs
  BY <1>1
<1>4. objects' \in [Helpers -> SUBSET Commits]
  BY <1>2, <1>3, ClassificationTypes DEF TypeOK
<1>5. UNCHANGED <<sharedVars, tracking, cache>>
  BY DEF RunPush
<1>6. CASE Exit(h)
  BY <1>4, <1>5, <1>6, ExitTypes DEF TypeOK, sharedVars
<1>7. CASE ~Exit(h)
  <2>1. /\ Retained(h, nostr, b) \in [Refs -> PushSpec \cup {NoSpec}]
        /\ RemoteRefspecs(h, nostr, b) \in [Servers -> SUBSET Refs]
    BY <1>2, ClassificationTypes
  <2>2. existingState' \in [Helpers -> RefMap]
    BY <1>2, <1>3, <1>7 DEF TypeOK
  <2>3. batch' \in [Helpers -> [Refs -> PushSpec \cup {NoSpec}]]
    BY <1>3, <1>7, <2>1 DEF TypeOK
  <2>4. toPush' \in [Helpers -> [Servers -> SUBSET Refs]]
    BY <1>3, <1>7, <2>1 DEF TypeOK
  <2>5. /\ pc' \in [Helpers -> Steps]
        /\ withProposals' \in [Helpers -> BOOLEAN]
        /\ UNCHANGED listOutputs
    BY <1>3, <1>7 DEF TypeOK, Steps
  <2>6. nostrRead' \in [Helpers -> SUBSET RefMap]
    <3>1. nostrRead' = [nostrRead EXCEPT ![h] = NostrState(h)]
      BY <1>3, <1>7
    <3>2. NostrState(h) \in SUBSET RefMap
      BY StateInUseType
    <3> QED
      BY <3>1, <3>2 DEF TypeOK
  <2> QED
    BY <1>4, <1>5, <2>2, <2>3, <2>4, <2>5, <2>6 DEF TypeOK, sharedVars
<1> QED
  BY <1>6, <1>7

\* The state to be published maps refs to commits.
LEMMA UpdatedStateType ==
    ASSUME TypeOK, NEW h \in Helpers
    PROVE  UpdatedState(h) \in RefMap
<1>1. \A r \in Accepted(h) : batch[h][r].from \in CommitOrNone
  BY DEF Accepted, TypeOK, PushSpec
<1> QED
  BY <1>1 DEF UpdatedState, TypeOK, RefMap

\* Types over publishing.
LEMMA PublishTypes ==
    ASSUME TypeOK, NEW h \in Helpers, CreateAndPublishEvents(h)
    PROVE  TypeOK'
<1>1. CASE Exit(h) /\ UNCHANGED <<sharedVars, cloneVars>>
  BY <1>1, ExitTypes DEF TypeOK, sharedVars, cloneVars
<1>2. CASE ~(Exit(h) /\ UNCHANGED <<sharedVars, cloneVars>>)
  <2>1. /\ pc' = [pc EXCEPT ![h] = "report"]
        /\ UNCHANGED <<server, objects, tracking, listOutputs, pushVars, env>>
    BY <1>2 DEF CreateAndPublishEvents
  <2>2. pc' \in [Helpers -> Steps]
    BY <2>1 DEF TypeOK, Steps
  <2>3. CASE UNCHANGED <<relayState, clock, cache>>
    BY <2>1, <2>2, <2>3 DEF TypeOK, pushVars
  <2>4. CASE ~UNCHANGED <<relayState, clock, cache>>
    <3> DEFINE event == [at |-> clock + 1, refs |-> UpdatedState(h)]
    <3>1. PICK took \in SUBSET Relays :
            /\ clock' = clock + 1
            /\ relayState' = [rl \in Relays |->
                  IF rl \in took THEN [relayState[rl] EXCEPT ![Owner[h]] = event]
                  ELSE relayState[rl]]
            /\ cache' = IF took = {} THEN cache
                        ELSE [cache EXCEPT ![h][Owner[h]] = event]
      BY <1>2, <2>4 DEF CreateAndPublishEvents, Answering, CacheWith
    <3>2. event \in StateEvent
      BY UpdatedStateType DEF StateEvent, TypeOK
    <3> HIDE DEF event
    <3>3. Owner[h] \in Users
      BY RemoteHelperAssumption
    <3>4. relayState' \in [Relays -> [Users -> StateEvent \cup {NoEvent}]]
      BY <3>1, <3>2, <3>3 DEF TypeOK
    <3>5. cache' \in [Helpers -> [Users -> StateEvent \cup {NoEvent}]]
      BY <3>1, <3>2, <3>3 DEF TypeOK
    <3> QED
      BY <2>1, <2>2, <3>1, <3>4, <3>5 DEF TypeOK, pushVars
  <2> QED
    BY <2>3, <2>4
<1> QED
  BY <1>1, <1>2

\* Types over the report to git.
LEMMA ReportTypes ==
    ASSUME TypeOK, NEW h \in Helpers, UpdateRemoteRefsPushed(h)
    PROVE  TypeOK'
<1>1. [r \in Refs |-> IF r \in Accepted(h) THEN batch[h][r].from ELSE tracking[h][r]]
          \in RefMap
  BY DEF Accepted, TypeOK, PushSpec, RefMap
<1>2. tracking' \in [Helpers -> RefMap]
  BY <1>1 DEF UpdateRemoteRefsPushed, TypeOK
<1>3. pc' \in [Helpers -> Steps]
  BY DEF UpdateRemoteRefsPushed, TypeOK, Steps
<1> QED
  BY <1>2, <1>3 DEF UpdateRemoteRefsPushed, TypeOK, sharedVars, pushVars

\* Server s takes these refs of what h pushes there.
Takes(h, s, taken) ==
    /\ taken # {} => TransportAccepts(h, s)
    /\ server' = [server EXCEPT ![s] = [r \in Refs |->
                      IF r \in taken THEN batch[h][r].from ELSE server[s][r]]]

(* A server takes some of the refs, and none if the transport refuses one. *)
LEMMA PushTakes ==
    ASSUME NEW h \in Helpers, NEW s \in Servers, PushToRemote(h, s)
    PROVE  \E taken \in SUBSET toPush[h][s] : Takes(h, s, taken)
BY DEF PushToRemote, Answering, Takes

\* Types over the push to a server.
LEMMA PushToRemoteTypes ==
    ASSUME TypeOK, NEW h \in Helpers, NEW s \in Servers, PushToRemote(h, s),
           \A r \in toPush[h][s] : batch[h][r] # NoSpec
    PROVE  TypeOK'
<1>1. PICK taken \in SUBSET toPush[h][s] : Takes(h, s, taken)
  BY PushTakes
<1>2. server' \in [Servers -> RefMap]
  <2>1. [r \in Refs |-> IF r \in taken THEN batch[h][r].from ELSE server[s][r]] \in RefMap
    BY DEF TypeOK, PushSpec, RefMap
  <2> QED
    BY <1>1, <2>1 DEF Takes, TypeOK
<1>3. toPush' \in [Helpers -> [Servers -> SUBSET Refs]]
  BY DEF PushToRemote, TypeOK
<1> QED
  BY <1>2, <1>3 DEF PushToRemote, TypeOK, cloneVars

-----------------------------------------------------------------------------
(* The invariant.  A ref is pushed to a server only if its refspec was     *)
(* accepted; while helpers are exclusive, the one that runs still sees the *)
(* servers as it listed them, so what it pushes to a server it has not     *)
(* pushed to yet is safe for what the server has now.                      *)

PushesAccepted == \A h \in Helpers, s \in Servers : toPush[h][s] \subseteq Accepted(h)

OneRunning == \A g, h \in Helpers : pc[g] # Idle /\ pc[h] # Idle => g = h

ListedIsCurrent ==
    \A h \in Helpers, s \in Servers :
        pc[h] = "listed" /\ s \in Listed(h) => server[s] = listOutputs[h][s]

SafeFor(h, s, r) ==
    \/ batch[h][r].from = NoCommit
    \/ WithinHistory(server[s][r], batch[h][r].from)
    \/ Expendable(h, s, r)

PushesAreSafe ==
    \A h \in Helpers, s \in Servers : \A r \in toPush[h][s] : SafeFor(h, s, r)

NotYetPushing ==
    \A h \in Helpers, s \in Servers : pc[h] \in {Idle, "connected"} => toPush[h][s] = {}

TypeInv == TypeOK /\ PushesAccepted
OverwriteInv == OneRunning /\ ListedIsCurrent /\ PushesAreSafe /\ NotYetPushing

(* The servers that answered first are one server.                         *)
LEMMA OneIsFirst ==
    ASSUME NEW h \in Helpers, NEW s \in FirstListed(h), NEW t \in FirstListed(h)
    PROVE  s = t
BY RemoteHelperAssumption DEF FirstListed, Listed

(* What the state in use has may be taken off a server that is as listed.  *)
LEMMA InUseIsExpendable ==
    ASSUME NEW h \in Helpers, NEW s \in Servers, NEW r \in Refs,
           NEW nostr \in StateInUse(h), WithinHistory(server[s][r], nostr[r]),
           nostrRead'[h] = NostrState(h), listOutputs' = listOutputs, server' = server
    PROVE  Expendable(h, s, r)'
<1>1. FirstListed(h)' = FirstListed(h)
  BY DEF FirstListed, Listed
<1>2. CASE CachedStates(h) # {}
  BY <1>2 DEF StateInUse, Expendable
<1>3. CASE CachedStates(h) = {}
  <2>1. NostrState(h) = {}
    BY <1>3 DEF NostrState, Selected
  <2>2. PICK t \in FirstListed(h) : nostr = listOutputs[h][t]
    BY <1>3 DEF StateInUse
  <2>3. \A q \in FirstListed(h) : WithinHistory(server[s][r], listOutputs[h][q][r])
    BY <2>2, OneIsFirst
  <2> QED
    BY <1>1, <2>1, <2>3 DEF Expendable
<1> QED
  BY <1>2, <1>3

(* It stays so while the helper keeps what it read, and the server its     *)
(* refs.                                                                   *)
LEMMA StaysExpendable ==
    ASSUME NEW h \in Helpers, NEW s \in Servers, NEW r \in Refs, Expendable(h, s, r),
           nostrRead'[h] = nostrRead[h], listOutputs'[h] = listOutputs[h],
           server'[s] = server[s]
    PROVE  Expendable(h, s, r)'
<1>1. FirstListed(h)' = FirstListed(h)
  BY DEF FirstListed, Listed
<1> QED
  BY <1>1 DEF Expendable

LEMMA StaysSafe ==
    ASSUME NEW h \in Helpers, NEW s \in Servers, NEW r \in Refs, SafeFor(h, s, r),
           batch'[h] = batch[h], nostrRead'[h] = nostrRead[h],
           listOutputs'[h] = listOutputs[h], server'[s] = server[s]
    PROVE  SafeFor(h, s, r)'
BY StaysExpendable DEF SafeFor

(* So do all pushes, of helpers that keep what they push.                  *)
LEMMA StaySafe ==
    ASSUME TypeOK, PushesAreSafe, server' = server,
           \A g \in Helpers, s \in Servers : toPush'[g][s] # {} =>
               /\ toPush'[g] = toPush[g] /\ batch'[g] = batch[g]
               /\ nostrRead'[g] = nostrRead[g] /\ listOutputs'[g] = listOutputs[g]
    PROVE  PushesAreSafe'
<1> SUFFICES ASSUME NEW h \in Helpers, NEW s \in Servers, NEW r \in toPush'[h][s]
             PROVE  SafeFor(h, s, r)'
  BY DEF PushesAreSafe
<1>1. toPush'[h] = toPush[h]
  OBVIOUS
<1>2. r \in toPush[h][s]
  BY <1>1
<1>3. r \in Refs
  BY <1>2 DEF TypeOK
<1>4. SafeFor(h, s, r)
  BY <1>2 DEF PushesAreSafe
<1> QED
  BY <1>3, <1>4, StaysSafe

(* An idle or exiting helper has nothing to push.                          *)
LEMMA ExitPushes ==
    ASSUME TypeInv, NEW h \in Helpers, Exit(h)
    PROVE  PushesAccepted'
BY DEF TypeInv, TypeOK, PushesAccepted, Exit, Accepted, NothingToPush

(* What may happen in a behaviour is settled when it begins.               *)
LEMMA EnvStays == [Next]_vars => env' = env
BY DEF Next, HelperStep, Connect, RunList, RunPush, RunFetch, Quit, CreateAndPublishEvents,
   UpdateRemoteRefsPushed, PushToRemote, Finish, Crash, DirectPush, vars, sharedVars

LEMMA CommitsMade == TypeOK => env.commits \subseteq Commits
BY RemoteHelperAssumption DEF TypeOK

(* Every step keeps the types and pushes only what was accepted.           *)
LEMMA TypeInvStep == TypeInv /\ [Next]_vars => TypeInv'
<1> SUFFICES ASSUME TypeInv, [Next]_vars
             PROVE  TypeInv'
  OBVIOUS
<1> USE DEF TypeInv
<1>1. ASSUME NEW h \in Helpers, Connect(h) PROVE TypeInv'
  <2>1. PushesAccepted'
    BY <1>1 DEF Connect, PushesAccepted, Accepted, pushVars
  <2> QED
    BY <1>1, <2>1, ConnectTypes
<1>2. ASSUME NEW h \in Helpers, RunList(h) PROVE TypeInv'
  <2>1. Exit(h) \/ UNCHANGED pushVars
    BY <1>2 DEF RunList
  <2>2. PushesAccepted'
    BY <2>1, ExitPushes DEF PushesAccepted, Accepted, pushVars
  <2> QED
    BY <1>2, <2>2, RunListTypes
<1>3. ASSUME NEW h \in Helpers, RunPush(h) PROVE TypeInv'
  <2>1. CASE Exit(h)
    BY <1>3, <2>1, ExitPushes, RunPushTypes
  <2>2. CASE ~Exit(h)
    <3>1. PICK nostr \in StateInUse(h) : \E b \in Batches(h, nostr) :
            /\ batch' = [batch EXCEPT ![h] = Retained(h, nostr, b)]
            /\ toPush' = [toPush EXCEPT ![h] = RemoteRefspecs(h, nostr, b)]
      BY <1>3, <2>2 DEF RunPush
    <3>2. PICK b \in Batches(h, nostr) :
            /\ batch' = [batch EXCEPT ![h] = Retained(h, nostr, b)]
            /\ toPush' = [toPush EXCEPT ![h] = RemoteRefspecs(h, nostr, b)]
      BY <3>1
    <3>3. \A s \in Servers : \A r \in RemoteRefspecs(h, nostr, b)[s] :
            r \in Refs /\ Retained(h, nostr, b)[r] # NoSpec
      BY DEF RemoteRefspecs, Retained, Sent
    <3>4. PushesAccepted'
      BY <3>2, <3>3 DEF PushesAccepted, Accepted, TypeOK
    <3> QED
      BY <1>3, <3>4, RunPushTypes
  <2> QED
    BY <2>1, <2>2
<1>4. ASSUME NEW h \in Helpers, RunFetch(h) PROVE TypeInv'
  BY <1>4, RunFetchTypes, ExitPushes DEF RunFetch
<1>5. ASSUME NEW h \in Helpers, Quit(h) \/ Finish(h) \/ Crash(h) PROVE TypeInv'
  <2>1. Exit(h) /\ UNCHANGED <<sharedVars, cloneVars>>
    BY <1>5 DEF Quit, Finish, Crash
  <2> QED
    BY <2>1, ExitTypes, ExitPushes DEF TypeOK, sharedVars, cloneVars
<1>6. ASSUME NEW h \in Helpers, CreateAndPublishEvents(h) PROVE TypeInv'
  <2>1. Exit(h) \/ UNCHANGED pushVars
    BY <1>6 DEF CreateAndPublishEvents
  <2>2. PushesAccepted'
    BY <2>1, ExitPushes DEF PushesAccepted, Accepted, pushVars
  <2> QED
    BY <1>6, <2>2, PublishTypes
<1>7. ASSUME NEW h \in Helpers, UpdateRemoteRefsPushed(h) PROVE TypeInv'
  <2>1. PushesAccepted'
    BY <1>7 DEF UpdateRemoteRefsPushed, PushesAccepted, Accepted, pushVars
  <2> QED
    BY <1>7, <2>1, ReportTypes
<1>8. ASSUME NEW h \in Helpers, NEW s \in Servers, PushToRemote(h, s) PROVE TypeInv'
  <2>1. \A r \in toPush[h][s] : batch[h][r] # NoSpec
    BY DEF PushesAccepted, Accepted
  <2>2. PushesAccepted'
    BY <1>8 DEF PushToRemote, PushesAccepted, Accepted, TypeOK
  <2> QED
    BY <1>8, <2>1, <2>2, PushToRemoteTypes
<1>9. ASSUME NEW s \in Servers, NEW r \in Refs, NEW c \in env.commits, DirectPush(s, r, c)
      PROVE  TypeInv'
  <2>1. server' \in [Servers -> RefMap]
    BY <1>9, CommitsMade DEF DirectPush, TypeOK, RefMap, CommitOrNone
  <2> QED
    BY <1>9, <2>1 DEF DirectPush, PushesAccepted, Accepted, TypeOK, cloneVars, pushVars
<1>10. CASE UNCHANGED vars
  BY <1>10 DEF vars, sharedVars, cloneVars, pushVars, TypeOK, PushesAccepted, Accepted
<1> QED
  BY <1>1, <1>2, <1>3, <1>4, <1>5, <1>6, <1>7, <1>8, <1>9, <1>10 DEF Next, HelperStep

(* RemoteHelper is type correct.                                           *)
THEOREM TypeCorrect == Spec => []TypeOK
<1>1. Init => TypeInv
  <2>1. Init => PushesAccepted
    BY DEF Init, PushesAccepted, NothingToPush
  <2> QED
    BY <2>1, TypeInit DEF TypeInv
<1>2. TypeInv => TypeOK
  BY DEF TypeInv
<1> QED
  BY <1>1, <1>2, TypeInvStep, PTL DEF Spec

-----------------------------------------------------------------------------
(* What the classification sends to a server is safe for what that server  *)
(* listed: it keeps the server's commits, or nostr has them.               *)
LEMMA SendsIsSafe ==
    ASSUME TypeOK, NEW h \in Helpers, NEW nostr \in RefMap, NEW b \in Batches(h, nostr),
           NEW s \in Servers, NEW r \in RemoteRefspecs(h, nostr, b)[s]
    PROVE  /\ s \in Listed(h)
           /\ Retained(h, nostr, b)[r] = b[r]
           /\ \/ b[r].from = NoCommit
              \/ WithinHistory(listOutputs[h][s][r], b[r].from)
              \/ WithinHistory(listOutputs[h][s][r], nostr[r])
<1> DEFINE remote == listOutputs[h][s][r]
           known == Known(h, b)
<1>1. /\ r \in Sent(b) \ Rejected(h, nostr, b)
      /\ s \in Listed(h)
      /\ Sends(known, nostr[r], remote, b[r])
  BY DEF RemoteRefspecs
<1>2. r \in Refs
  BY <1>1 DEF Sent
<1>3. Retained(h, nostr, b)[r] = b[r]
  BY <1>1, <1>2 DEF Retained
<1>4. remote \in CommitOrNone /\ nostr[r] \in CommitOrNone
  BY <1>1, <1>2 DEF TypeOK, Listed, RefMap
<1>5. ~Rejects(known, nostr[r], remote, b[r])
  BY <1>1 DEF Rejected
<1>6. SUFFICES ASSUME b[r].from # NoCommit
               PROVE  \/ WithinHistory(remote, b[r].from)
                      \/ WithinHistory(remote, nostr[r])
  BY <1>1, <1>3
<1>7. CASE remote = NoCommit
  BY <1>7 DEF WithinHistory
<1>8. CASE remote # NoCommit /\ nostr[r] = remote
  BY <1>4, <1>8, AncestorsAssumption DEF WithinHistory, FastForward, CommitOrNone
<1>9. CASE OutOfSync(nostr[r], remote)
  BY <1>5, <1>6, <1>9 DEF Rejects, WithinHistory
<1> QED
  BY <1>7, <1>8, <1>9 DEF OutOfSync

(* Exiting keeps the invariant: nothing is listed, nothing is pushed.      *)
LEMMA ExitOverwrite ==
    ASSUME TypeInv, OverwriteInv, NEW h \in Helpers, Exit(h), UNCHANGED server
    PROVE  OverwriteInv'
<1>1. OneRunning'
  BY DEF TypeInv, TypeOK, OverwriteInv, OneRunning, Exit
<1>2. ListedIsCurrent'
  BY DEF TypeInv, TypeOK, OverwriteInv, ListedIsCurrent, Exit, Listed, Idle
<1>3. PushesAreSafe'
  <2>1. \A s \in Servers : toPush'[h][s] = {}
    BY DEF TypeInv, TypeOK, Exit, NothingToPush
  <2>2. \A g \in Helpers \ {h} : /\ toPush'[g] = toPush[g]
                                 /\ batch'[g] = batch[g]
                                 /\ nostrRead'[g] = nostrRead[g]
                                 /\ listOutputs'[g] = listOutputs[g]
    BY DEF TypeInv, TypeOK, Exit
  <2> QED
    BY <2>1, <2>2, StaySafe DEF OverwriteInv, TypeInv
<1>4. NotYetPushing'
  BY DEF TypeInv, TypeOK, OverwriteInv, NotYetPushing, Exit, NothingToPush
<1> QED
  BY <1>1, <1>2, <1>3, <1>4 DEF OverwriteInv

(* When helpers exclude each other and one may start, all are idle.        *)
LEMMA MayRunIdle == Exclusive /\ MayRun => \A h \in Helpers : pc[h] = Idle
BY DEF Exclusive, MayRun

\* No step of any helper loses the invariant.
LEMMA OverwriteStep ==
    ASSUME Exclusive
    PROVE  TypeInv /\ OverwriteInv /\ [Next]_vars => OverwriteInv'
<1> SUFFICES ASSUME TypeInv, OverwriteInv, [Next]_vars
             PROVE  OverwriteInv'
  OBVIOUS
<1>1. ASSUME NEW h \in Helpers, Connect(h) PROVE OverwriteInv'
  <2>1. \A g \in Helpers : pc[g] = Idle
    BY <1>1, MayRunIdle DEF Connect
  <2>2. pc' = [pc EXCEPT ![h] = "connected"]
    BY <1>1 DEF Connect
  <2>3. UNCHANGED <<server, listOutputs, pushVars>>
    BY <1>1 DEF Connect, sharedVars
  <2>4. OneRunning'
    BY <2>1, <2>2 DEF OneRunning, TypeInv, TypeOK
  <2>5. ListedIsCurrent'
    BY <2>1, <2>2 DEF ListedIsCurrent, TypeInv, TypeOK, Idle
  <2>6. PushesAreSafe'
    BY <2>3, StaySafe DEF OverwriteInv, TypeInv, pushVars
  <2>7. NotYetPushing'
    BY <2>1, <2>3 DEF OverwriteInv, NotYetPushing, pushVars
  <2> QED
    BY <2>4, <2>5, <2>6, <2>7 DEF OverwriteInv
<1>2. ASSUME NEW h \in Helpers, RunList(h) PROVE OverwriteInv'
  <2>1. CASE Exit(h)
    BY <1>2, <2>1, ExitOverwrite DEF RunList, sharedVars
  <2>2. CASE ~Exit(h)
    <3>1. PICK answered \in SUBSET Servers :
            listOutputs' = [listOutputs EXCEPT ![h] =
                [s \in Servers |-> IF s \in answered THEN server[s] ELSE NotListed]]
      BY <1>2, <2>2 DEF RunList, Answering
    <3>2. /\ pc[h] = "connected"
          /\ pc' = [pc EXCEPT ![h] = "listed"]
          /\ UNCHANGED <<server, pushVars>>
      BY <1>2, <2>2 DEF RunList, sharedVars
    <3>3. OneRunning'
      BY <3>2 DEF OverwriteInv, OneRunning, TypeInv, TypeOK, Idle
    <3>4. ListedIsCurrent'
      BY <3>1, <3>2 DEF OverwriteInv, ListedIsCurrent, Listed, TypeInv, TypeOK
    <3>5. PushesAreSafe'
      <4>1. \A s \in Servers : toPush'[h][s] = {}
        BY <3>2 DEF OverwriteInv, NotYetPushing, pushVars
      <4>2. \A g \in Helpers \ {h} : listOutputs'[g] = listOutputs[g]
        BY <3>1 DEF TypeInv, TypeOK
      <4> QED
        BY <3>2, <4>1, <4>2, StaySafe DEF OverwriteInv, TypeInv, pushVars
    <3>6. NotYetPushing'
      BY <3>2 DEF OverwriteInv, NotYetPushing, TypeInv, TypeOK, pushVars, Idle
    <3> QED
      BY <3>3, <3>4, <3>5, <3>6 DEF OverwriteInv
  <2> QED
    BY <2>1, <2>2
<1>3. ASSUME NEW h \in Helpers, RunPush(h) PROVE OverwriteInv'
  <2>1. CASE Exit(h)
    BY <1>3, <2>1, ExitOverwrite DEF RunPush, sharedVars
  <2>2. CASE ~Exit(h)
    <3>1. PICK nostr \in StateInUse(h) : \E b \in Batches(h, nostr) :
            /\ nostrRead' = [nostrRead EXCEPT ![h] = NostrState(h)]
            /\ batch' = [batch EXCEPT ![h] = Retained(h, nostr, b)]
            /\ toPush' = [toPush EXCEPT ![h] = RemoteRefspecs(h, nostr, b)]
      BY <1>3, <2>2 DEF RunPush
    <3>2. PICK b \in Batches(h, nostr) :
            /\ nostrRead' = [nostrRead EXCEPT ![h] = NostrState(h)]
            /\ batch' = [batch EXCEPT ![h] = Retained(h, nostr, b)]
            /\ toPush' = [toPush EXCEPT ![h] = RemoteRefspecs(h, nostr, b)]
      BY <3>1
    <3>3. nostr \in RefMap
      BY StateInUseType DEF TypeInv
    <3>4. /\ pc[h] = "listed"
          /\ pc' = [pc EXCEPT ![h] = "publish"]
          /\ UNCHANGED <<server, listOutputs>>
      BY <1>3, <2>2 DEF RunPush, sharedVars
    <3>5. OneRunning'
      BY <3>4 DEF OverwriteInv, OneRunning, TypeInv, TypeOK, Idle
    <3>6. ListedIsCurrent'
      BY <3>4 DEF OverwriteInv, ListedIsCurrent, Listed, TypeInv, TypeOK
    <3>7. PushesAreSafe'
      <4>1. ASSUME NEW s \in Servers, NEW r \in RemoteRefspecs(h, nostr, b)[s]
            PROVE  SafeFor(h, s, r)'
        <5>1. /\ s \in Listed(h)
              /\ Retained(h, nostr, b)[r] = b[r]
              /\ \/ b[r].from = NoCommit
                 \/ WithinHistory(listOutputs[h][s][r], b[r].from)
                 \/ WithinHistory(listOutputs[h][s][r], nostr[r])
          BY <3>3, SendsIsSafe DEF TypeInv
        <5>2. server[s] = listOutputs[h][s]
          BY <3>4, <5>1 DEF OverwriteInv, ListedIsCurrent
        <5>3. batch'[h][r] = b[r] /\ nostrRead'[h] = NostrState(h) /\ r \in Refs
          BY <3>2, <5>1 DEF TypeInv, TypeOK, RemoteRefspecs, Sent
        <5>4. CASE WithinHistory(listOutputs[h][s][r], nostr[r])
          <6>1. Expendable(h, s, r)'
            BY <3>4, <5>2, <5>3, <5>4, InUseIsExpendable
          <6> QED
            BY <6>1 DEF SafeFor
        <5>5. CASE b[r].from = NoCommit \/ WithinHistory(listOutputs[h][s][r], b[r].from)
          BY <3>4, <5>2, <5>3, <5>5 DEF SafeFor
        <5> QED
          BY <5>1, <5>4, <5>5
      <4>2. \A s \in Servers : toPush'[h][s] = RemoteRefspecs(h, nostr, b)[s]
        BY <3>2 DEF TypeInv, TypeOK
      <4>3. ASSUME NEW g \in Helpers \ {h}, NEW s \in Servers, NEW r \in toPush'[g][s]
            PROVE  SafeFor(g, s, r)'
        <5>1. /\ toPush'[g] = toPush[g]
              /\ batch'[g] = batch[g]
              /\ nostrRead'[g] = nostrRead[g]
              /\ server' = server
          BY <3>2, <3>4 DEF TypeInv, TypeOK
        <5>2. SafeFor(g, s, r) /\ r \in Refs
          BY <5>1 DEF OverwriteInv, PushesAreSafe, TypeInv, TypeOK
        <5> QED
          BY <3>4, <5>1, <5>2, StaysSafe
      <4> QED
        BY <4>1, <4>2, <4>3 DEF PushesAreSafe
    <3>8. NotYetPushing'
      BY <3>2, <3>4 DEF OverwriteInv, NotYetPushing, TypeInv, TypeOK, Idle
    <3> QED
      BY <3>5, <3>6, <3>7, <3>8 DEF OverwriteInv
  <2> QED
    BY <2>1, <2>2
<1>4. ASSUME NEW h \in Helpers, RunFetch(h) \/ Quit(h) \/ Finish(h) \/ Crash(h)
      PROVE  OverwriteInv'
  BY <1>4, ExitOverwrite DEF RunFetch, Quit, Finish, Crash, sharedVars
<1>5. ASSUME NEW h \in Helpers, CreateAndPublishEvents(h) PROVE OverwriteInv'
  <2>1. CASE Exit(h) /\ UNCHANGED <<sharedVars, cloneVars>>
    BY <2>1, ExitOverwrite DEF sharedVars
  <2>2. CASE ~(Exit(h) /\ UNCHANGED <<sharedVars, cloneVars>>)
    <3>1. /\ pc[h] = "publish"
          /\ pc' = [pc EXCEPT ![h] = "report"]
          /\ UNCHANGED <<server, listOutputs, pushVars>>
      BY <1>5, <2>2 DEF CreateAndPublishEvents
    <3>2. OneRunning' /\ ListedIsCurrent'
      BY <3>1 DEF OverwriteInv, OneRunning, ListedIsCurrent, Listed, TypeInv, TypeOK, Idle
    <3>3. PushesAreSafe'
      BY <3>1, StaySafe DEF OverwriteInv, TypeInv, pushVars
    <3>4. NotYetPushing'
      BY <3>1 DEF OverwriteInv, NotYetPushing, TypeInv, TypeOK, pushVars, Idle
    <3> QED
      BY <3>2, <3>3, <3>4 DEF OverwriteInv
  <2> QED
    BY <2>1, <2>2
<1>6. ASSUME NEW h \in Helpers, UpdateRemoteRefsPushed(h) PROVE OverwriteInv'
  <2>1. /\ pc[h] = "report"
        /\ pc' = [pc EXCEPT ![h] = "push"]
        /\ UNCHANGED <<server, listOutputs, pushVars>>
    BY <1>6 DEF UpdateRemoteRefsPushed, sharedVars
  <2>2. OneRunning' /\ ListedIsCurrent'
    BY <2>1 DEF OverwriteInv, OneRunning, ListedIsCurrent, Listed, TypeInv, TypeOK, Idle
  <2>3. PushesAreSafe'
    BY <2>1, StaySafe DEF OverwriteInv, TypeInv, pushVars
  <2>4. NotYetPushing'
    BY <2>1 DEF OverwriteInv, NotYetPushing, TypeInv, TypeOK, pushVars, Idle
  <2> QED
    BY <2>2, <2>3, <2>4 DEF OverwriteInv
<1>7. ASSUME NEW h \in Helpers, NEW s \in Servers, PushToRemote(h, s)
      PROVE  OverwriteInv'
  <2>1. /\ pc[h] = "push"
        /\ toPush' = [toPush EXCEPT ![h][s] = {}]
        /\ UNCHANGED <<pc, listOutputs, nostrRead, batch>>
        /\ \A t \in Servers \ {s} : server'[t] = server[t]
    BY <1>7 DEF PushToRemote, TypeInv, TypeOK
  <2>2. OneRunning'
    BY <2>1 DEF OverwriteInv, OneRunning
  <2>3. \A g \in Helpers : pc[g] # "listed"
    BY <2>1 DEF OverwriteInv, OneRunning, Idle
  <2>4. ListedIsCurrent'
    BY <2>1, <2>3 DEF ListedIsCurrent
  <2>5. ASSUME NEW g \in Helpers, NEW t \in Servers, NEW r \in toPush'[g][t]
        PROVE  SafeFor(g, t, r)'
    <3>1. toPush'[g][t] \subseteq toPush[g][t]
      BY <2>1 DEF TypeInv, TypeOK
    <3>2. SafeFor(g, t, r) /\ r \in Refs
      BY <3>1 DEF OverwriteInv, PushesAreSafe, TypeInv, TypeOK
    <3>3. g = h
      BY <2>1, <3>1 DEF OverwriteInv, OneRunning, NotYetPushing, Idle
    <3>4. t # s
      BY <2>1, <3>3 DEF TypeInv, TypeOK
    <3> QED
      BY <2>1, <3>2, <3>4, StaysSafe
  <2>6. NotYetPushing'
    BY <2>1 DEF OverwriteInv, NotYetPushing, TypeInv, TypeOK
  <2> QED
    BY <2>2, <2>4, <2>5, <2>6 DEF OverwriteInv, PushesAreSafe
<1>8. ASSUME NEW s \in Servers, NEW r \in Refs, NEW c \in env.commits, DirectPush(s, r, c)
      PROVE  OverwriteInv'
  <2>1. UNCHANGED <<pc, listOutputs, toPush>>
    BY <1>8 DEF DirectPush, pushVars
  <2>2. \A h \in Helpers : pc[h] = Idle
    BY <1>8, MayRunIdle DEF DirectPush
  <2>3. \A h \in Helpers, t \in Servers : toPush'[h][t] = {}
    BY <2>1, <2>2 DEF OverwriteInv, NotYetPushing
  <2> QED
    BY <2>1, <2>2, <2>3
    DEF OverwriteInv, OneRunning, ListedIsCurrent, PushesAreSafe, NotYetPushing, Idle
<1>9. CASE UNCHANGED vars
  <2>1. PushesAreSafe'
    BY <1>9, StaySafe DEF vars, sharedVars, pushVars, OverwriteInv, TypeInv
  <2> QED
    BY <1>9, <2>1 DEF vars, sharedVars, pushVars, OverwriteInv, OneRunning, ListedIsCurrent,
                      Listed, NotYetPushing
<1> QED
  BY <1>1, <1>2, <1>3, <1>4, <1>5, <1>6, <1>7, <1>8, <1>9 DEF Next, HelperStep

(* A helper that moves a ref of a server pushes there, takes nothing off   *)
(* the ref unless it is forced and, if it runs alone, does what the        *)
(* invariant says is safe.                                                 *)
LEMMA PushIsSafe ==
    ASSUME TypeInv, Exclusive => OverwriteInv,
           NEW g \in Helpers, NEW t \in Servers, PushToRemote(g, t),
           NEW h \in Helpers, NEW s \in Servers, NEW r \in Refs, Moves(h, s, r)
    PROVE  \/ WithinHistory(server[s][r], server'[s][r])
           \/ batch[h][r].force /\ (Exclusive => Expendable(h, s, r))
<1>1. g = h /\ t = s
  BY DEF PushToRemote, Moves, TypeInv, TypeOK
<1>2. PICK taken \in SUBSET toPush[h][s] : Takes(h, s, taken)
  BY <1>1, PushTakes
<1>3. r \in taken /\ server'[s][r] = batch[h][r].from /\ batch[h][r].from # NoCommit
  BY <1>2 DEF Takes, Moves, TypeInv, TypeOK, RefMap
<1>4. TransportAccepts(h, s) /\ r \in toPush[h][s]
  BY <1>2, <1>3 DEF Takes
<1>5. WithinHistory(server[s][r], server'[s][r]) \/ batch[h][r].force
  BY <1>3, <1>4 DEF TransportAccepts
<1>6. Exclusive => WithinHistory(server[s][r], server'[s][r]) \/ Expendable(h, s, r)
  BY <1>3, <1>4 DEF OverwriteInv, PushesAreSafe, SafeFor
<1> QED
  BY <1>5, <1>6

(* A push takes commits off a server's ref only by force and, while        *)
(* helpers run one at a time, only those that the nostr state had or, for  *)
(* a push that read no state event, that the first server had listed, on   *)
(* other servers than that one: for any number of clones, servers, relays  *)
(* and refs, and whatever else may fail.                                   *)
THEOREM SafeOverwrite == Spec => OverwritesOnlyPublished
<1> DEFINE Inv == OverwriteInv \/ ~Exclusive
<1>1. Init => TypeInv
  <2>1. Init => PushesAccepted
    BY DEF Init, PushesAccepted, NothingToPush
  <2> QED
    BY <2>1, TypeInit DEF TypeInv
<1>2. Init => Inv
  BY DEF Init, OverwriteInv, OneRunning, ListedIsCurrent, PushesAreSafe,
         NotYetPushing, NothingToPush, Idle
<1>3. TypeInv /\ Inv /\ [Next]_vars => [MoveIsSafe]_vars
  <2> SUFFICES ASSUME TypeInv, Exclusive => OverwriteInv, Next,
                      NEW h \in Helpers, NEW s \in Servers, NEW r \in Refs, Moves(h, s, r)
               PROVE  \/ WithinHistory(server[s][r], server'[s][r])
                      \/ batch[h][r].force /\ (Exclusive => Expendable(h, s, r))
    BY DEF MoveIsSafe
  <2>1. CASE \E g \in Helpers : \E t \in Servers : PushToRemote(g, t)
    BY <2>1, PushIsSafe
  <2>2. ASSUME NEW t \in Servers, NEW q \in Refs, NEW c \in env.commits, DirectPush(t, q, c)
        PROVE  FALSE
    BY <2>2 DEF DirectPush, pushVars, Moves
  <2>3. ASSUME NEW g \in Helpers,
               Connect(g) \/ RunList(g) \/ RunPush(g) \/ RunFetch(g) \/ Quit(g)
                 \/ CreateAndPublishEvents(g) \/ UpdateRemoteRefsPushed(g)
                 \/ Finish(g) \/ Crash(g)
        PROVE  FALSE
    <3>1. UNCHANGED server
      BY <2>3 DEF Connect, RunList, RunPush, RunFetch, Quit, CreateAndPublishEvents,
                  UpdateRemoteRefsPushed, Finish, Crash, sharedVars
    <3> QED
      BY <3>1 DEF Moves
  <2> QED
    BY <2>1, <2>2, <2>3 DEF Next, HelperStep
<1>4. TypeInv /\ Inv /\ [Next]_vars => Inv'
  <2>1. ASSUME TypeInv, OverwriteInv, Exclusive, [Next]_vars PROVE OverwriteInv'
    BY <2>1, OverwriteStep
  <2>2. ASSUME [Next]_vars, ~Exclusive PROVE ~Exclusive'
    BY <2>2, EnvStays DEF Exclusive
  <2> QED
    BY <2>1, <2>2
<1> QED
  BY <1>1, <1>2, <1>3, <1>4, TypeInvStep, PTL DEF Spec, OverwritesOnlyPublished

-----------------------------------------------------------------------------
(* What is accepted is delivered, and what is cached is on a relay: for    *)
(* every environment, helpers that overlap included.                       *)

(* No state event is from the future.                                      *)
EventsTimed ==
    \A rl \in Relays, u \in Users :
        relayState[rl][u] # NoEvent => relayState[rl][u].at <= clock

CacheTimed ==
    \A h \in Helpers, u \in Users : cache[h][u] # NoEvent => cache[h][u].at <= clock

CacheInv == EventsTimed /\ CacheTimed /\ CachedIsPublished

(* What an exiting helper accepted is forgotten, and nothing else changes. *)
LEMMA ExitDelivers ==
    ASSUME TypeOK, AcceptedGoesEverywhere, NEW h \in Helpers, Exit(h)
    PROVE  AcceptedGoesEverywhere'
<1> SUFFICES ASSUME NEW g \in Helpers, pc'[g] \in {"publish", "report"}
             PROVE  /\ pc[g] = pc'[g]
                    /\ batch'[g] = batch[g]
                    /\ listOutputs'[g] = listOutputs[g]
                    /\ toPush'[g] = toPush[g]
  BY DEF AcceptedGoesEverywhere, Accepted, Listed
<1>1. g # h
  BY DEF Exit, TypeOK, Idle
<1> QED
  BY <1>1 DEF Exit, TypeOK

(* The classification leaves a listed server out of an accepted push only  *)
(* if there is nothing to delete on it.                                    *)
LEMMA ClassificationDelivers ==
    ASSUME TypeOK, NEW h \in Helpers, NEW nostr \in RefMap, NEW b \in Batches(h, nostr),
           NEW r \in Refs, Retained(h, nostr, b)[r] # NoSpec,
           NEW s \in Listed(h), r \notin RemoteRefspecs(h, nostr, b)[s]
    PROVE  b[r].from = NoCommit /\ listOutputs[h][s][r] = NoCommit
<1> DEFINE remote == listOutputs[h][s][r]
<1>1. s \in Servers
  BY DEF Listed
<1>2. /\ r \notin Rejected(h, nostr, b)
      /\ b[r] # NoSpec
      /\ r \in Sent(b)
  BY DEF Retained, Sent
<1>3. ~Rejects(Known(h, b), nostr[r], remote, b[r])
  BY <1>2 DEF Rejected
<1>4. ~Sends(Known(h, b), nostr[r], remote, b[r])
  BY <1>1, <1>2 DEF RemoteRefspecs
<1>5. GitSends(h, nostr[r], b[r])
  BY <1>2 DEF Batches
<1>6. b[r] \in PushSpec
  BY <1>2 DEF Batches
<1>7. CASE b[r].from # NoCommit
  <2>1. remote # NoCommit /\ nostr[r] = remote
    BY <1>3, <1>4, <1>7 DEF Sends, OutOfSync
  <2>2. b[r].force = FALSE
    BY <1>4, <1>6, <1>7, <2>1 DEF Sends, PushSpec
  <2>3. nostr[r] \in objects[h] /\ FastForward(nostr[r], b[r].from)
    BY <1>5, <1>7, <2>1, <2>2 DEF GitSends
  <2> QED
    BY <1>4, <1>7, <2>1, <2>3 DEF Sends, Known
<1> QED
  BY <1>4, <1>7 DEF Sends

(* Every step keeps the promise of AcceptedGoesEverywhere.                 *)
LEMMA DeliversStep ==
    ASSUME TypeOK, AcceptedGoesEverywhere, [Next]_vars
    PROVE  AcceptedGoesEverywhere'
<1>1. ASSUME NEW h \in Helpers, RunPush(h) PROVE AcceptedGoesEverywhere'
  <2>1. CASE Exit(h)
    BY <2>1, ExitDelivers
  <2>2. CASE ~Exit(h)
    <3>1. PICK nostr \in StateInUse(h) : \E b \in Batches(h, nostr) :
            /\ batch' = [batch EXCEPT ![h] = Retained(h, nostr, b)]
            /\ toPush' = [toPush EXCEPT ![h] = RemoteRefspecs(h, nostr, b)]
            /\ pc' = [pc EXCEPT ![h] = "publish"]
            /\ UNCHANGED listOutputs
      BY <1>1, <2>2 DEF RunPush
    <3>2. PICK b \in Batches(h, nostr) :
            /\ batch' = [batch EXCEPT ![h] = Retained(h, nostr, b)]
            /\ toPush' = [toPush EXCEPT ![h] = RemoteRefspecs(h, nostr, b)]
            /\ pc' = [pc EXCEPT ![h] = "publish"]
            /\ UNCHANGED listOutputs
      BY <3>1
    <3>3. nostr \in RefMap
      BY StateInUseType
    <3>4. ASSUME NEW r \in Refs, Retained(h, nostr, b)[r] # NoSpec,
                 NEW s \in Listed(h), r \notin RemoteRefspecs(h, nostr, b)[s]
          PROVE  /\ Retained(h, nostr, b)[r].from = NoCommit
                 /\ listOutputs[h][s][r] = NoCommit
      BY <3>3, <3>4, ClassificationDelivers DEF Retained
    <3>5. /\ batch'[h] = Retained(h, nostr, b)
          /\ toPush'[h] = RemoteRefspecs(h, nostr, b)
          /\ listOutputs' = listOutputs
          /\ \A g \in Helpers \ {h} : /\ pc'[g] = pc[g]
                                      /\ batch'[g] = batch[g]
                                      /\ toPush'[g] = toPush[g]
      BY <3>2 DEF TypeOK
    <3> QED
      BY <3>4, <3>5 DEF AcceptedGoesEverywhere, Accepted, Listed
  <2> QED
    BY <2>1, <2>2
<1>2. ASSUME NEW h \in Helpers,
             Connect(h) \/ RunList(h) \/ RunFetch(h) \/ Quit(h) \/ CreateAndPublishEvents(h)
               \/ UpdateRemoteRefsPushed(h) \/ Finish(h) \/ Crash(h)
      PROVE  AcceptedGoesEverywhere'
  <2>1. CASE Exit(h)
    BY <2>1, ExitDelivers
  <2>2. CASE ~Exit(h)
    <3>1. /\ UNCHANGED <<batch, toPush>>
          /\ \A g \in Helpers : pc'[g] \in {"publish", "report"} =>
               pc[g] \in {"publish", "report"} /\ listOutputs'[g] = listOutputs[g]
      BY <1>2, <2>2 DEF Connect, RunList, RunFetch, Quit, CreateAndPublishEvents,
         UpdateRemoteRefsPushed, Finish, Crash, pushVars, TypeOK
    <3> QED
      BY <3>1 DEF AcceptedGoesEverywhere, Accepted, Listed
  <2> QED
    BY <2>1, <2>2
<1>3. ASSUME NEW h \in Helpers, NEW s \in Servers, PushToRemote(h, s)
      PROVE  AcceptedGoesEverywhere'
  <2>1. /\ pc[h] = "push"
        /\ UNCHANGED <<pc, batch, listOutputs>>
        /\ \A g \in Helpers \ {h} : toPush'[g] = toPush[g]
    BY <1>3 DEF PushToRemote, TypeOK
  <2> QED
    BY <2>1 DEF AcceptedGoesEverywhere, Accepted, Listed
<1>4. CASE UNCHANGED vars \/ \E s \in Servers, r \in Refs, c \in env.commits : DirectPush(s, r, c)
  BY <1>4 DEF vars, pushVars, DirectPush, AcceptedGoesEverywhere, Accepted, Listed
<1> QED
  BY <1>1, <1>2, <1>3, <1>4 DEF Next, HelperStep

(* Merging stores of events takes one of them.                             *)
LEMMA LatestIsOne == \A es : Latest(es) # NoEvent => Latest(es) \in es
BY DEF Latest, Newest

(* A fetch from relays caches what a relay has, or keeps what it had.      *)
LEMMA ConnectCaches ==
    ASSUME TypeOK, NEW h \in Helpers, Connect(h), NEW u \in Users, cache'[h][u] # NoEvent
    PROVE  cache'[h][u] = cache[h][u] \/ \E rl \in Relays : cache'[h][u] = relayState[rl][u]
<1> DEFINE stores(answered) == {relayState[rl] : rl \in answered} \cup {cache[h]}
<1>1. PICK answered \in SUBSET Relays :
        cache' = [cache EXCEPT ![h] = [v \in Users |->
                    IF v \in Maintainers THEN Latest(EventsOf(stores(answered), v))
                                         ELSE cache[h][v]]]
  BY DEF Connect, Answering
<1>2. cache'[h][u] = IF u \in Maintainers THEN Latest(EventsOf(stores(answered), u))
                                          ELSE cache[h][u]
  BY <1>1 DEF TypeOK
<1>3. CASE u \in Maintainers
  <2>1. cache'[h][u] \in EventsOf(stores(answered), u)
    BY <1>2, <1>3, LatestIsOne
  <2> QED
    BY <2>1 DEF EventsOf
<1> QED
  BY <1>2, <1>3

(* The event a helper signs is newer than every other one, and only relays *)
(* and caches that take it change.                                         *)
LEMMA PublishWrites ==
    ASSUME TypeOK, NEW h \in Helpers, CreateAndPublishEvents(h),
           ~UNCHANGED <<relayState, clock, cache>>
    PROVE  \E took \in SUBSET Relays, event \in StateEvent :
             /\ "relay_fault" \notin env.may => took = Relays
             /\ event.at = clock + 1 /\ event.refs = UpdatedState(h)
             /\ clock' = clock + 1
             /\ \A rl \in Relays, u \in Users : relayState'[rl][u] =
                   IF rl \in took /\ u = Owner[h] THEN event ELSE relayState[rl][u]
             /\ \A g \in Helpers, u \in Users : cache'[g][u] =
                   IF took # {} /\ g = h /\ u = Owner[h] THEN event ELSE cache[g][u]
<1> DEFINE event == [at |-> clock + 1, refs |-> UpdatedState(h)]
<1>1. PICK took \in Answering(Relays, "relay_fault") :
        /\ clock' = clock + 1
        /\ relayState' = [rl \in Relays |->
              IF rl \in took THEN [relayState[rl] EXCEPT ![Owner[h]] = event]
              ELSE relayState[rl]]
        /\ cache' = IF took = {} THEN cache
                    ELSE [cache EXCEPT ![h][Owner[h]] = event]
  BY DEF CreateAndPublishEvents, CacheWith, sharedVars, cloneVars
<1>2. took \in SUBSET Relays /\ ("relay_fault" \notin env.may => took = Relays)
  BY DEF Answering
<1>3. event \in StateEvent /\ event.at = clock + 1 /\ event.refs = UpdatedState(h)
  BY UpdatedStateType DEF StateEvent, TypeOK
<1> HIDE DEF event
<1>4. Owner[h] \in Users
  BY RemoteHelperAssumption
<1>5. \A rl \in Relays, u \in Users : relayState'[rl][u] =
        IF rl \in took /\ u = Owner[h] THEN event ELSE relayState[rl][u]
  BY <1>1 DEF TypeOK
<1>6. \A g \in Helpers, u \in Users : cache'[g][u] =
        IF took # {} /\ g = h /\ u = Owner[h] THEN event ELSE cache[g][u]
  BY <1>1 DEF TypeOK
<1> QED
  BY <1>1, <1>2, <1>3, <1>5, <1>6

(* Every step keeps the cache behind the relays.                           *)
LEMMA CacheStep ==
    ASSUME TypeOK, CacheInv, [Next]_vars
    PROVE  CacheInv'
<1>1. CASE UNCHANGED <<relayState, clock, cache>>
  BY <1>1 DEF CacheInv, EventsTimed, CacheTimed, CachedIsPublished
<1>2. ASSUME NEW h \in Helpers, Connect(h) PROVE CacheInv'
  <2>1. /\ UNCHANGED <<relayState, clock>>
        /\ \A g \in Helpers \ {h} : cache'[g] = cache[g]
    BY <1>2 DEF Connect, sharedVars, TypeOK
  <2>2. ASSUME NEW u \in Users, cache'[h][u] # NoEvent
        PROVE  cache'[h][u] = cache[h][u] \/ \E rl \in Relays : cache'[h][u] = relayState[rl][u]
    BY <1>2, <2>2, ConnectCaches
  <2>3. EventsTimed' /\ CacheTimed'
    BY <2>1, <2>2 DEF CacheInv, EventsTimed, CacheTimed
  <2>4. ASSUME NEW u \in Users, cache'[h][u] # NoEvent
        PROVE  \E rl \in Relays : /\ relayState[rl][u] # NoEvent
                                  /\ relayState[rl][u].at >= cache'[h][u].at
    <3>1. CASE cache'[h][u] = cache[h][u]
      BY <2>4, <3>1 DEF CacheInv, CachedIsPublished
    <3>2. CASE \E rl \in Relays : cache'[h][u] = relayState[rl][u]
      <4>1. PICK rl \in Relays : cache'[h][u] = relayState[rl][u]
        BY <3>2
      <4>2. relayState[rl][u].at \in Nat
        BY <2>4, <4>1 DEF TypeOK, StateEvent
      <4> QED
        BY <2>4, <4>1, <4>2
    <3> QED
      BY <2>2, <2>4, <3>1, <3>2
  <2> QED
    BY <2>1, <2>3, <2>4 DEF CacheInv, CachedIsPublished
<1>3. ASSUME NEW h \in Helpers, CreateAndPublishEvents(h),
             ~UNCHANGED <<relayState, clock, cache>>
      PROVE  CacheInv'
  <2>1. PICK took \in SUBSET Relays, event \in StateEvent :
          /\ "relay_fault" \notin env.may => took = Relays
          /\ event.at = clock + 1 /\ event.refs = UpdatedState(h)
          /\ clock' = clock + 1
          /\ \A rl \in Relays, u \in Users : relayState'[rl][u] =
                IF rl \in took /\ u = Owner[h] THEN event ELSE relayState[rl][u]
          /\ \A g \in Helpers, u \in Users : cache'[g][u] =
                IF took # {} /\ g = h /\ u = Owner[h] THEN event ELSE cache[g][u]
    BY <1>3, PublishWrites
  <2>2. event # NoEvent /\ clock \in Nat
    BY RemoteHelperAssumption DEF TypeOK
  <2>3. \A e \in StateEvent : e.at \in Nat
    BY DEF StateEvent
  <2>4. ASSUME NEW rl \in Relays, NEW u \in Users, relayState[rl][u] # NoEvent
        PROVE  relayState[rl][u].at \in Nat /\ relayState[rl][u].at <= clock
    BY <2>3, <2>4 DEF TypeOK, CacheInv, EventsTimed
  <2>5. ASSUME NEW g \in Helpers, NEW u \in Users, cache[g][u] # NoEvent
        PROVE  cache[g][u].at \in Nat /\ cache[g][u].at <= clock
    BY <2>3, <2>5 DEF TypeOK, CacheInv, CacheTimed
  <2>6. EventsTimed'
    BY <2>1, <2>2, <2>4 DEF EventsTimed
  <2>7. CacheTimed'
    BY <2>1, <2>2, <2>5 DEF CacheTimed
  <2>8. ASSUME NEW g \in Helpers, NEW u \in Users, cache'[g][u] # NoEvent
        PROVE  \E rl \in Relays : /\ relayState'[rl][u] # NoEvent
                                  /\ relayState'[rl][u].at >= cache'[g][u].at
    <3>1. CASE took # {} /\ g = h /\ u = Owner[h]
      BY <2>1, <2>2, <3>1
    <3>2. CASE ~(took # {} /\ g = h /\ u = Owner[h])
      <4>1. cache'[g][u] = cache[g][u]
        BY <2>1, <3>2
      <4>2. PICK rl \in Relays : /\ relayState[rl][u] # NoEvent
                                 /\ relayState[rl][u].at >= cache[g][u].at
        BY <2>8, <4>1 DEF CacheInv, CachedIsPublished
      <4>3. cache[g][u].at \in Nat /\ cache[g][u].at <= clock
        BY <2>5, <2>8, <4>1
      <4>4. relayState'[rl][u] \in {event, relayState[rl][u]}
        BY <2>1
      <4> QED
        BY <2>1, <2>2, <4>1, <4>2, <4>3, <4>4
    <3> QED
      BY <3>1, <3>2
  <2> QED
    BY <2>6, <2>7, <2>8 DEF CacheInv, CachedIsPublished
<1>4. ASSUME NEW h \in Helpers, RunList(h) \/ RunPush(h) \/ RunFetch(h) \/ Quit(h)
                 \/ UpdateRemoteRefsPushed(h) \/ Finish(h) \/ Crash(h)
                 \/ \E s \in Servers : PushToRemote(h, s)
      PROVE  UNCHANGED <<relayState, clock, cache>>
  BY <1>4 DEF RunList, RunPush, RunFetch, Quit, UpdateRemoteRefsPushed, Finish, Crash,
     PushToRemote, sharedVars, cloneVars
<1>5. CASE UNCHANGED vars \/ \E s \in Servers, r \in Refs, c \in env.commits : DirectPush(s, r, c)
  BY <1>1, <1>5 DEF vars, sharedVars, cloneVars, DirectPush
<1> QED
  BY <1>1, <1>2, <1>3, <1>4, <1>5 DEF Next, HelperStep

(* Whoever overlaps with whom and whatever fails, an accepted ref goes to  *)
(* every server the helper listed unless it is a branch the server does    *)
(* not have and that is deleted, and a cached state event of any account   *)
(* is on some relay, or a newer one of that account is.                    *)
THEOREM AcceptedIsDelivered == Spec => []DeliversAccepted
<1>1. Init => AcceptedGoesEverywhere /\ CacheInv
  BY DEF Init, AcceptedGoesEverywhere, CacheInv, EventsTimed, CacheTimed, CachedIsPublished, Idle
<1>2. TypeOK /\ AcceptedGoesEverywhere /\ [Next]_vars => AcceptedGoesEverywhere'
  BY DeliversStep
<1>3. TypeOK /\ CacheInv /\ [Next]_vars => CacheInv'
  BY CacheStep
<1>4. AcceptedGoesEverywhere /\ CacheInv => DeliversAccepted
  BY DEF CacheInv, DeliversAccepted
<1> QED
  BY <1>1, <1>2, <1>3, <1>4, TypeCorrect, PTL DEF Spec

-----------------------------------------------------------------------------
(* The inductive invariant of a helper that is alone.  All relays have the *)
(* same event, a helper that runs has it in its cache, and from the moment *)
(* it publishes what it tells git and the servers is the shared state.     *)

Shared == [r \in Refs |-> SharedState(r)]

RelaysAgree == \A rl, rm \in Relays : relayState[rl] = relayState[rm]

CacheBehind ==
    \A h \in Helpers, rl \in Relays, u \in Maintainers : cache[h][u] # NoEvent =>
        /\ relayState[rl][u] # NoEvent
        /\ cache[h][u] = relayState[rl][u] \/ cache[h][u].at < relayState[rl][u].at

RunningIsCurrent ==
    \A h \in Helpers, rl \in Relays, u \in Maintainers :
        pc[h] # Idle => cache[h][u] = relayState[rl][u]

NothingYet ==
    \A rl \in Relays, u \in Maintainers :
        relayState[rl][u] = NoEvent => \A s \in Servers : server[s] = InitRefs

StartsFromShared ==
    \A h \in Helpers : pc[h] = "publish" => existingState[h] = Shared

UpdatedIsShared ==
    \A h \in Helpers : pc[h] \in {"report", "push"} => UpdatedState(h) = Shared

AcceptedIsPublished ==
    \A h \in Helpers, rl \in Relays, u \in Maintainers :
        pc[h] \in {"report", "push"} /\ Accepted(h) # {} => relayState[rl][u] # NoEvent

RelaysInv == RelaysAgree /\ CacheBehind /\ RunningIsCurrent /\ NothingYet
StateInv == StartsFromShared /\ UpdatedIsShared /\ AcceptedIsPublished
AloneInv == RelaysInv /\ StateInv

(* What Alone says of the one account u.                                   *)
AloneAs(u) ==
    /\ Exclusive
    /\ "relay_fault" \notin env.may /\ "direct" \notin env.may /\ "nostate" \notin env.may
    /\ Maintainers = {u}
    /\ \A h \in Helpers : Owner[h] = u

Invs == TypeInv /\ OverwriteInv /\ CacheInv /\ AloneInv

(* With one state event there is nothing to select.                        *)
LEMMA OneEvent ==
    ASSUME NEW e \in StateEvent
    PROVE  /\ Newest({e}) = {e}
           /\ Latest({e}) = e
           /\ (CHOOSE f \in Selected({e}) : TRUE) = e
           /\ Selected({e}) = {e}
<1>1. e.at \in Nat
  BY DEF StateEvent
<1>2. Newest({e}) = {e} /\ Selected({e}) = {e}
  BY <1>1 DEF Newest, Selected
<1> QED
  BY <1>2 DEF Latest

(* When the relays have one event between them, it is the shared state ... *)
LEMMA SharedFromOne ==
    ASSUME NEW event \in StateEvent, Relays # {}, Maintainers # {},
           \A rl \in Relays, u \in Maintainers : relayState[rl][u] = event
    PROVE  \A r : SharedState(r) = event.refs[r]
<1> DEFINE published == {relayState[rl][u] : rl \in Relays, u \in Maintainers} \ {NoEvent}
<1>1. published = {event}
  BY RemoteHelperAssumption
<1>2. \A r : SharedState(r) = IF published = {} THEN InitRefs[r]
                ELSE (CHOOSE e \in Selected(published) : TRUE).refs[r]
  BY DEF SharedState
<1> HIDE DEF published
<1>3. (CHOOSE e \in Selected(published) : TRUE) = event
  BY <1>1, OneEvent
<1> QED
  BY <1>1, <1>2, <1>3

(* ... also after a step.                                                  *)
LEMMA SharedFromOneNext ==
    ASSUME NEW event \in StateEvent, Relays # {}, Maintainers # {},
           \A rl \in Relays, u \in Maintainers : relayState'[rl][u] = event
    PROVE  \A r : SharedState(r)' = event.refs[r]
<1> DEFINE published == {relayState'[rl][u] : rl \in Relays, u \in Maintainers} \ {NoEvent}
<1>1. published = {event}
  BY RemoteHelperAssumption
<1>2. \A r : SharedState(r)' = IF published = {} THEN InitRefs[r]
                ELSE (CHOOSE e \in Selected(published) : TRUE).refs[r]
  BY DEF SharedState
<1> HIDE DEF published
<1>3. (CHOOSE e \in Selected(published) : TRUE) = event
  BY <1>1, OneEvent
<1> QED
  BY <1>1, <1>2, <1>3

(* With one account the shared state is what any relay has ...             *)
LEMMA SharedIs ==
    ASSUME TypeOK, RelaysAgree, NEW rl \in Relays, NEW u \in Users, Maintainers = {u}
    PROVE  /\ relayState[rl][u] = NoEvent => Shared = InitRefs
           /\ relayState[rl][u] # NoEvent => Shared = relayState[rl][u].refs
           /\ Shared \in RefMap
<1>1. {relayState[rm][v] : rm \in Relays, v \in Maintainers} = {relayState[rl][u]}
  BY DEF RelaysAgree
<1>2. CASE relayState[rl][u] = NoEvent
  <2>1. \A r \in Refs : SharedState(r) = InitRefs[r]
    BY <1>1, <1>2 DEF SharedState
  <2> QED
    BY <1>2, <2>1, RemoteHelperAssumption DEF Shared, RefMap
<1>3. CASE relayState[rl][u] # NoEvent
  <2>1. relayState[rl][u] \in StateEvent
    BY <1>3 DEF TypeOK
  <2>4. \A rm \in Relays, v \in Maintainers : relayState[rm][v] = relayState[rl][u]
    BY DEF RelaysAgree
  <2>2. \A r \in Refs : SharedState(r) = relayState[rl][u].refs[r]
    BY <2>1, <2>4, SharedFromOne
  <2>3. relayState[rl][u].refs \in RefMap
    BY <2>1 DEF StateEvent
  <2> QED
    BY <1>3, <2>2, <2>3 DEF Shared, RefMap
<1> QED
  BY <1>2, <1>3

(* ... also after a step.                                                  *)
LEMMA SharedIsNext ==
    ASSUME TypeOK', RelaysAgree', NEW rl \in Relays, NEW u \in Users, Maintainers = {u}
    PROVE  /\ relayState'[rl][u] # NoEvent => Shared' = relayState'[rl][u].refs
           /\ Shared' \in RefMap
<1>1. {relayState'[rm][v] : rm \in Relays, v \in Maintainers} = {relayState'[rl][u]}
  BY DEF RelaysAgree
<1>2. CASE relayState'[rl][u] = NoEvent
  <2>1. \A r \in Refs : SharedState(r)' = InitRefs[r]
    BY <1>1, <1>2 DEF SharedState
  <2> QED
    BY <1>2, <2>1, RemoteHelperAssumption DEF Shared, RefMap
<1>3. CASE relayState'[rl][u] # NoEvent
  <2>1. relayState'[rl][u] \in StateEvent
    BY <1>3 DEF TypeOK
  <2>4. \A rm \in Relays, v \in Maintainers : relayState'[rm][v] = relayState'[rl][u]
    BY DEF RelaysAgree
  <2>2. \A r \in Refs : SharedState(r)' = relayState'[rl][u].refs[r]
    BY <2>1, <2>4, SharedFromOneNext
  <2>3. relayState'[rl][u].refs \in RefMap
    BY <2>1 DEF StateEvent
  <2> QED
    BY <1>3, <2>2, <2>3 DEF Shared, RefMap
<1> QED
  BY <1>2, <1>3

(* A helper that has listed the refs uses the shared state.                *)
LEMMA ReadsShared ==
    ASSUME Invs, NEW u \in Users, AloneAs(u), Relays # {},
           NEW h \in Helpers, pc[h] = "listed"
    PROVE  StateInUse(h) \subseteq {Shared}
<1> PICK rl \in Relays : TRUE
  OBVIOUS
<1>1. CachedStates(h) = {relayState[rl][u]} \ {NoEvent}
  BY DEF Invs, AloneInv, RelaysInv, RunningIsCurrent, AloneAs, CachedStates, Idle
<1>2. /\ relayState[rl][u] = NoEvent => Shared = InitRefs
      /\ relayState[rl][u] # NoEvent => Shared = relayState[rl][u].refs
  BY SharedIs DEF Invs, TypeInv, AloneInv, RelaysInv, AloneAs
<1>3. CASE relayState[rl][u] = NoEvent
  <2>1. CachedStates(h) = {}
    BY <1>1, <1>3
  <2>2. \A s \in Listed(h) : listOutputs[h][s] = Shared
    BY <1>2, <1>3 DEF Listed, Invs, OverwriteInv, ListedIsCurrent, AloneInv, RelaysInv,
       NothingYet, AloneAs
  <2> QED
    BY <2>1, <2>2 DEF StateInUse, FirstListed
<1>4. CASE relayState[rl][u] # NoEvent
  <2>1. relayState[rl][u] \in StateEvent
    BY <1>4 DEF Invs, TypeInv, TypeOK
  <2>2. CachedStates(h) = {relayState[rl][u]}
    BY <1>1, <1>4
  <2>3. Selected(CachedStates(h)) = {relayState[rl][u]}
    BY <2>1, <2>2, OneEvent
  <2> QED
    BY <1>2, <1>4, <2>2, <2>3 DEF StateInUse, NostrState
<1> QED
  BY <1>3, <1>4

(* The shared state is what the relays hold, and nothing else.             *)
LEMMA SameShared == UNCHANGED relayState => Shared' = Shared
BY DEF Shared, SharedState

(* A helper that ends leaves the relays, the servers and the cache alone.  *)
LEMMA ExitAlone ==
    ASSUME TypeInv, AloneInv, NEW h \in Helpers, Exit(h), UNCHANGED <<relayState, server, cache>>
    PROVE  AloneInv'
<1>1. \A g \in Helpers : pc'[g] # Idle =>
        /\ pc'[g] = pc[g]
        /\ batch'[g] = batch[g]
        /\ existingState'[g] = existingState[g]
  BY DEF Exit, TypeInv, TypeOK
<1>2. RelaysInv'
  BY <1>1 DEF AloneInv, RelaysInv, RelaysAgree, CacheBehind, RunningIsCurrent, NothingYet
<1>3. StateInv'
  BY <1>1, SameShared DEF AloneInv, StateInv, StartsFromShared, UpdatedIsShared,
     AcceptedIsPublished, Accepted, UpdatedState, Idle
<1> QED
  BY <1>2, <1>3 DEF AloneInv

(* AloneInv over the fetch from relays: the cache gets what they have.     *)
LEMMA ConnectAlone ==
    ASSUME Invs, NEW u \in Users, AloneAs(u), NEW h \in Helpers, Connect(h)
    PROVE  AloneInv'
<1>1. /\ pc' = [pc EXCEPT ![h] = "connected"]
      /\ UNCHANGED <<relayState, server, existingState, batch>>
      /\ \A g \in Helpers \ {h} : cache'[g] = cache[g]
  BY DEF Connect, sharedVars, pushVars, Invs, TypeInv, TypeOK
<1>2. \A g \in Helpers : pc[g] = Idle
  BY MayRunIdle DEF Connect, AloneAs
<1>3. ASSUME NEW rl \in Relays PROVE cache'[h][u] = relayState[rl][u]
  <2> DEFINE stores == {relayState[rm] : rm \in Relays} \cup {cache[h]}
  <2>1. cache' = [cache EXCEPT ![h] = [v \in Users |->
                    IF v \in Maintainers THEN Latest(EventsOf(stores, v)) ELSE cache[h][v]]]
    BY DEF Connect, Answering, AloneAs
  <2>2. cache'[h][u] = Latest(EventsOf(stores, u))
    BY <2>1 DEF Invs, TypeInv, TypeOK, AloneAs
  <2>3. {store[u] : store \in stores} = {relayState[rl][u], cache[h][u]}
    BY DEF Invs, AloneInv, RelaysInv, RelaysAgree
  <2>4. EventsOf(stores, u) = {relayState[rl][u], cache[h][u]} \ {NoEvent}
    BY <2>3 DEF EventsOf
  <2>5. CASE relayState[rl][u] = NoEvent
    <3>1. EventsOf(stores, u) = {}
      BY <2>4, <2>5 DEF Invs, AloneInv, RelaysInv, CacheBehind, AloneAs
    <3>2. Latest({}) = NoEvent
      BY DEF Latest, Newest
    <3> QED
      BY <2>2, <2>5, <3>1, <3>2
  <2>6. CASE relayState[rl][u] # NoEvent /\ (cache[h][u] = NoEvent \/ cache[h][u] = relayState[rl][u])
    <3>1. EventsOf(stores, u) = {relayState[rl][u]}
      BY <2>4, <2>6
    <3>2. relayState[rl][u] \in StateEvent
      BY <2>6 DEF Invs, TypeInv, TypeOK
    <3> QED
      BY <2>2, <3>1, <3>2, OneEvent
  <2>7. CASE relayState[rl][u] # NoEvent /\ cache[h][u] # NoEvent /\ cache[h][u] # relayState[rl][u]
    <3>1. /\ relayState[rl][u] \in StateEvent
          /\ cache[h][u] \in StateEvent
          /\ cache[h][u].at < relayState[rl][u].at
      BY <2>7 DEF Invs, TypeInv, TypeOK, AloneInv, RelaysInv, CacheBehind, AloneAs
    <3>2. relayState[rl][u].at \in Nat /\ cache[h][u].at \in Nat
      BY <3>1 DEF StateEvent
    <3>3. Newest({relayState[rl][u], cache[h][u]}) = {relayState[rl][u]}
      BY <3>1, <3>2 DEF Newest
    <3>4. EventsOf(stores, u) = {relayState[rl][u], cache[h][u]}
      BY <2>4, <2>7
    <3> QED
      BY <2>2, <3>3, <3>4 DEF Latest
  <2> QED
    BY <2>5, <2>6, <2>7
<1>4. RelaysInv'
  <2>1. CacheBehind'
    BY <1>1, <1>3 DEF Invs, AloneInv, RelaysInv, CacheBehind, AloneAs
  <2>2. RunningIsCurrent'
    BY <1>1, <1>2, <1>3 DEF RunningIsCurrent, AloneAs, Invs, TypeInv, TypeOK
  <2> QED
    BY <1>1, <2>1, <2>2 DEF Invs, AloneInv, RelaysInv, RelaysAgree, NothingYet
<1>5. \A g \in Helpers : pc'[g] \notin {"publish", "report", "push"}
  BY <1>1, <1>2 DEF Invs, TypeInv, TypeOK, Idle
<1>6. StateInv'
  BY <1>5 DEF StateInv, StartsFromShared, UpdatedIsShared, AcceptedIsPublished
<1> QED
  BY <1>4, <1>6 DEF AloneInv

(* AloneInv over listing.                                                  *)
LEMMA ListAlone ==
    ASSUME Invs, NEW h \in Helpers, RunList(h)
    PROVE  AloneInv'
<1>1. UNCHANGED <<relayState, server, cache>>
  BY DEF RunList, sharedVars, cloneVars
<1>2. CASE Exit(h)
  BY <1>1, <1>2, ExitAlone DEF Invs
<1>3. CASE ~Exit(h)
  <2>1. /\ pc[h] = "connected"
        /\ pc' = [pc EXCEPT ![h] = "listed"]
        /\ UNCHANGED <<existingState, batch>>
    BY <1>3 DEF RunList, pushVars
  <2>2. RelaysInv'
    BY <1>1, <2>1 DEF Invs, TypeInv, TypeOK, AloneInv, RelaysInv, RelaysAgree, CacheBehind,
       RunningIsCurrent, NothingYet, Idle
  <2>3. StateInv'
    BY <1>1, <2>1, SameShared DEF Invs, TypeInv, TypeOK, AloneInv, StateInv, StartsFromShared,
       UpdatedIsShared, AcceptedIsPublished, Accepted, UpdatedState
  <2> QED
    BY <2>2, <2>3 DEF AloneInv
<1> QED
  BY <1>2, <1>3

(* AloneInv over the choice of what to push, which starts from the shared  *)
(* state.                                                                  *)
LEMMA PushAlone ==
    ASSUME Invs, NEW u \in Users, AloneAs(u), Relays # {}, NEW h \in Helpers, RunPush(h)
    PROVE  AloneInv'
<1>1. UNCHANGED <<relayState, server, cache>>
  BY DEF RunPush, sharedVars
<1>2. CASE Exit(h)
  BY <1>1, <1>2, ExitAlone DEF Invs
<1>3. CASE ~Exit(h)
  <2>1. PICK nostr \in StateInUse(h) :
          /\ pc[h] = "listed"
          /\ pc' = [pc EXCEPT ![h] = "publish"]
          /\ existingState' = [existingState EXCEPT ![h] = nostr]
          /\ \A g \in Helpers \ {h} : batch'[g] = batch[g]
    BY <1>3 DEF RunPush, Invs, TypeInv, TypeOK
  <2>2. nostr = Shared
    BY <2>1, ReadsShared
  <2>3. RelaysInv'
    BY <1>1, <2>1 DEF Invs, TypeInv, TypeOK, AloneInv, RelaysInv, RelaysAgree, CacheBehind,
       RunningIsCurrent, NothingYet, Idle
  <2>4. StartsFromShared'
    BY <1>1, <2>1, <2>2, SameShared DEF Invs, TypeInv, TypeOK, AloneInv, StateInv, StartsFromShared
  <2>5. \A g \in Helpers : pc'[g] \in {"report", "push"} =>
          /\ pc[g] \in {"report", "push"}
          /\ batch'[g] = batch[g] /\ existingState'[g] = existingState[g]
    BY <2>1 DEF Invs, TypeInv, TypeOK
  <2>6. UpdatedIsShared' /\ AcceptedIsPublished'
    BY <1>1, <2>5, SameShared DEF Invs, AloneInv, StateInv, UpdatedIsShared,
       AcceptedIsPublished, Accepted, UpdatedState
  <2> QED
    BY <2>3, <2>4, <2>6 DEF AloneInv, StateInv
<1> QED
  BY <1>2, <1>3

(* Publishing when there is nothing to publish leaves the shared state, and *)
(* otherwise makes the updated state the shared one.                       *)
LEMMA PublishAlone ==
    ASSUME Invs, TypeOK', NEW u \in Users, AloneAs(u), Relays # {}, NEW h \in Helpers,
           CreateAndPublishEvents(h)
    PROVE  AloneInv'
<1>1. CASE Exit(h) /\ UNCHANGED <<sharedVars, cloneVars>>
  BY <1>1, ExitAlone DEF Invs, sharedVars, cloneVars
<1>2. CASE ~(Exit(h) /\ UNCHANGED <<sharedVars, cloneVars>>)
  <2>1. /\ pc[h] = "publish"
        /\ pc' = [pc EXCEPT ![h] = "report"]
        /\ UNCHANGED <<server, existingState, batch>>
    BY <1>2 DEF CreateAndPublishEvents, pushVars
  <2>2. \A g \in Helpers : g # h => pc[g] = Idle /\ pc'[g] = Idle
    BY <2>1 DEF Invs, TypeInv, TypeOK, OverwriteInv, OneRunning, Idle
  <2>3. UpdatedState(h)' = UpdatedState(h) /\ Accepted(h)' = Accepted(h)
    BY <2>1 DEF UpdatedState, Accepted
  <2>4. CASE Accepted(h) = {}
    <3>1. UNCHANGED <<relayState, cache>>
      BY <1>2, <2>4 DEF CreateAndPublishEvents
    <3>2. RelaysInv'
      BY <2>1, <3>1 DEF Invs, TypeInv, TypeOK, AloneInv, RelaysInv, RelaysAgree, CacheBehind,
         RunningIsCurrent, NothingYet, Idle
    <3>3. UpdatedState(h) = Shared
      <4>1. existingState[h] = Shared
        BY <2>1 DEF Invs, AloneInv, StateInv, StartsFromShared
      <4> QED
        BY <2>4, <4>1 DEF UpdatedState, Shared
    <3>4. StateInv'
      BY <2>1, <2>2, <2>3, <2>4, <3>1, <3>3, SameShared DEF StateInv, StartsFromShared,
         UpdatedIsShared, AcceptedIsPublished, Idle, Invs, TypeInv, TypeOK
    <3> QED
      BY <3>2, <3>4 DEF AloneInv
  <2>5. CASE Accepted(h) # {}
    <3>1. ~UNCHANGED <<relayState, clock, cache>>
      <4>1. clock' = clock + 1
        BY <1>2, <2>5 DEF CreateAndPublishEvents, AloneAs
      <4> QED
        BY <4>1 DEF Invs, TypeInv, TypeOK
    <3>2. PICK took \in SUBSET Relays, event \in StateEvent :
            /\ "relay_fault" \notin env.may => took = Relays
            /\ event.at = clock + 1 /\ event.refs = UpdatedState(h)
            /\ clock' = clock + 1
            /\ \A rl \in Relays, v \in Users : relayState'[rl][v] =
                  IF rl \in took /\ v = Owner[h] THEN event ELSE relayState[rl][v]
            /\ \A g \in Helpers, v \in Users : cache'[g][v] =
                  IF took # {} /\ g = h /\ v = Owner[h] THEN event ELSE cache[g][v]
      BY <3>1, PublishWrites DEF Invs, TypeInv
    <3>3. event # NoEvent
      BY RemoteHelperAssumption
    <3>4. took = Relays /\ Owner[h] = u
      BY <3>2 DEF AloneAs
    <3>5. \A rl \in Relays, v \in Users : relayState'[rl][v] =
            IF v = u THEN event ELSE relayState[rl][v]
      BY <3>2, <3>4
    <3>6. ASSUME NEW rl \in Relays, NEW g \in Helpers
          PROVE  cache'[g][u] = IF g = h THEN event ELSE cache[g][u]
      BY <3>2, <3>4
    <3>7. RelaysAgree'
      <4>1. ASSUME NEW rl \in Relays, NEW rm \in Relays PROVE relayState'[rl] = relayState'[rm]
        <5>1. \A v \in Users : relayState'[rl][v] = relayState'[rm][v]
          BY <3>5 DEF Invs, AloneInv, RelaysInv, RelaysAgree
        <5>2. /\ relayState'[rl] \in [Users -> StateEvent \cup {NoEvent}]
              /\ relayState'[rm] \in [Users -> StateEvent \cup {NoEvent}]
          BY DEF TypeOK
        <5> QED
          BY <5>1, <5>2
      <4> QED
        BY <4>1 DEF RelaysAgree
    <3>8. CacheBehind'
      <4>1. ASSUME NEW g \in Helpers, NEW rl \in Relays, cache'[g][u] # NoEvent
            PROVE  /\ relayState'[rl][u] # NoEvent
                   /\ \/ cache'[g][u] = relayState'[rl][u]
                      \/ cache'[g][u].at < relayState'[rl][u].at
        <5>1. CASE g = h
          BY <3>3, <3>5, <3>6, <5>1
        <5>2. CASE g # h
          <6>1. cache'[g][u] = cache[g][u]
            BY <3>6, <5>2
          <6>2. cache[g][u] \in StateEvent /\ cache[g][u].at <= clock
            BY <4>1, <6>1 DEF Invs, TypeInv, TypeOK, CacheInv, CacheTimed
          <6>3. cache[g][u].at \in Nat /\ clock \in Nat
            BY <6>2 DEF StateEvent, Invs, TypeInv, TypeOK
          <6> QED
            BY <3>2, <3>3, <3>5, <6>1, <6>2, <6>3
        <5> QED
          BY <5>1, <5>2
      <4> QED
        BY <4>1 DEF CacheBehind, AloneAs
    <3>9. RunningIsCurrent'
      BY <2>2, <3>5, <3>6 DEF RunningIsCurrent, AloneAs
    <3>10. NothingYet' /\ AcceptedIsPublished'
      BY <3>3, <3>5 DEF NothingYet, AcceptedIsPublished, AloneAs
    <3>11. Relays # {} => Shared' = UpdatedState(h)
      <4>1. ASSUME NEW rl \in Relays PROVE Shared' = UpdatedState(h)
        BY <3>2, <3>3, <3>5, <3>7, SharedIsNext DEF AloneAs
      <4> QED
        BY <4>1
    <3>12. Relays # {} => StartsFromShared' /\ UpdatedIsShared'
      BY <2>1, <2>2, <2>3, <3>11 DEF StartsFromShared, UpdatedIsShared, Idle, Invs, TypeInv, TypeOK
    <3> QED
      BY <3>7, <3>8, <3>9, <3>10, <3>12 DEF AloneInv, RelaysInv, StateInv
  <2> QED
    BY <2>4, <2>5
<1> QED
  BY <1>1, <1>2

(* AloneInv over the push to one server, which now has what was published. *)
LEMMA CopyAlone ==
    ASSUME Invs, NEW h \in Helpers, NEW s \in Servers, PushToRemote(h, s)
    PROVE  AloneInv'
<1>1. /\ pc[h] = "push"
      /\ toPush[h][s] # {}
      /\ UNCHANGED <<pc, relayState, cache, batch, existingState>>
  BY DEF PushToRemote, cloneVars
<1>2. Accepted(h) # {}
  BY <1>1 DEF Invs, TypeInv, PushesAccepted
<1>3. \A rl \in Relays, u \in Maintainers : relayState[rl][u] # NoEvent
  BY <1>1, <1>2 DEF Invs, AloneInv, StateInv, AcceptedIsPublished
<1>4. RelaysInv'
  BY <1>1, <1>3 DEF Invs, AloneInv, RelaysInv, RelaysAgree, CacheBehind, RunningIsCurrent,
     NothingYet
<1>5. StateInv'
  BY <1>1, SameShared DEF Invs, AloneInv, StateInv, StartsFromShared, UpdatedIsShared,
     AcceptedIsPublished, Accepted, UpdatedState
<1> QED
  BY <1>4, <1>5 DEF AloneInv

(* Every step of a helper that is alone keeps AloneInv.                    *)
LEMMA AloneStep ==
    ASSUME Invs, TypeOK', NEW u \in Users, AloneAs(u), Relays # {}, [Next]_vars
    PROVE  AloneInv'
<1>1. ASSUME NEW h \in Helpers, Connect(h) PROVE AloneInv'
  BY <1>1, ConnectAlone
<1>2. ASSUME NEW h \in Helpers, RunList(h) PROVE AloneInv'
  BY <1>2, ListAlone
<1>3. ASSUME NEW h \in Helpers, RunPush(h) PROVE AloneInv'
  BY <1>3, PushAlone
<1>4. ASSUME NEW h \in Helpers, RunFetch(h) \/ Quit(h) \/ Finish(h) \/ Crash(h)
      PROVE  AloneInv'
  BY <1>4, ExitAlone DEF RunFetch, Quit, Finish, Crash, sharedVars, cloneVars, Invs
<1>5. ASSUME NEW h \in Helpers, CreateAndPublishEvents(h) PROVE AloneInv'
  BY <1>5, PublishAlone
<1>6. ASSUME NEW h \in Helpers, UpdateRemoteRefsPushed(h) PROVE AloneInv'
  <2>1. /\ pc[h] = "report"
        /\ pc' = [pc EXCEPT ![h] = "push"]
        /\ UNCHANGED <<relayState, server, cache, batch, existingState>>
    BY <1>6 DEF UpdateRemoteRefsPushed, sharedVars, pushVars
  <2>2. \A g \in Helpers :
          /\ pc'[g] # Idle => pc[g] # Idle
          /\ pc'[g] = "publish" => pc[g] = "publish"
          /\ pc'[g] \in {"report", "push"} => pc[g] \in {"report", "push"}
    BY <2>1 DEF Invs, TypeInv, TypeOK, Idle
  <2>3. RelaysInv'
    BY <2>1, <2>2 DEF Invs, AloneInv, RelaysInv, RelaysAgree, CacheBehind, RunningIsCurrent,
       NothingYet
  <2>4. StateInv'
    BY <2>1, <2>2, SameShared DEF Invs, AloneInv, StateInv, StartsFromShared,
       UpdatedIsShared, AcceptedIsPublished, Accepted, UpdatedState
  <2> QED
    BY <2>3, <2>4 DEF AloneInv
<1>7. ASSUME NEW h \in Helpers, NEW s \in Servers, PushToRemote(h, s) PROVE AloneInv'
  BY <1>7, CopyAlone
<1>8. ASSUME NEW s \in Servers, NEW r \in Refs, NEW c \in env.commits, DirectPush(s, r, c)
      PROVE  AloneInv'
  BY <1>8 DEF DirectPush, AloneAs
<1>9. CASE UNCHANGED vars
  BY <1>9, SameShared DEF vars, sharedVars, cloneVars, pushVars, Invs, AloneInv, RelaysInv,
     RelaysAgree, CacheBehind, RunningIsCurrent, NothingYet, StateInv, StartsFromShared,
     UpdatedIsShared, AcceptedIsPublished, Accepted, UpdatedState
<1> QED
  BY <1>1, <1>2, <1>3, <1>4, <1>5, <1>6, <1>7, <1>8, <1>9 DEF Next, HelperStep

(* All invariants together, of a helper that is alone.                     *)
LEMMA InvsInit == Init => Invs
<1>1. Init => TypeInv
  BY TypeInit DEF Init, TypeInv, PushesAccepted, NothingToPush
<1>2. Init => OverwriteInv
  BY DEF Init, OverwriteInv, OneRunning, ListedIsCurrent, PushesAreSafe,
         NotYetPushing, NothingToPush, Idle
<1>3. Init => CacheInv
  BY DEF Init, CacheInv, EventsTimed, CacheTimed, CachedIsPublished
<1>4. Init => AloneInv
  BY RemoteHelperAssumption
  DEF Init, AloneInv, RelaysInv, RelaysAgree, CacheBehind, RunningIsCurrent, NothingYet,
      StateInv, StartsFromShared, UpdatedIsShared, AcceptedIsPublished, Idle
<1> QED
  BY <1>1, <1>2, <1>3, <1>4 DEF Invs

LEMMA AloneStays == [Next]_vars => Alone' = Alone /\ Linear' = Linear
BY EnvStays DEF Alone, Linear, Exclusive

(* ... and they are inductive.                                             *)
LEMMA InvsStep ==
    ASSUME Invs, Alone, [Next]_vars
    PROVE  Invs'
<1>1. PICK u \in Users : AloneAs(u)
  BY DEF Alone, AloneAs
<1>2. TypeInv' /\ TypeOK'
  BY TypeInvStep DEF Invs, TypeInv
<1>3. OverwriteInv'
  BY OverwriteStep DEF Invs, Alone
<1>4. CacheInv'
  BY CacheStep DEF Invs, TypeInv
<1>5. AloneInv'
  BY <1>1, <1>2, AloneStep DEF Alone
<1> QED
  BY <1>2, <1>3, <1>4, <1>5 DEF Invs

(* A mirrored repository, as AloneMirror has it where a helper is alone.   *)
Mirrored == INSTANCE MirroredRepo WITH state <- Shared, mirror <- server

(* A step of a helper that is alone is a push to the repository, a copy to *)
(* one of its mirrors, or nothing at all to either.                        *)
LEMMA MirrorStep ==
    ASSUME Invs, Invs', Alone, [Next]_vars
    PROVE  [Mirrored!Next]_<<Shared, server>>
<1> PICK u \in Users, rl \in Relays : AloneAs(u)
  BY DEF Alone, AloneAs
<1>1. ASSUME NEW h \in Helpers, NEW s \in Servers, PushToRemote(h, s)
      PROVE  Mirrored!Copy(s) \/ UNCHANGED <<Shared, server>>
  <2>1. /\ pc[h] = "push"
        /\ toPush[h][s] \subseteq Accepted(h)
        /\ Accepted(h) \subseteq Refs
        /\ UNCHANGED relayState
    BY <1>1 DEF PushToRemote, Invs, TypeInv, PushesAccepted, Accepted
  <2>2. \A r \in toPush[h][s] : batch[h][r].from = Shared[r]
    <3>1. UpdatedState(h) = Shared
      BY <2>1 DEF Invs, AloneInv, StateInv, UpdatedIsShared
    <3>2. \A r \in Accepted(h) : UpdatedState(h)[r] = batch[h][r].from
      BY <2>1 DEF UpdatedState
    <3> QED
      BY <2>1, <3>1, <3>2
  <2>3. Shared' = Shared
    BY <2>1, SameShared
  <2>4. PICK taken \in SUBSET toPush[h][s] : Takes(h, s, taken)
    BY <1>1, PushTakes
  <2>5. [r \in Refs |-> IF r \in taken THEN batch[h][r].from ELSE server[s][r]]
          = [r \in Refs |-> IF r \in taken THEN Shared[r] ELSE server[s][r]]
    BY <2>2
  <2>6. server' = [server EXCEPT ![s] = [r \in Refs |-> IF r \in taken THEN Shared[r] ELSE @[r]]]
    BY <2>4, <2>5 DEF Takes
  <2>7. taken \in SUBSET Refs
    BY <2>1
  <2> QED
    BY <2>3, <2>6, <2>7 DEF Mirrored!Copy, Shared
<1>2. ASSUME NEW h \in Helpers, CreateAndPublishEvents(h)
      PROVE  Mirrored!Update
  <2>1. UNCHANGED server
    BY <1>2 DEF CreateAndPublishEvents, sharedVars
  <2>2. Shared' \in RefMap
    BY SharedIsNext DEF Invs, TypeInv, AloneInv, RelaysInv, AloneAs
  <2> QED
    BY <2>1, <2>2 DEF Mirrored!Update, Mirrored!RefMap, Mirrored!CommitOrNone,
       RefMap, CommitOrNone, Shared
<1>3. ASSUME NEW h \in Helpers,
             Connect(h) \/ RunList(h) \/ RunPush(h) \/ RunFetch(h) \/ Quit(h)
               \/ UpdateRemoteRefsPushed(h) \/ Finish(h) \/ Crash(h)
      PROVE  UNCHANGED <<relayState, server>>
  BY <1>3 DEF Connect, RunList, RunPush, RunFetch, Quit, UpdateRemoteRefsPushed, Finish,
     Crash, sharedVars
<1>4. ASSUME NEW s \in Servers, NEW r \in Refs, NEW c \in env.commits, DirectPush(s, r, c)
      PROVE  FALSE
  BY <1>4 DEF DirectPush, AloneAs
<1>5. UNCHANGED vars => UNCHANGED <<relayState, server>>
  BY DEF vars, sharedVars
<1>6. UNCHANGED <<relayState, server>> => UNCHANGED <<Shared, server>>
  BY SameShared
<1>7. \/ \E s \in Servers : Mirrored!Copy(s)
      \/ Mirrored!Update
      \/ UNCHANGED <<Shared, server>>
  BY <1>1, <1>2, <1>3, <1>4, <1>5, <1>6 DEF Next, HelperStep
<1> QED
  BY <1>7 DEF Mirrored!Next, Shared

(* While one helper at a time runs for one account whose relays work, the  *)
(* whole system implements a repository with mirrors that only ever copy   *)
(* it: whichever servers fail, wherever helpers die, and with forced       *)
(* pushes and deletions.                                                   *)
THEOREM ImplementsMirror == Spec => AloneMirrors
<1> DEFINE Inv == Invs \/ ~Alone
           pair == <<IF Alone THEN [r \in Refs |-> SharedState(r)] ELSE InitRefs,
                     IF Alone THEN server ELSE [s \in Servers |-> InitRefs]>>
<1>1. Init => AloneMirror!Init
  <2> SUFFICES ASSUME Init PROVE AloneMirror!Init
    OBVIOUS
  <2>1. Alone => \A r \in Refs : SharedState(r) = InitRefs[r]
    BY DEF Init, SharedState, Alone
  <2>2. Alone => [r \in Refs |-> SharedState(r)] = InitRefs
    BY <2>1, RemoteHelperAssumption DEF RefMap
  <2> QED
    BY <2>2 DEF AloneMirror!Init, Init
<1>2. Inv /\ [Next]_vars => Inv'
  BY InvsStep, AloneStays
<1>3. Inv /\ Inv' /\ [Next]_vars => [AloneMirror!Next]_pair
  <2> SUFFICES ASSUME Inv, Inv', [Next]_vars PROVE [AloneMirror!Next]_pair
    OBVIOUS
  <2>1. Alone' = Alone
    BY AloneStays
  <2>2. CASE ~Alone
    BY <2>1, <2>2
  <2>3. CASE Alone
    <3>1. [Mirrored!Next]_<<Shared, server>>
      BY <2>1, <2>3, MirrorStep
    <3>2. CASE UNCHANGED <<Shared, server>>
      BY <2>1, <2>3, <3>2 DEF Shared
    <3>3. CASE Mirrored!Update
      BY <2>1, <2>3, <3>3 DEF Mirrored!Update, AloneMirror!Next, AloneMirror!Update, Shared,
         Mirrored!RefMap, AloneMirror!RefMap, Mirrored!CommitOrNone, AloneMirror!CommitOrNone
    <3>4. ASSUME NEW s \in Servers, Mirrored!Copy(s) PROVE AloneMirror!Copy(s)
      BY <2>1, <2>3, <3>4 DEF Mirrored!Copy, AloneMirror!Copy, Shared
    <3> QED
      BY <3>1, <3>2, <3>3, <3>4 DEF Mirrored!Next, AloneMirror!Next
  <2> QED
    BY <2>2, <2>3
<1> QED
  BY <1>1, <1>2, <1>3, InvsInit, PTL DEF Spec, AloneMirrors, AloneMirror!Spec

-----------------------------------------------------------------------------
(* Without forced pushes and deletions the shared state only grows.        *)

(* A ref is within its own history.                                        *)
LEMMA WithinItself == \A a \in CommitOrNone : WithinHistory(a, a)
BY AncestorsAssumption DEF WithinHistory, CommitOrNone, FastForward

(* Within the history of what is within a history.                         *)
LEMMA WithinTransitive ==
    \A a, b, c \in CommitOrNone :
        WithinHistory(a, b) /\ WithinHistory(b, c) => WithinHistory(a, c)
BY AncestorsAssumption DEF WithinHistory, CommitOrNone, FastForward

(* What git sends when nobody forces or deletes: a commit the clone has or *)
(* has just made, on top of what nostr has.                                *)
LEMMA GitSendsForward ==
    ASSUME Linear, NEW h \in Helpers, NEW nostr \in RefMap, NEW b \in Batches(h, nostr),
           NEW r \in Sent(b)
    PROVE  /\ b[r].from \in LocalTips(h)
           /\ b[r].from \in Commits
           /\ WithinHistory(nostr[r], b[r].from)
           /\ nostr[r] # NoCommit => nostr[r] \in objects[h]
<1>1. GitSends(h, nostr[r], b[r])
  BY DEF Batches, Sent
<1>2. b[r].from # NoCommit /\ b[r].from \in Commits
  BY <1>1 DEF GitSends, Linear, Batches, Sent, PushSpec, CommitOrNone
<1>3. /\ b[r].from \in LocalTips(h)
      /\ \/ nostr[r] = NoCommit
         \/ nostr[r] \in objects[h] /\ FastForward(nostr[r], b[r].from)
  BY <1>1, <1>2 DEF GitSends, Linear
<1> QED
  BY <1>2, <1>3 DEF LocalTips, WithinHistory

(* A push of such a commit to a server that is within the nostr state is   *)
(* neither rejected nor does it fail.                                      *)
LEMMA ForwardAccepted ==
    ASSUME NEW known \in SUBSET Commits, NEW nostr \in CommitOrNone,
           NEW remote \in CommitOrNone, NEW spec \in PushSpec,
           spec.from \in Commits,
           WithinHistory(remote, nostr), WithinHistory(nostr, spec.from),
           nostr \in Commits => Ancestors[nostr] \subseteq known
    PROVE  /\ ~Rejects(known, nostr, remote, spec)
           /\ ~Aborts(known, nostr, remote, spec)
<1>1. CASE remote = NoCommit
  BY <1>1 DEF Rejects, Aborts, OutOfSync
<1>2. CASE remote # NoCommit
  <2>1. /\ nostr \in Commits /\ remote \in Ancestors[nostr]
        /\ nostr \in Ancestors[spec.from]
    BY <1>2 DEF WithinHistory, FastForward, CommitOrNone
  <2>2. remote \in known /\ remote \in Ancestors[spec.from] /\ remote \in Ancestors[remote]
    BY <1>2, <2>1, AncestorsAssumption DEF CommitOrNone
  <2> QED
    BY <2>2 DEF Rejects, Aborts, FastForward, Related
<1> QED
  BY <1>1, <1>2

ObjectsClosed ==
    \A h \in Helpers : \A c \in objects[h] : Ancestors[c] \subseteq objects[h]

PushesForward ==
    \A h \in Helpers : pc[h] = "publish" =>
        \A r \in Accepted(h) :
            batch[h][r].from \in Commits /\ WithinHistory(existingState[h][r], batch[h][r].from)

LinearInv == ServersWithinState /\ TrackingWithinState /\ ObjectsClosed /\ PushesForward

(* No push is rejected in a state that satisfies the invariants.           *)
LEMMA LinearNeverRejects ==
    ASSUME Invs, LinearInv, Linear
    PROVE  NeverRejected
<1> SUFFICES ASSUME NEW h \in Helpers, pc[h] = "listed",
                    NEW nostr \in StateInUse(h), NEW b \in Batches(h, nostr)
             PROVE  Rejected(h, nostr, b) = {} /\ Failing(h, nostr, b) = {}
  BY DEF NeverRejected
<1>1. nostr = Shared /\ nostr \in RefMap
  <2>1. PICK u \in Users : AloneAs(u)
    BY DEF Linear, Alone, AloneAs
  <2> QED
    BY <2>1, ReadsShared, StateInUseType DEF Linear, Alone, Invs, TypeInv
<1>2. ASSUME NEW r \in Sent(b), NEW s \in Listed(h)
      PROVE  /\ ~Rejects(Known(h, b), nostr[r], listOutputs[h][s][r], b[r])
             /\ ~Aborts(Known(h, b), nostr[r], listOutputs[h][s][r], b[r])
  <2>1. /\ b[r].from \in Commits
        /\ WithinHistory(nostr[r], b[r].from)
        /\ nostr[r] # NoCommit => nostr[r] \in objects[h]
    BY <1>1, GitSendsForward
  <2>2. r \in Refs /\ s \in Servers /\ b[r] \in PushSpec
    BY DEF Sent, Listed, Batches
  <2>3. listOutputs[h][s] = server[s]
    BY <2>2 DEF Invs, OverwriteInv, ListedIsCurrent
  <2>4. WithinHistory(server[s][r], nostr[r])
    BY <1>1, <2>2 DEF LinearInv, ServersWithinState, Shared
  <2>5. nostr[r] \in CommitOrNone /\ server[s][r] \in CommitOrNone
    BY <1>1, <2>2 DEF RefMap, Invs, TypeInv, TypeOK
  <2>6. Known(h, b) \in SUBSET Commits
    BY <1>1, ClassificationTypes DEF Invs, TypeInv
  <2>7. nostr[r] \in Commits => Ancestors[nostr[r]] \subseteq Known(h, b)
    BY <2>1, NoCommitAssumption DEF LinearInv, ObjectsClosed, Known
  <2> QED
    BY <2>1, <2>2, <2>3, <2>4, <2>5, <2>6, <2>7, ForwardAccepted
<1> QED
  BY <1>2 DEF Rejected, Failing

(* No step takes commits away from the shared state.                       *)
LEMMA SharedGrows ==
    ASSUME Invs, Invs', LinearInv, Linear, [Next]_vars
    PROVE  \A r \in Refs : WithinHistory(Shared[r], Shared'[r])
<1> PICK u \in Users, rl \in Relays : AloneAs(u)
  BY DEF Linear, Alone, AloneAs
<1>1. Shared \in RefMap
  BY SharedIs DEF Invs, TypeInv, AloneInv, RelaysInv, AloneAs
<1>2. CASE UNCHANGED relayState
  BY <1>1, <1>2, SameShared, WithinItself DEF RefMap
<1>3. ASSUME NEW h \in Helpers, CreateAndPublishEvents(h), ~UNCHANGED relayState
      PROVE  \A r \in Refs : WithinHistory(Shared[r], Shared'[r])
  <2>1. ~(Exit(h) /\ UNCHANGED <<sharedVars, cloneVars>>)
    BY <1>3 DEF sharedVars
  <2>2. /\ pc[h] = "publish"
        /\ pc' = [pc EXCEPT ![h] = "report"]
        /\ UNCHANGED <<existingState, batch>>
    BY <1>3, <2>1 DEF CreateAndPublishEvents, pushVars
  <2>3. pc'[h] = "report"
    BY <2>2 DEF Invs, TypeInv, TypeOK
  <2>4. Shared' = UpdatedState(h)
    BY <2>2, <2>3 DEF Invs, AloneInv, StateInv, UpdatedIsShared, UpdatedState, Accepted
  <2>5. existingState[h] = Shared
    BY <2>2 DEF Invs, AloneInv, StateInv, StartsFromShared
  <2>6. ASSUME NEW r \in Refs PROVE WithinHistory(Shared[r], UpdatedState(h)[r])
    <3>1. CASE r \in Accepted(h)
      BY <2>2, <2>5, <3>1 DEF LinearInv, PushesForward, UpdatedState
    <3>2. CASE r \notin Accepted(h)
      BY <1>1, <2>5, <3>2, WithinItself DEF UpdatedState, RefMap
    <3> QED
      BY <3>1, <3>2
  <2> QED
    BY <2>4, <2>6
<1>4. ASSUME NEW h \in Helpers,
             Connect(h) \/ RunList(h) \/ RunPush(h) \/ RunFetch(h) \/ Quit(h)
               \/ UpdateRemoteRefsPushed(h) \/ Finish(h) \/ Crash(h)
               \/ \E s \in Servers : PushToRemote(h, s)
      PROVE  UNCHANGED relayState
  BY <1>4 DEF Connect, RunList, RunPush, RunFetch, Quit, UpdateRemoteRefsPushed, Finish,
     Crash, PushToRemote, sharedVars
<1>5. CASE UNCHANGED vars \/ \E s \in Servers, r \in Refs, c \in env.commits : DirectPush(s, r, c)
  BY <1>2, <1>5 DEF vars, sharedVars, DirectPush
<1> QED
  BY <1>2, <1>3, <1>4, <1>5 DEF Next, HelperStep

(* Servers stay within the shared state: they only copy it.                *)
LEMMA ServersStep ==
    ASSUME Invs, Invs', LinearInv, Linear, [Next]_vars
    PROVE  ServersWithinState'
<1> SUFFICES ASSUME NEW s \in Servers, NEW r \in Refs
             PROVE  WithinHistory(server'[s][r], Shared'[r])
  BY DEF ServersWithinState, Shared
<1> PICK u \in Users, rl \in Relays : AloneAs(u)
  BY DEF Linear, Alone, AloneAs
<1>1. Shared \in RefMap /\ Shared' \in RefMap
  BY SharedIs, SharedIsNext DEF Invs, TypeInv, AloneInv, RelaysInv, AloneAs
<1>2. /\ Shared[r] \in CommitOrNone /\ Shared'[r] \in CommitOrNone
      /\ server[s][r] \in CommitOrNone
  BY <1>1 DEF RefMap, Invs, TypeInv, TypeOK
<1>3. WithinHistory(server[s][r], Shared[r])
  BY DEF LinearInv, ServersWithinState, Shared
<1>4. WithinHistory(Shared[r], Shared'[r])
  BY SharedGrows
<1>5. server'[s][r] \in {server[s][r], Shared[r]}
  <2>1. \/ Mirrored!Update
        \/ \E t \in Servers : Mirrored!Copy(t)
        \/ UNCHANGED server
    BY MirrorStep DEF Linear, Mirrored!Next
  <2>2. ASSUME NEW t \in Servers, Mirrored!Copy(t)
        PROVE  server'[s][r] \in {server[s][r], Shared[r]}
    <3>1. PICK rs \in SUBSET Refs : server' = [server EXCEPT ![t] =
              [q \in Refs |-> IF q \in rs THEN Shared[q] ELSE @[q]]]
      BY <2>2 DEF Mirrored!Copy
    <3> QED
      BY <3>1 DEF Shared, Invs, TypeInv, TypeOK
  <2> QED
    BY <2>1, <2>2 DEF Mirrored!Update
<1> QED
  BY <1>2, <1>3, <1>4, <1>5, WithinTransitive

(* Remote-tracking branches move to the shared state or stay.              *)
LEMMA TrackingStep ==
    ASSUME Invs, Invs', LinearInv, Linear, [Next]_vars
    PROVE  TrackingWithinState'
<1> SUFFICES ASSUME NEW g \in Helpers, NEW r \in Refs
             PROVE  WithinHistory(tracking'[g][r], Shared'[r])
  BY DEF TrackingWithinState, Shared
<1> PICK u \in Users, rl \in Relays : AloneAs(u)
  BY DEF Linear, Alone, AloneAs
<1>1. Shared \in RefMap /\ Shared' \in RefMap
  BY SharedIs, SharedIsNext DEF Invs, TypeInv, AloneInv, RelaysInv, AloneAs
<1>2. /\ Shared[r] \in CommitOrNone /\ Shared'[r] \in CommitOrNone
      /\ tracking[g][r] \in CommitOrNone
  BY <1>1 DEF RefMap, Invs, TypeInv, TypeOK
<1>3. WithinHistory(tracking[g][r], Shared[r])
  BY DEF LinearInv, TrackingWithinState, Shared
<1>4. WithinHistory(Shared[r], Shared'[r])
  BY SharedGrows
<1>5. tracking'[g][r] \in {tracking[g][r], Shared[r]}
  <2>1. ASSUME NEW h \in Helpers, RunFetch(h)
        PROVE  tracking'[g][r] \in {tracking[g][r], Shared[r]}
    <3>1. PICK advertised \in StateInUse(h) :
            \/ tracking' = [tracking EXCEPT ![h] = [q \in Refs |->
                  IF advertised[q] # NoCommit THEN advertised[q] ELSE @[q]]]
            \/ UNCHANGED tracking
      BY <2>1 DEF RunFetch
    <3>2. advertised = Shared
      BY <2>1, ReadsShared DEF RunFetch, Linear, Alone
    <3>3. CASE UNCHANGED tracking
      BY <3>3
    <3>4. CASE ~UNCHANGED tracking
      <4>1. tracking' = [tracking EXCEPT ![h] = [q \in Refs |->
                IF Shared[q] # NoCommit THEN Shared[q] ELSE tracking[h][q]]]
        BY <3>1, <3>2, <3>4
      <4>2. tracking'[h][r] = IF Shared[r] # NoCommit THEN Shared[r] ELSE tracking[h][r]
        BY <4>1 DEF Invs, TypeInv, TypeOK
      <4>3. g # h => tracking'[g] = tracking[g]
        BY <4>1 DEF Invs, TypeInv, TypeOK
      <4> QED
        BY <4>2, <4>3
    <3> QED
      BY <3>3, <3>4
  <2>2. ASSUME NEW h \in Helpers, UpdateRemoteRefsPushed(h)
        PROVE  tracking'[g][r] \in {tracking[g][r], Shared[r]}
    <3>1. UpdatedState(h) = Shared
      BY <2>2 DEF UpdateRemoteRefsPushed, Invs, AloneInv, StateInv, UpdatedIsShared
    <3>2. tracking' = [tracking EXCEPT ![h] = [q \in Refs |->
              IF q \in Accepted(h) THEN batch[h][q].from ELSE @[q]]]
      BY <2>2 DEF UpdateRemoteRefsPushed
    <3>3. r \in Accepted(h) => UpdatedState(h)[r] = batch[h][r].from
      BY DEF UpdatedState
    <3> QED
      BY <3>1, <3>2, <3>3 DEF Invs, TypeInv, TypeOK
  <2>3. ASSUME NEW h \in Helpers,
               Connect(h) \/ RunList(h) \/ RunPush(h) \/ Quit(h)
                 \/ CreateAndPublishEvents(h) \/ Finish(h) \/ Crash(h)
                 \/ \E s \in Servers : PushToRemote(h, s)
        PROVE  UNCHANGED tracking
    BY <2>3 DEF Connect, RunList, RunPush, Quit, CreateAndPublishEvents, Finish, Crash,
       PushToRemote, cloneVars
  <2>4. ASSUME UNCHANGED vars \/ \E s \in Servers, q \in Refs, c \in env.commits : DirectPush(s, q, c)
        PROVE  UNCHANGED tracking
    BY <2>4 DEF vars, cloneVars, DirectPush
  <2> QED
    BY <2>1, <2>2, <2>3, <2>4 DEF Next, HelperStep
<1> QED
  BY <1>2, <1>3, <1>4, <1>5, WithinTransitive

(* The object database of a clone stays closed under ancestors.            *)
LEMMA ObjectsStep ==
    ASSUME TypeOK, ObjectsClosed, [Next]_vars
    PROVE  ObjectsClosed'
<1>1. ASSUME NEW h \in Helpers, NEW more \in SUBSET Commits,
             objects' = [objects EXCEPT ![h] = @ \cup more],
             \A c \in more : Ancestors[c] \subseteq objects[h] \cup more
      PROVE  ObjectsClosed'
  BY <1>1 DEF TypeOK, ObjectsClosed
<1>2. ASSUME NEW h \in Helpers, RunFetch(h) PROVE ObjectsClosed'
  <2>1. CASE UNCHANGED objects
    BY <2>1 DEF ObjectsClosed
  <2>2. CASE ~UNCHANGED objects
    <3>1. PICK advertised \in StateInUse(h) :
            objects' = [objects EXCEPT ![h] =
                          @ \cup Closure({advertised[r] : r \in Refs} \ {NoCommit})]
      BY <1>2, <2>2 DEF RunFetch
    <3> DEFINE wanted == {advertised[r] : r \in Refs} \ {NoCommit}
    <3>2. wanted \in SUBSET Commits
      BY StateInUseType DEF RefMap, CommitOrNone
    <3> HIDE DEF wanted
    <3>3. /\ Closure(wanted) \in SUBSET Commits
          /\ \A c \in Closure(wanted) : Ancestors[c] \subseteq Closure(wanted)
      BY <3>2, AncestorsAssumption DEF Closure
    <3> QED
      BY <1>1, <3>1, <3>3 DEF wanted
  <2> QED
    BY <2>1, <2>2
<1>3. ASSUME NEW h \in Helpers, RunPush(h) PROVE ObjectsClosed'
  <2>1. PICK nostr \in StateInUse(h) : \E b \in Batches(h, nostr) :
          objects' = [objects EXCEPT ![h] = Known(h, b)]
    BY <1>3 DEF RunPush
  <2>2. PICK b \in Batches(h, nostr) : objects' = [objects EXCEPT ![h] = Known(h, b)]
    BY <2>1
  <2> DEFINE tips == {b[r].from : r \in Sent(b)} \ {NoCommit}
  <2>3. \A c \in tips : c \in LocalTips(h)
    BY DEF Sent, Batches, GitSends
  <2>4. objects' = [objects EXCEPT ![h] = @ \cup tips]
    BY <2>2 DEF Known
  <2> HIDE DEF tips
  <2>5. tips \in SUBSET Commits /\ \A c \in tips : Ancestors[c] \subseteq objects[h] \cup tips
    BY <2>3, CommitsMade DEF LocalTips, Invs, TypeInv
  <2> QED
    BY <1>1, <2>4, <2>5
<1>7. ASSUME NEW h \in Helpers, RunList(h) PROVE ObjectsClosed'
  <2>1. CASE UNCHANGED objects \/ objects' = [objects EXCEPT ![h] = objects[h]]
    BY <2>1 DEF ObjectsClosed, TypeOK
  <2>2. ASSUME NEW s \in Servers, objects' = [objects EXCEPT ![h] = objects[h] \cup Hosted(s)]
        PROVE  ObjectsClosed'
    BY <1>1, <2>2, HostedClosed
  <2> QED
    BY <1>7, <2>1, <2>2, ListingObtains
<1>4. ASSUME NEW h \in Helpers,
             Connect(h) \/ Quit(h) \/ CreateAndPublishEvents(h)
               \/ UpdateRemoteRefsPushed(h) \/ Finish(h) \/ Crash(h)
               \/ \E s \in Servers : PushToRemote(h, s)
      PROVE  UNCHANGED objects
  BY <1>4 DEF Connect, Quit, CreateAndPublishEvents, UpdateRemoteRefsPushed, Finish,
     Crash, PushToRemote, cloneVars
<1>5. ASSUME UNCHANGED vars \/ \E s \in Servers, r \in Refs, c \in env.commits : DirectPush(s, r, c)
      PROVE  UNCHANGED objects
  BY <1>5 DEF vars, cloneVars, DirectPush
<1>6. UNCHANGED objects => ObjectsClosed'
  BY DEF ObjectsClosed
<1> QED
  BY <1>2, <1>3, <1>4, <1>5, <1>6, <1>7 DEF Next, HelperStep

(* What is accepted goes forward from the state the push started from.     *)
LEMMA ForwardStep ==
    ASSUME Invs, PushesForward, Linear, [Next]_vars
    PROVE  PushesForward'
<1>1. ASSUME NEW h \in Helpers, RunPush(h), ~Exit(h) PROVE PushesForward'
  <2>1. PICK nostr \in StateInUse(h) : \E b \in Batches(h, nostr) :
          /\ pc' = [pc EXCEPT ![h] = "publish"]
          /\ existingState' = [existingState EXCEPT ![h] = nostr]
          /\ batch' = [batch EXCEPT ![h] = Retained(h, nostr, b)]
    BY <1>1 DEF RunPush
  <2>2. PICK b \in Batches(h, nostr) :
          /\ pc' = [pc EXCEPT ![h] = "publish"]
          /\ existingState' = [existingState EXCEPT ![h] = nostr]
          /\ batch' = [batch EXCEPT ![h] = Retained(h, nostr, b)]
    BY <2>1
  <2>3. nostr \in RefMap
    BY StateInUseType DEF Invs, TypeInv
  <2>4. ASSUME NEW r \in Refs, Retained(h, nostr, b)[r] # NoSpec
        PROVE  /\ Retained(h, nostr, b)[r].from \in Commits
               /\ WithinHistory(nostr[r], Retained(h, nostr, b)[r].from)
    <3>1. r \in Sent(b) /\ Retained(h, nostr, b)[r] = b[r]
      BY <2>4 DEF Retained, Sent
    <3> QED
      BY <2>3, <3>1, GitSendsForward
  <2>5. /\ batch'[h] = Retained(h, nostr, b)
        /\ existingState'[h] = nostr
        /\ \A g \in Helpers \ {h} : /\ pc'[g] = pc[g]
                                    /\ batch'[g] = batch[g]
                                    /\ existingState'[g] = existingState[g]
    BY <2>2 DEF Invs, TypeInv, TypeOK
  <2> QED
    BY <2>4, <2>5 DEF PushesForward, Accepted
<1>2. ASSUME NEW h \in Helpers, Exit(h) PROVE PushesForward'
  BY <1>2 DEF Exit, PushesForward, Accepted, Idle, Invs, TypeInv, TypeOK
<1>3. ASSUME NEW h \in Helpers, ~Exit(h),
             Connect(h) \/ RunList(h) \/ RunFetch(h) \/ Quit(h) \/ CreateAndPublishEvents(h)
               \/ UpdateRemoteRefsPushed(h) \/ Finish(h) \/ Crash(h)
               \/ \E s \in Servers : PushToRemote(h, s)
      PROVE  PushesForward'
  <2>1. /\ UNCHANGED <<batch, existingState>>
        /\ \A g \in Helpers : pc'[g] = "publish" => pc[g] = "publish"
    BY <1>3 DEF Connect, RunList, RunFetch, Quit, CreateAndPublishEvents,
       UpdateRemoteRefsPushed, Finish, Crash, PushToRemote, pushVars, Invs, TypeInv, TypeOK
  <2> QED
    BY <2>1 DEF PushesForward, Accepted
<1>4. CASE UNCHANGED vars \/ \E s \in Servers, r \in Refs, c \in env.commits : DirectPush(s, r, c)
  BY <1>4 DEF vars, pushVars, DirectPush, PushesForward, Accepted
<1> QED
  BY <1>1, <1>2, <1>3, <1>4 DEF Next, HelperStep

(* While one helper at a time runs for one account whose relays work and   *)
(* nobody forces or deletes, no server and no remote-tracking branch gets  *)
(* ahead of the nostr state, and no push is rejected: wherever helpers     *)
(* die, whichever servers fail and however many updates they miss.         *)
THEOREM StaysInLine == Spec => []LinearInLine
<1> DEFINE Inv == (Invs /\ LinearInv) \/ ~Linear
<1>1. Init => Inv
  <2> SUFFICES ASSUME Init, Linear PROVE LinearInv
    BY InvsInit
  <2>1. \A r \in Refs : SharedState(r) = InitRefs[r]
    BY DEF Init, SharedState, Linear, Alone
  <2>2. \A r \in Refs : InitRefs[r] \in CommitOrNone
    BY RemoteHelperAssumption DEF RefMap
  <2>3. ServersWithinState
    BY <2>1, <2>2, WithinItself DEF Init, ServersWithinState
  <2>4. TrackingWithinState
    BY DEF Init, TrackingWithinState, NoRefs, WithinHistory
  <2>5. ObjectsClosed
    BY RemoteHelperAssumption DEF Init, ObjectsClosed
  <2>6. PushesForward
    BY DEF Init, PushesForward, Idle
  <2> QED
    BY <2>3, <2>4, <2>5, <2>6 DEF LinearInv
<1>2. Inv /\ [Next]_vars => Inv'
  <2> SUFFICES ASSUME Invs, LinearInv, Linear, [Next]_vars PROVE Invs' /\ LinearInv'
    BY AloneStays
  <2>1. Invs'
    BY InvsStep DEF Linear
  <2> QED
    BY <2>1, ServersStep, TrackingStep, ObjectsStep, ForwardStep DEF LinearInv, Invs, TypeInv
<1>3. Inv => LinearInLine
  BY LinearNeverRejects DEF LinearInv, LinearInLine
<1> QED
  BY <1>1, <1>2, <1>3, PTL DEF Spec
=============================================================================
