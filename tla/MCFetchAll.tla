------------------------------ MODULE MCFetchAll ------------------------------
(***************************************************************************)
(* Small instances of FetchAll.  alice is trusted and names bob; carol     *)
(* opens a proposal that has a status, and is who fetches.  home is a      *)
(* fallback relay, alice lists hub, and bob names carol in turn.           *)
(***************************************************************************)
EXTENDS FetchAll

CONSTANTS alice, bob, carol, home, hub

Signed(kind, author, at, listed, relays, about) ==
    [kind |-> kind, author |-> author, at |-> at,
     says |-> [listed |-> listed, parses |-> TRUE, relays |-> relays \cap Relays],
     about |-> about, thread |-> IF kind \in {"root", "status"} THEN 1 ELSE 0]

AliceAnnounces == Signed("announcement", alice, 1, {bob}, {hub}, {})
BobNamesCarol == Signed("announcement", bob, 2, {carol}, {hub}, {})
AliceAlone == Signed("announcement", alice, 3, {}, {hub}, {})
CarolState == Signed("state", carol, 6, {}, {}, {})
Proposal == Signed("root", carol, 1, {}, {}, {bob})
Status == Signed("status", carol, 2, {}, {}, {})
CarolProfile == Signed("profile", carol, 1, {}, {home}, {})

\* Each relay holds some of the events.
Somewhere(es) == [Relays -> SUBSET es]

Chain == {AliceAnnounces, AliceAlone, BobNamesCarol, CarolState, Proposal, Status,
          CarolProfile}

\* alice is announced at home, perhaps without bob since at hub; carol's
\* state is at hub, where no proposal is, and so is her profile.
ChainHosted ==
    {h \in Somewhere(Chain) :
        /\ AliceAnnounces \in h[home] /\ ~({AliceAnnounces, AliceAlone} \subseteq h[hub])
        /\ h[home] \cap {AliceAlone, CarolState, CarolProfile} = {}
        /\ h[hub] \cap {Proposal, Status} = {}
        /\ CarolProfile \in h[hub] =>
              Status \notin h[home] /\ h[hub] \subseteq {BobNamesCarol, CarolProfile}}
=============================================================================
