---------------------------- MODULE Announcements ----------------------------
(***************************************************************************)
(* Repository announcements (kind 30617) as RepoRef::try_from reads them,  *)
(* and what it means to maintain a repository: to be named, through a      *)
(* chain of announcements, by the maintainer a nostr:// url trusts.        *)
(***************************************************************************)
EXTENDS Naturals

CONSTANTS Users,    \* nostr accounts
          Trusted,  \* the account in the nostr:// url
          Relays

ASSUME TrustedAssumption == Trusted \in Users

\* What an announcement says: the keys in its maintainers tag, whether all of
\* them can be read, and the relays it lists.
Content == [listed : SUBSET Users, parses : BOOLEAN, relays : SUBSET Relays]
Announcement == [author : Users, at : Nat, says : Content]

\* RepoRef::try_from fails on an announcement with a key it cannot read.
Parses(e) == e.says.parses

\* RepoRef::try_from: the maintainers tag and always the author.
Named(e) == e.says.listed \cup {e.author}

\* us is closed under the announcements es: whoever a member names is one.
ClosedUnder(us, es) ==
    \A e \in es : Parses(e) /\ e.author \in us => Named(e) \subseteq us

\* The members of every closed set that holds the trusted maintainer.
NamedFrom(es) ==
    {u \in Users : \A us \in SUBSET Users :
        Trusted \in us /\ ClosedUnder(us, es) => u \in us}

\* Announcements that none of es is older than.
Oldest(es) == {e \in es : \A f \in es : e.at <= f.at}
=============================================================================
