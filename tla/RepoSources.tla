----------------------------- MODULE RepoSources -----------------------------
(***************************************************************************)
(* What tells a clone which repository it is: announcements, the nostr urls*)
(* of its remotes, the item nostr.repo of its git config, and the file     *)
(* maintainers.yaml (repo_ref.rs).                                         *)
(***************************************************************************)
EXTENDS Naturals

CONSTANTS Users,    \* nostr accounts
          User,     \* the one logged in here (Login)
          Ids,      \* repository identifiers
          NoId,     \* the empty identifier, given as --identifier ''
          Short,    \* the first 7 characters of the root commit
          Servers,  \* git servers (a list of them counts as one)
          None      \* "no such coordinate, announcement, repository or file"

ASSUME SourcesAssumption ==
    /\ User \in Users
    /\ NoId \notin Ids /\ Short \in Ids

Coordinate == [by : Users, id : Ids \cup {NoId}]
Coord(u, id) == [by |-> u, id |-> id]

Says == [listed : SUBSET Users, servers : Servers, parses : {TRUE}]
Announcement == [author : Users, at : Nat, says : Says]
Store == [Coordinate -> Announcement \cup {None}]
Ref == [maintainers : SUBSET Users, servers : Servers]

\* The first of the maintainers it lists; whether the others can be read.
Yaml == [id : Ids \cup {NoId, None}, first : Users, listed : SUBSET Users,
         readable : BOOLEAN]

\* A remote: none, one with a url that is not nostr's, or with a push url only.
Remote == [kind : {"none", "plain", "push only"}] \cup [kind : {"nostr"}, to : Coordinate]
NoRemote == [kind |-> "none"]
Nostr(k) == [kind |-> "nostr", to |-> k]

ASSUME NoneAssumption == None \notin Coordinate \cup Announcement \cup Ref \cup Yaml \cup Ids
=============================================================================
