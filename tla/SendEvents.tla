------------------------------ MODULE SendEvents ------------------------------
(***************************************************************************)
(* send_events of client.rs: one list of signed events goes to several     *)
(* relays at once, to each in order and up to its first error.  The relays *)
(* are those of the repository, of the account and the fallbacks, each     *)
(* written with or without a trailing slash.                               *)
(***************************************************************************)
EXTENDS Naturals, Sequences, SequencesExt, FiniteSets

CONSTANTS Hosts,     \* relays, without spelling
          Count,     \* number of events
          Announces, \* positions of announcements among them
          UrlLists,  \* bound: lists of urls a repository or account may have
          UsizeMax,  \* usize::MAX
          SendEnv    \* "relay_fault", "crash"

Url == [host : Hosts, slash : BOOLEAN]

ASSUME SendEventsAssumption ==
    /\ Count \in Nat
    /\ Announces \subseteq 1..Count
    /\ UrlLists \subseteq Seq(Url)
    /\ UsizeMax \in Nat

VARIABLES ofRepo, myRelays, fallback, \* arguments of send_events
          relays,  \* the urls it sends to
          pos,     \* events each of its tasks has sent
          running, \* tasks, by position in relays, that have not ended
          held,    \* events each relay has
          cloneCache, accountCache, \* events cached in the clone, and for the account
          progress \* "idle", "sending" or "sent"

arguments == <<ofRepo, myRelays, fallback>>
sendVars == <<arguments, relays, pos, running, held, cloneCache, accountCache, progress>>

\* The relays of a send, what they hold and what is cached, by shape.
SendTypeOK ==
    /\ ofRepo \in Seq(Url) /\ myRelays \in Seq(Url) /\ fallback \in Seq(Url)
    /\ relays \in Seq(Url)
    /\ pos \in [1..Len(relays) -> 0..Count]
    /\ running \subseteq 1..Len(relays)
    /\ held \in [Hosts -> SUBSET (1..Count)]
    /\ cloneCache \subseteq 1..Count /\ accountCache \subseteq 1..Count
    /\ progress \in {"idle", "sending", "sent"}

\* remove_trailing_slash on both sides.
SameRelay(u, v) == u.host = v.host

Listed(u, urls) == \E i \in DOMAIN urls : SameRelay(u, urls[i])

AddOnce(urls, u) == IF Listed(u, urls) THEN urls ELSE Append(urls, u)

\* `!count() > 1`: the complement of the count, not "not more than one".
Complement(n) == UsizeMax - n
CountIn(u, urls) == Cardinality({i \in DOMAIN urls : SameRelay(u, urls[i])})

\* "add duplicates first", then all of them.
RelayList(repo, mine, others) ==
    LET first == FoldLeft(LAMBDA urls, u : IF Complement(CountIn(u, mine)) > 1
                                           THEN AddOnce(urls, u) ELSE urls,
                          <<>>, repo)
    IN  FoldLeft(AddOnce, first, repo \o mine \o others)

SendInit ==
    /\ ofRepo \in UrlLists /\ myRelays \in UrlLists /\ fallback \in UrlLists
    /\ relays = <<>>
    /\ pos = <<>>
    /\ running = {}
    /\ held = [h \in Hosts |-> {}]
    /\ cloneCache = {} /\ accountCache = {}
    /\ progress = "idle"

StartSending ==
    /\ progress = "idle"
    /\ relays' = RelayList(ofRepo, myRelays, fallback)
    /\ pos' = [i \in 1..Len(relays') |-> 0]
    /\ running' = 1..Len(relays')
    /\ progress' = "sending"
    /\ UNCHANGED <<arguments, held, cloneCache, accountCache>>

\* Mutant: a task goes on after an error.
BugGoesOn(i) == FALSE

\* `break`.
EndsOnError(i) == TRUE

Holds(i, n) == held' = [held EXCEPT ![relays[i].host] = @ \cup {n}]

\* Mutant: another event is cached.
BugCacheNext(n) == {n + 1}

\* send_event_to after the relay took event n.
AlsoCached(n) == {n}

\* The relay takes the next event, which is then cached.
Accept(i) ==
    /\ progress = "sending"
    /\ i \in running
    /\ pos[i] < Count
    /\ LET n == pos[i] + 1
       IN  /\ Holds(i, n)
           /\ cloneCache' = cloneCache \cup AlsoCached(n)
           /\ accountCache' = accountCache \cup (AlsoCached(n) \cap Announces)
           /\ pos' = [pos EXCEPT ![i] = n]
    /\ UNCHANGED <<arguments, relays, running, progress>>

\* The relay refuses, or its answer is late: it may hold the event.
SendFails(i) ==
    /\ "relay_fault" \in SendEnv
    /\ progress = "sending"
    /\ i \in running
    /\ pos[i] < Count
    /\ UNCHANGED held \/ Holds(i, pos[i] + 1)
    /\ pos' = [pos EXCEPT ![i] = @ + 1]
    /\ running' = IF EndsOnError(i) THEN running \ {i} ELSE running
    /\ UNCHANGED <<arguments, relays, cloneCache, accountCache, progress>>

\* A task has sent all events.
EndTask(i) ==
    /\ progress = "sending"
    /\ i \in running
    /\ pos[i] = Count
    /\ running' = running \ {i}
    /\ UNCHANGED <<arguments, relays, pos, held, cloneCache, accountCache, progress>>

\* join_all.
Join ==
    /\ progress = "sending"
    /\ running = {}
    /\ progress' = "sent"
    /\ UNCHANGED <<arguments, relays, pos, running, held, cloneCache, accountCache>>

\* The process is killed, possibly after a relay took an event.
SendCrash ==
    /\ "crash" \in SendEnv
    /\ progress = "sending"
    /\ \/ UNCHANGED held
       \/ \E i \in running : pos[i] < Count /\ Holds(i, pos[i] + 1)
    /\ running' = {}
    /\ progress' = "sent"
    /\ UNCHANGED <<arguments, relays, pos, cloneCache, accountCache>>

Task == \E i \in 1..Len(relays) : Accept(i) \/ SendFails(i) \/ EndTask(i)

SendNext == StartSending \/ Task \/ Join \/ SendCrash

SendSpec == SendInit /\ [][SendNext]_sendVars

-----------------------------------------------------------------------------
(* Properties.                                                             *)

\* A relay that has an event has all before it: never a patch without the
\* root it belongs to, whatever relays refuse or answer late.
NoGaps ==
    \A h \in Hosts : \A n \in held[h] : \A m \in 1..Count : m <= n => m \in held[h]
=============================================================================
