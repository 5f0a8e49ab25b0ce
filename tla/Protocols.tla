------------------------------ MODULE Protocols ------------------------------
(***************************************************************************)
(* How the remote helper reaches one git server: list_from_remote,         *)
(* fetch_from_git_server and push_to_remote try protocols one after the    *)
(* other, starting with the one remembered for the server in git config    *)
(* (nostr.protocol-fetch, nostr.protocol-push), and remember another one   *)
(* when that is the first to work.  Processes that run in the same clone   *)
(* share these items.                                                      *)
(***************************************************************************)
EXTENDS Naturals, Sequences

CONSTANTS Procs,     \* helper processes of one clone
          Urls,      \* clone urls of git servers, those that parse
          Overrides, \* protocols that nostr urls name; NoProtocol: they name none
          NoProtocol, NoAttempt,
          Env        \* "overlap": processes overlap; "locked": config is not written

Protocols == {"ssh", "https", "http", "git", "ftp", "filesystem", "unspecified",
              "unauth https", "unauth http"}
Unauthenticated == {"unauth https", "unauth http"}
\* Protocols that ask the user for a name and a password.
Interactive == {"https", "http"}

ASSUME ProtocolsAssumption ==
    /\ \A u \in Urls : u.scheme \in Protocols \ Unauthenticated
    /\ NoProtocol \notin Protocols
    /\ Overrides \subseteq {"ssh", "https", "http", "git", NoProtocol}

\* Urls of one host and path share a name, whatever their scheme, user or port.
ShortName(u) == u.place
Names == {ShortName(u) : u \in Urls}

Kinds == {"list", "fetch", "push"}
Directions == {"fetch", "push"}
Preferences == [Names -> Protocols \cup {NoProtocol}]

VARIABLES prefs,    \* the two config items
          attempt,  \* what each process is doing
          worked,   \* protocol that listed each server last, if it was saved
          sshRefused \* servers that refused ssh for want of authentication

vars == <<prefs, attempt, worked, sshRefused>>

Attempt == [kind : Kinds,
            url : Urls,
            override : Overrides,
            order : Seq(Protocols), \* protocols_to_attempt
            next : Nat \ {0},       \* the first that has not been tried
            open : BOOLEAN,         \* the server answers without credentials
            step : {"try", "save", "err"},
            read : Preferences]     \* config item, as read to be rewritten

\* The preferences in git config and the attempts of each process, by shape.
TypeOK ==
    /\ prefs \in [Directions -> Preferences]
    /\ attempt \in [Procs -> Attempt \cup {NoAttempt}]
    /\ \A h \in Procs : attempt[h] # NoAttempt => attempt[h].next <= Len(attempt[h].order)
    /\ worked \in Preferences
    /\ sshRefused \subseteq Names

NothingKnown == [n \in Names |-> NoProtocol]

Init ==
    /\ prefs = [d \in Directions |-> NothingKnown]
    /\ attempt = [h \in Procs |-> NoAttempt]
    /\ worked = NothingKnown
    /\ sshRefused = {}

\* `worked` and sshRefused are history: the code does not keep them.

-----------------------------------------------------------------------------
(* Which protocols, in which order.                                        *)

\* Mutant: over http, credentials are asked for before ssh is tried.
BugAsksFirst(scheme) ==
    CASE scheme = "http" -> <<"unauth http", "http", "ssh">>
      [] scheme = "ftp"  -> <<"ftp", "ssh">>
      [] OTHER           -> <<"unauth https", "ssh", "https">>

ReadProtocols(scheme) ==
    CASE scheme = "http" -> <<"unauth http", "ssh", "http">>
      [] scheme = "ftp"  -> <<"ftp", "ssh">>
      [] OTHER           -> <<"unauth https", "ssh", "https">>

WriteProtocols(scheme) ==
    CASE scheme = "http" -> <<"ssh", "http">>
      [] scheme = "ftp"  -> <<"ssh", "ftp">>
      [] OTHER           -> <<"ssh", "https">>

\* The preferred protocol first, if it is one of the list.
Promote(list, preferred) ==
    IF \E i \in DOMAIN list : list[i] = preferred
    THEN LET pos == CHOOSE i \in DOMAIN list : list[i] = preferred
         IN  [i \in DOMAIN list |-> IF i = 1 THEN preferred
                                    ELSE IF i <= pos THEN list[i - 1]
                                    ELSE list[i]]
    ELSE list

ReadOrder(u, override, known) ==
    IF u.scheme = "filesystem" THEN <<"filesystem">>
    ELSE IF override # NoProtocol THEN <<override>>
    ELSE Promote(ReadProtocols(u.scheme), known[ShortName(u)])

WriteOrder(u, override, known) ==
    IF u.scheme = "filesystem" THEN <<"filesystem">>
    ELSE IF override # NoProtocol THEN <<override>>
    ELSE Promote(WriteProtocols(u.scheme), known[ShortName(u)])

Order(kind, u, override) ==
    IF kind = "push" THEN WriteOrder(u, override, prefs["push"])
    ELSE ReadOrder(u, override, prefs["fetch"])

\* The config item a success is saved to: a fetch saves it for pushes.
SavedFor(kind) == IF kind = "list" THEN "fetch" ELSE "push"

-----------------------------------------------------------------------------
(* One server, one operation.                                              *)

MayRun == "overlap" \in Env \/ \A h \in Procs : attempt[h] = NoAttempt

\* An operation on one server starts.  (A fetch of commits the clone has does
\* not get here.)
Start(h, kind, u, override) ==
    /\ attempt[h] = NoAttempt
    /\ MayRun
    /\ LET order == Order(kind, u, override)
       IN  \E open \in {FALSE} \cup {\E i \in DOMAIN order : order[i] \in Unauthenticated} :
             attempt' = [attempt EXCEPT ![h] =
                [kind |-> kind, url |-> u, override |-> override, order |-> order,
                 next |-> 1, open |-> open, step |-> "try", read |-> NothingKnown]]
    /\ UNCHANGED <<prefs, worked, sshRefused>>

Trying(a) == a # NoAttempt /\ a.step = "try"
Current(a) == a.order[a.next]

\* What may come of a request.  An error is about authentication if its text
\* has one of six phrases ("authentication", "permission", "not found", ...).
Failures == {"authentication", "other"}
Outcomes(a) ==
    IF a.open /\ Current(a) \in Unauthenticated THEN {"ok"} ELSE {"ok"} \cup Failures

\* Mutant: every operation stops the way a push does.
BugAlwaysStops(a, failure) == failure # "authentication"

\* No other protocol is tried after this failure.
Stops(a, failure) ==
    /\ failure # "authentication"
    /\ a.kind = "push" \/ Current(a) = "ssh"

\* Kept for processes that take turns.
Remembered(a) ==
    IF a.kind = "list" /\ "overlap" \notin Env
    THEN [worked EXCEPT ![ShortName(a.url)] = Current(a)] ELSE worked

\* The server answers.  Only another protocol than the first is worth saving.
Succeed(h) ==
    LET a == attempt[h]
    IN  /\ Trying(a)
        /\ "ok" \in Outcomes(a)
        /\ attempt' = [attempt EXCEPT ![h] =
              IF a.next = 1 THEN NoAttempt
              ELSE [a EXCEPT !.step = "save", !.read = prefs[SavedFor(a.kind)]]]
        /\ worked' = IF a.next = 1 /\ a.override = NoProtocol THEN Remembered(a) ELSE worked
        /\ UNCHANGED <<prefs, sshRefused>>

\* Mutant: one protocol too many.
BugOneMore(a, failure) ==
    Stops(a, failure) \/ a.next > Len(a.order)

Last(a, failure) == Stops(a, failure) \/ a.next = Len(a.order)

Fail(h) ==
    LET a == attempt[h]
    IN  /\ Trying(a)
        /\ \E failure \in Outcomes(a) \cap Failures :
              /\ attempt' = [attempt EXCEPT ![h] =
                    IF Last(a, failure) THEN [a EXCEPT !.step = "err"]
                    ELSE [a EXCEPT !.next = @ + 1]]
              /\ sshRefused' = IF Current(a) = "ssh" /\ failure = "authentication"
                               THEN sshRefused \cup {ShortName(a.url)} ELSE sshRefused
        /\ UNCHANGED <<prefs, worked>>

\* Mutant: the older pair of the server stays, and it is found first.
BugKeepsOlder(a) ==
    [a.read EXCEPT ![ShortName(a.url)] = IF @ = NoProtocol THEN Current(a) ELSE @]

\* set_protocol_preference: the item as it was read, with one pair replaced.
Rewritten(a) == [a.read EXCEPT ![ShortName(a.url)] = Current(a)]

\* The error of set_protocol_preference is ignored.
SetProtocolPreference(h) ==
    LET a == attempt[h]
    IN  /\ a # NoAttempt
        /\ a.step = "save"
        /\ \/ /\ prefs' = [prefs EXCEPT ![SavedFor(a.kind)] = Rewritten(a)]
              /\ worked' = Remembered(a)
           \/ /\ "locked" \in Env
              /\ UNCHANGED <<prefs, worked>>
        /\ attempt' = [attempt EXCEPT ![h] = NoAttempt]
        /\ UNCHANGED sshRefused

\* The error goes to the caller, which goes on with the next server, or ends.
ReturnError(h) ==
    /\ attempt[h] # NoAttempt
    /\ attempt[h].step = "err"
    /\ attempt' = [attempt EXCEPT ![h] = NoAttempt]
    /\ UNCHANGED <<prefs, worked, sshRefused>>

Next ==
    \E h \in Procs :
        \/ \E kind \in Kinds, u \in Urls, override \in Overrides :
              Start(h, kind, u, override)
        \/ Succeed(h)
        \/ Fail(h)
        \/ SetProtocolPreference(h)
        \/ ReturnError(h)

Spec == Init /\ [][Next]_vars

-----------------------------------------------------------------------------
(* Properties.                                                             *)

\* "to enable non-interactive failures over https": unless the nostr url says
\* so, nobody is asked for a password over http(s) before the server refused
\* ssh for want of authentication, now or when the preference was learned;
\* whatever processes save in between, and though a fetch saves its protocol
\* for pushes.
PromptsJustified ==
    \A h \in Procs :
        LET a == attempt[h]
        IN  Trying(a) /\ Current(a) \in Interactive /\ a.override = NoProtocol
              => ShortName(a.url) \in sshRefused

\* Nothing but a preference for ssh keeps a list or a fetch from a server that
\* answers without credentials.
OnlySshHides ==
    \A h \in Procs :
        LET a == attempt[h]
        IN  a # NoAttempt => (a.step = "err" /\ a.open /\ a.kind # "push"
                                => a.order[1] = "ssh")

\* While processes do not overlap, a list first tries what the last list of
\* that server succeeded with, if that was saved.  Not for urls that differ in
\* their scheme only: they share one preference.
ListsWhereItWorked ==
    \A u \in Urls :
        /\ worked[ShortName(u)] # NoProtocol
        /\ \A v \in Urls : ShortName(v) = ShortName(u) => v = u
        => ReadOrder(u, NoProtocol, prefs["fetch"])[1] = worked[ShortName(u)]
=============================================================================
