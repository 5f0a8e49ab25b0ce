-------------------------------- MODULE Login --------------------------------
(***************************************************************************)
(* Who signs: the login kept in git config (src/lib/login, and login,      *)
(* logout and export-keys of src/lib/sub_commands).  A scope, the account's*)
(* global config or a repository's local one, holds four items: a secret   *)
(* key, or a remote signer's address and the key ngit speaks to it with,   *)
(* and the public key of the user.  Every item is a write of its own, and  *)
(* commands run in several places read and write the same global items.    *)
(*                                                                         *)
(* A command works through a list of writes (todo) between its prompts.    *)
(***************************************************************************)
EXTENDS Signers

CONSTANT Envs \* sets of what may happen in a behaviour:
    \* "overlap": commands in different places overlap
    \* "kill":    a command is killed between two writes
    \* "fault":   a write to a config file fails
    \* "bunker":  remote signers
    \* "locked":  keys stored encrypted with a password
    \* "cli":     signers given as arguments of a command

VARIABLES cfg,  \* the items of each scope
          pc,   \* where the command of each place is
          task, \* what it works on
          told, \* history: what the last command to end told, in its place
          env   \* what may happen in this behaviour

vars == <<cfg, pc, task, told, env>>

Write == [scope : Scopes, item : Items, value : Values]
Commands == {"none", "work", "login", "logout"}
Task == [command : Commands,
         local : BOOLEAN,                  \* --local
         here : BOOLEAN,                   \* log_in_locally_only
         given : Signer \cup {NoSigner},   \* from the command line
         sources : Seq(Scopes),            \* logins to ask about
         scope : Scopes,                   \* being cleared, or saved to
         used : Scopes,                    \* history: of the login at the start
         signer : Signer \cup {NoSigner},  \* being saved
         todo : Seq(Write)]
Told == [what : {"nothing", "no keys"}] \cup [what : {"logout"}, used : Scopes] \cup
        [what : {"saved"}, scope : Scopes, signer : Signer]

\* Git config, and the commands that run in each place, by shape.
TypeOK ==
    /\ cfg \in [Scopes -> [Items -> Values]]
    /\ \A s \in Scopes : /\ cfg[s]["nsec"] \in Key \cup {Nothing}
                         /\ \A i \in Items \ {"nsec"} : cfg[s][i] \in Accounts \cup {Nothing}
    /\ pc \in [Places -> {"idle", "accounts", "clearing", "unclear", "menu",
                          "saving", "unsaved"}]
    /\ task \in [Places -> Task]
    /\ told \in [Places -> Told]
    /\ env \in Envs

NoTask == [command |-> "none", local |-> FALSE, here |-> FALSE, given |-> NoSigner,
           sources |-> << >>, scope |-> Global, used |-> Global,
           signer |-> NoSigner, todo |-> << >>]
Silent == [what |-> "nothing"]

Init ==
    /\ cfg = [s \in Scopes |-> Empty]
    /\ pc = [p \in Places |-> "idle"]
    /\ task = [p \in Places |-> NoTask]
    /\ told = [p \in Places |-> Silent]
    /\ env \in Envs

-----------------------------------------------------------------------------
(* Loading a login.                                                        *)

\* The scopes of a place, in the order they are looked through.
Sources(p) == IF p \in Repos THEN <<p, Global>> ELSE <<Global>>

\* get_signer_info without a source: that of the first scope that has one.
SignerFor(p) ==
    IF p \in Repos /\ SignerIn(cfg[p]) # NoSigner THEN SignerIn(cfg[p])
    ELSE SignerIn(cfg[Global])

ScopeFor(p) == IF p \in Repos /\ SignerIn(cfg[p]) # NoSigner THEN p ELSE Global

\* get_git_config_item of a repository without a scope: each item by itself.
Merged(p, item) ==
    IF p \in Repos /\ cfg[p][item] # Nothing THEN cfg[p][item] ELSE cfg[Global][item]

\* get_curent_user, get_likely_logged_in_user
CurrentUser(p) == Merged(p, "npub")

-----------------------------------------------------------------------------
(* Lists of writes.                                                        *)

Set(s, item, value) == [scope |-> s, item |-> item, value |-> value]
Remove(s, item) == Set(s, item, Nothing)

\* Mutants: the public key is left, or a remote signer's items are.
BugKeepsNpub(s) ==
    <<Remove(s, "nsec"), Remove(s, "bunker-uri"), Remove(s, "bunker-app-key")>>
BugKeepsBunker(s) == <<Remove(s, "nsec"), Remove(s, "npub")>>

\* Both logout functions.
Cleared(s) ==
    <<Remove(s, "nsec"), Remove(s, "npub"), Remove(s, "bunker-uri"), Remove(s, "bunker-app-key")>>

\* Mutants: the old login is removed before what replaces it is there; the two
\* keys are mixed up.
BugRemovesFirst(signer, s) ==
    (IF signer.kind = "key"
     THEN <<Remove(s, "bunker-uri"), Remove(s, "bunker-app-key"),
            Set(s, "nsec", [of |-> signer.of, locked |-> signer.locked])>>
     ELSE <<Remove(s, "nsec"), Set(s, "bunker-uri", signer.of),
            Set(s, "bunker-app-key", signer.of)>>)
    \o <<Set(s, "npub", signer.npub)>>
BugSwapsKeys(signer, s) == <<Set(s, "nsec", signer.npub), Set(s, "npub", signer.of)>>

\* What silently_save_to_git_config writes of a signer to scope s.
SignerItems(signer, s) ==
    (IF signer.kind = "key"
     THEN <<Set(s, "nsec", [of |-> signer.of, locked |-> signer.locked]),
            Remove(s, "bunker-uri"), Remove(s, "bunker-app-key")>>
     ELSE <<Set(s, "bunker-uri", signer.of), Set(s, "bunker-app-key", signer.of),
            Remove(s, "nsec")>>)
    \o <<Set(s, "npub", signer.npub)>>

\* Mutant: the local login stays when a global one is saved.
BugLocalStays(p, signer, s) == SignerItems(signer, s)

\* "remove local login otherwise it will override global next time".
Saved(p, signer, s) ==
    (IF s = Global /\ p \in Repos
     THEN <<Remove(p, "npub"), Remove(p, "nsec"), Remove(p, "bunker-uri"),
            Remove(p, "bunker-app-key")>>
     ELSE << >>) \o SignerItems(signer, s)

\* The command in p goes on.
Continue(p, at, t) ==
    /\ pc' = [pc EXCEPT ![p] = at]
    /\ task' = [task EXCEPT ![p] = t]

\* It ends, and tells something.
End(p, says) ==
    /\ Continue(p, "idle", NoTask)
    /\ told' = [told EXCEPT ![p] = says]

\* A command starts; what was told before is history.
Begin(p, at, t) ==
    /\ pc[p] = "idle"
    /\ "overlap" \in env \/ \A q \in Places : pc[q] = "idle"
    /\ Continue(p, at, t)
    /\ told' = [q \in Places |-> Silent]
    /\ UNCHANGED cfg

-----------------------------------------------------------------------------
(* Commands.                                                               *)

\* extract_signer_cli_arguments: the public key is not known.
GivenSigners ==
    IF "cli" \notin env THEN {}
    ELSE {KeyOf(a, FALSE, Nothing) : a \in Accounts} \cup
         (IF "bunker" \in env THEN {BunkerOf(a, Nothing) : a \in Accounts} ELSE {}) \cup
         (IF "locked" \in env THEN {KeyOf(a, TRUE, Nothing) : a \in Accounts} ELSE {})

\* login_or_signup, of `init`, `send` and a push: a signer that cannot be loaded
\* is replaced.
Work(p) ==
    \E signer \in {SignerFor(p)} \cup GivenSigners :
        /\ Nothing \in Loads(signer, TRUE)
        /\ Begin(p, "menu", [NoTask EXCEPT !.command = "work"])

\* ngit account login
AccountLogin(p, local, given) ==
    Begin(p, "accounts",
        [NoTask EXCEPT !.command = "login", !.local = local, !.given = given,
                       !.sources = IF ~local THEN Sources(p)
                                   ELSE IF p \in Repos THEN <<p>> ELSE << >>])

LogsOut(p, scope, todo) ==
    Begin(p, "clearing", [NoTask EXCEPT !.command = "logout", !.used = ScopeFor(p),
                                        !.scope = scope, !.todo = todo])

\* ngit account logout: the first login that loads without a password.  If none
\* does, it ends without a word.
AccountLogout(p) ==
    LET fails(s) == Nothing \in Loads(SignerIn(cfg[s]), FALSE)
        sources == Sources(p)
    IN \/ \E i \in DOMAIN sources :
            /\ Loads(SignerIn(cfg[sources[i]]), FALSE) # {Nothing}
            /\ \A j \in 1..i - 1 : fails(sources[j])
            /\ LogsOut(p, sources[i], Cleared(sources[i]))
       \/ /\ \A i \in DOMAIN sources : fails(sources[i])
          /\ LogsOut(p, Global, << >>)

\* ngit account export-keys, when it says "not logged in so no keys are stored".
ExportNoKeys(p) ==
    /\ pc[p] = "idle" /\ ("overlap" \in env \/ \A q \in Places : pc[q] = "idle")
    /\ Nothing \in Loads(SignerFor(p), FALSE)
    /\ told' = [q \in Places |-> IF q = p THEN [what |-> "no keys"] ELSE Silent]
    /\ UNCHANGED <<cfg, pc, task>>

-----------------------------------------------------------------------------
(* Writes.                                                                 *)

\* The next write of p changes nothing: an absent item is not removed.
Skips(w) == w.value = Nothing /\ cfg[w.scope][w.item] = Nothing

WriteNext(p) ==
    LET t == task[p] IN
    /\ pc[p] \in {"clearing", "saving"}
    /\ t.todo # << >>
    /\ LET w == Head(t.todo) IN cfg' = [cfg EXCEPT ![w.scope][w.item] = w.value]
    /\ Continue(p, pc[p], [t EXCEPT !.todo = Tail(@)])
    /\ UNCHANGED told

\* `logout` prints the error and ends, `login` asks how to go on.
ClearFails(p) ==
    /\ pc[p] = "clearing"
    /\ IF task[p].command = "login"
       THEN Continue(p, "unclear", [task[p] EXCEPT !.todo = << >>]) /\ UNCHANGED told
       ELSE End(p, Silent)
    /\ UNCHANGED cfg

\* A failed save to the global config is asked about.  The result of any other
\* is discarded: `let _ = save_to_git_config(..)`.
SaveFails(p) ==
    /\ pc[p] = "saving"
    /\ IF task[p].scope = Global
       THEN Continue(p, "unsaved", [task[p] EXCEPT !.todo = << >>]) /\ UNCHANGED told
       ELSE End(p, Silent)
    /\ UNCHANGED cfg

WriteFails(p) ==
    /\ "fault" \in env
    /\ task[p].todo # << >>
    /\ ~Skips(Head(task[p].todo))
    /\ ClearFails(p) \/ SaveFails(p)

\* All is written.
Written(p) ==
    LET t == task[p] IN
    /\ t.todo = << >>
    /\ \/ /\ pc[p] = "clearing" /\ t.command = "logout"
          /\ End(p, [what |-> "logout", used |-> t.used])
       \/ /\ pc[p] = "clearing" /\ t.command = "login"
          /\ Continue(p, "accounts", [t EXCEPT !.sources = Tail(@)])
          /\ UNCHANGED told
       \/ /\ pc[p] = "saving"
          /\ End(p, [what |-> "saved", scope |-> t.scope, signer |-> t.signer])
    /\ UNCHANGED cfg

-----------------------------------------------------------------------------
(* Prompts.                                                                *)

\* save_to_git_config begins.  Outside a repository nothing is saved locally.
Save(p, signer, local) ==
    IF local /\ p \notin Repos THEN End(p, Silent)
    ELSE LET s == IF local THEN p ELSE Global IN
         /\ Continue(p, "saving", [task[p] EXCEPT !.scope = s, !.signer = signer,
                                                  !.todo = Saved(p, signer, s)])
         /\ UNCHANGED told

\* The logout function of `ngit account login`: the logins that load without a
\* password are asked about in turn, then the user logs in anew.
AskAccount(p) ==
    LET t == task[p] IN
    /\ pc[p] = "accounts"
    /\ t.sources # << >>
    /\ \/ /\ Nothing \in Loads(SignerIn(cfg[Head(t.sources)]), FALSE)
          /\ Continue(p, "accounts", [t EXCEPT !.sources = Tail(@)])
          /\ UNCHANGED told
       \/ /\ Loads(SignerIn(cfg[Head(t.sources)]), FALSE) # {Nothing}
          /\ \/ /\ Continue(p, "clearing",       \* "logout"
                    [t EXCEPT !.scope = Head(t.sources), !.todo = Cleared(Head(t.sources))])
                /\ UNCHANGED told
             \/ /\ t.local                       \* "remain logged in"
                /\ Continue(p, "menu", [t EXCEPT !.here = TRUE]) /\ UNCHANGED told
             \/ ~t.local /\ End(p, Silent)
             \/ /\ Head(t.sources) = Global      \* "login to local git repo only ..."
                /\ Continue(p, "menu", [t EXCEPT !.here = TRUE]) /\ UNCHANGED told
    /\ UNCHANGED cfg

NoneLeft(p) ==
    /\ pc[p] = "accounts"
    /\ task[p].sources = << >>
    /\ Continue(p, "menu", [task[p] EXCEPT !.here = task[p].local])
    /\ UNCHANGED <<cfg, told>>

\* "continue with global login ...", "login to this local repository ...", "cancel".
AfterFailedLogout(p) ==
    LET t == task[p] IN
    /\ pc[p] = "unclear"
    /\ \/ \E here \in BOOLEAN : Continue(p, "menu", [t EXCEPT !.here = here]) /\ UNCHANGED told
       \/ ~t.local /\ End(p, Silent)
    /\ UNCHANGED cfg

\* get_fresh_nsec_signer: a key, or one that is kept encrypted.
SecretKeys ==
    {KeyOf(a, FALSE, a) : a \in Accounts} \cup
    (IF "locked" \in env THEN {KeyOf(a, TRUE, a) : a \in Accounts} ELSE {})

\* signup: the key of a new account.
NewAccounts == {KeyOf(a, FALSE, a) : a \in Accounts}

\* listen_for_remote_signer: a remote signer that answered.
Answered == {BunkerOf(a, a) : a \in Accounts}

\* get_fresh_nip46_signer
RemoteSigners == IF "bunker" \in env THEN Answered ELSE {}

\* Mutant: --local is forgotten on the way.
BugOnlyHere(t) == t.here

\* log_in_locally_only || command_args.local
SaveLocal(t) == t.here \/ t.local

\* fresh_login_or_signup
FreshLogin(p) ==
    LET t == task[p] IN
    /\ pc[p] = "menu"
    /\ IF t.given = NoSigner
       THEN \E signer \in SecretKeys \cup NewAccounts \cup RemoteSigners : Save(p, signer, SaveLocal(t))
       ELSE \E key \in Loads(t.given, TRUE) :
                IF key = Nothing THEN End(p, Silent) ELSE Save(p, t.given, SaveLocal(t))
    /\ UNCHANGED cfg

\* The items as the user sets them who follows the advice.
ByHand(signer, items) ==
    IF signer.kind = "key"
    THEN [items EXCEPT !["nsec"] = [of |-> signer.of, locked |-> signer.locked]]
    ELSE [items EXCEPT !["bunker-uri"] = signer.of, !["bunker-app-key"] = signer.of]

\* "i'll update global git config manually": checked against the public key, if
\* that is known.
UpdatesManually(p) ==
    LET signer == task[p].signer IN
    \E items \in {cfg[Global], ByHand(signer, cfg[Global])} :
        /\ cfg' = [cfg EXCEPT ![Global] = items]
        /\ \E key \in Loads(SignerIn(items), TRUE) :
            IF key # Nothing /\ signer.npub \in {key, Nothing} THEN End(p, Silent)
            ELSE UNCHANGED <<pc, task, told>>

\* The other choices are a local login and a "one time login".
AfterFailedSave(p) ==
    /\ pc[p] = "unsaved"
    /\ \/ UpdatesManually(p)
       \/ Save(p, task[p].signer, TRUE) /\ UNCHANGED cfg
       \/ End(p, Silent) /\ UNCHANGED cfg

\* A prompt is interrupted, or the command killed.
Quit(p) ==
    /\ \/ pc[p] \in {"accounts", "unclear", "menu", "unsaved"}
       \/ "kill" \in env /\ pc[p] # "idle"
    /\ End(p, Silent)
    /\ UNCHANGED cfg

Command(p) ==
    \/ Work(p)
    \/ \E local \in BOOLEAN, given \in {NoSigner} \cup GivenSigners : AccountLogin(p, local, given)
    \/ AccountLogout(p)
    \/ ExportNoKeys(p)

Step(p) ==
    \/ WriteNext(p) \/ WriteFails(p) \/ Written(p)
    \/ AskAccount(p) \/ NoneLeft(p) \/ AfterFailedLogout(p)
    \/ FreshLogin(p) \/ AfterFailedSave(p)
    \/ Quit(p)

Next == UNCHANGED env /\ \E p \in Places : Command(p) \/ Step(p)

Spec == Init /\ [][Next]_vars

-----------------------------------------------------------------------------
(* Properties.                                                             *)

AtRest == \A p \in Places : pc[p] = "idle"

\* The account of the next command in every place is the one of its signer.
CurrentUserSigns ==
    AtRest => \A p \in Places :
        SignerFor(p) # NoSigner => CurrentUser(p) \in {Nothing, SignerFor(p).of}

\* After "saved login details" the next command in that place signs with them,
\* whatever login there was before, in either scope.
LoginTakesEffect ==
    \A p \in Places : told[p].what = "saved" =>
        /\ SignerFor(p) = told[p].signer
        /\ ScopeFor(p) = told[p].scope

\* A login for one repository leaves the account's global login alone, whatever
\* fails and whatever is answered then.
LocalLeavesGlobal ==
    [][\A p \in Places :
        /\ task[p].local \/ task[p].here
        /\ <<pc[p], task[p]>>' # <<pc[p], task[p]>>
        => cfg'[Global] = cfg[Global]]_vars

\* Only a logout leaves a scope without a login it had, or a global login, which
\* removes the clone's first: however a save is cut short, the scope it is for
\* has the old login or the new one.  (Of a key and a remote signer, saved at the
\* same time, each may remove the other.)
NeverLoggedOut ==
    [][\A s \in Scopes :
        /\ ~({"overlap", "bunker"} \subseteq env)
        /\ SignerIn(cfg[s]) # NoSigner /\ SignerIn(cfg'[s]) = NoSigner
        => \E p \in Places : /\ task'[p] # task[p]
                           /\ \/ pc[p] = "clearing"
                              \/ s # Global /\ task[p].scope = Global]_vars

\* Logins take nothing from anybody: not from the scopes they are not for, and
\* not the login they are to replace, if they are cut short.
LoginsKept == LocalLeavesGlobal /\ NeverLoggedOut

\* `logout`: "remove nostr account details stored in git config" (cli.rs).
LogoutRemoves ==
    \A p \in Places : told[p].what = "logout" => SignerIn(cfg[told[p].used]) = NoSigner

\* Where no command runs, the account ngit takes for the user's, from an item
\* that is saved and looked up apart from the signer, is the one that signs:
\* with commands that take turns and complete, and keys that are entered.
UserSigns == env \subseteq {"bunker", "locked"} => CurrentUserSigns

\* What the user was told of a login is what the next command in that place
\* finds, whatever failed or was killed before, if commands take turns; and
\* what the user was told of a logout, if keys are not encrypted, and every
\* command completes.
ToldIsSo ==
    /\ "overlap" \notin env => LoginTakesEffect
    /\ env \subseteq {"bunker"} => LogoutRemoves
=============================================================================
