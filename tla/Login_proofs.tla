---------------------------- MODULE Login_proofs ----------------------------
(***************************************************************************)
(* Login proved for any places and accounts: its types, that logins take   *)
(* nothing from anybody, that what a login or logout tells is so, and that *)
(* the account taken for the user's signs.                                 *)
(***************************************************************************)
EXTENDS Login, TLAPS

-----------------------------------------------------------------------------
(* Types.                                                                  *)

\* What may be written to an item.
ValueOf(item) == IF item = "nsec" THEN Key \cup {Nothing} ELSE Accounts \cup {Nothing}
TypedWrite(scopes) == {w \in [scope : scopes, item : Items, value : Values] :
                          w.value \in ValueOf(w.item)}

Stages == {"idle", "accounts", "clearing", "unclear", "menu", "saving", "unsaved"}

\* A command of p at a stage: its task is well typed, and a login for one
\* repository only works on the logins of that repository, and cannot get to the
\* prompt that comes after a global login that failed.
Fit(p, at, t) ==
    /\ t.todo \in Seq(TypedWrite(Scopes))
    /\ at \in {"saving", "unsaved"} => t.signer \in Signer
    /\ at = "clearing" /\ t.command = "login" => t.sources # << >>
    /\ t.local => t.sources \in Seq({p})
    /\ at \in {"accounts", "clearing", "unclear"} => ~t.here
    /\ t.local \/ t.here =>
        /\ at # "unsaved"
        /\ at = "saving" => t.scope = p
        /\ at \in {"clearing", "saving"} => t.todo \in Seq(TypedWrite({p}))

CfgType ==
    /\ cfg \in [Scopes -> [Items -> Values]]
    /\ \A s \in Scopes, item \in Items : cfg[s][item] \in ValueOf(item)

RunInv ==
    /\ pc \in [Places -> Stages]
    /\ task \in [Places -> Task]
    /\ \A p \in Places : Fit(p, pc[p], task[p])

ToldType == told \in [Places -> Told]

TypeInv == CfgType /\ RunInv /\ ToldType

LEMMA TypeInvImplies == TypeInv /\ env \in Envs => TypeOK
<1> SUFFICES ASSUME TypeInv, env \in Envs
             PROVE  TypeOK
  OBVIOUS
<1>1. \A s \in Scopes, item \in Items : cfg[s][item] \in ValueOf(item)
  BY DEF TypeInv, CfgType
<1>2. /\ \A s \in Scopes : cfg[s]["nsec"] \in Key \cup {Nothing}
      /\ \A s \in Scopes : \A i \in Items \ {"nsec"} : cfg[s][i] \in Accounts \cup {Nothing}
  BY <1>1 DEF ValueOf, Items
<1> QED
  BY <1>2 DEF TypeInv, CfgType, RunInv, ToldType, TypeOK, Stages

\* A list of the writes of logout, or of a save, is typed and of one scope.
LEMMA ClearedType ==
    ASSUME NEW s \in Scopes
    PROVE  Cleared(s) \in Seq(TypedWrite({s}))
<1>1. \A item \in Items : Remove(s, item) \in TypedWrite({s})
  BY DEF Remove, Set, TypedWrite, ValueOf, Values
<1>2. {"nsec", "npub", "bunker-uri", "bunker-app-key"} \subseteq Items
  BY DEF Items
<1>3. /\ Remove(s, "nsec") \in TypedWrite({s})
      /\ Remove(s, "npub") \in TypedWrite({s})
      /\ Remove(s, "bunker-uri") \in TypedWrite({s})
      /\ Remove(s, "bunker-app-key") \in TypedWrite({s})
  BY <1>1, <1>2
<1> QED
  BY <1>3 DEF Cleared

LEMMA SignerItemsType ==
    ASSUME NEW s \in Scopes, NEW signer \in Signer
    PROVE  SignerItems(signer, s) \in Seq(TypedWrite({s}))
<1>1. \A item \in Items : Remove(s, item) \in TypedWrite({s})
  BY DEF Remove, Set, TypedWrite, ValueOf, Values
<1>2. {"nsec", "npub", "bunker-uri", "bunker-app-key"} \subseteq Items
  BY DEF Items
<1>3. /\ Remove(s, "nsec") \in TypedWrite({s})
      /\ Remove(s, "bunker-uri") \in TypedWrite({s})
      /\ Remove(s, "bunker-app-key") \in TypedWrite({s})
  BY <1>1, <1>2
<1>4. /\ signer.of \in Accounts
      /\ signer.locked \in BOOLEAN
      /\ signer.npub \in Accounts \cup {Nothing}
  BY DEF Signer
<1>5. /\ Set(s, "bunker-uri", signer.of) \in TypedWrite({s})
      /\ Set(s, "bunker-app-key", signer.of) \in TypedWrite({s})
      /\ Set(s, "npub", signer.npub) \in TypedWrite({s})
  BY <1>2, <1>4 DEF Set, TypedWrite, ValueOf, Values
<1>6. Set(s, "nsec", [of |-> signer.of, locked |-> signer.locked]) \in TypedWrite({s})
  <2>1. [of |-> signer.of, locked |-> signer.locked] \in Key
    BY <1>4 DEF Key
  <2> QED
    BY <1>2, <2>1 DEF Set, TypedWrite, ValueOf, Values
<1> HIDE DEF Remove, Set
<1> DEFINE ofKey == <<Set(s, "nsec", [of |-> signer.of, locked |-> signer.locked]),
                      Remove(s, "bunker-uri"), Remove(s, "bunker-app-key")>>
           ofBunker == <<Set(s, "bunker-uri", signer.of),
                         Set(s, "bunker-app-key", signer.of), Remove(s, "nsec")>>
           items == IF signer.kind = "key" THEN ofKey ELSE ofBunker
<1>7. items \in Seq(TypedWrite({s})) /\ <<Set(s, "npub", signer.npub)>> \in Seq(TypedWrite({s}))
  <2>1. ofKey \in Seq(TypedWrite({s}))
    BY <1>3, <1>6
  <2>2. ofBunker \in Seq(TypedWrite({s}))
    BY <1>3, <1>5
  <2>3. <<Set(s, "npub", signer.npub)>> \in Seq(TypedWrite({s}))
    BY <1>5
  <2> HIDE DEF ofKey, ofBunker
  <2> QED
    BY <2>1, <2>2, <2>3
<1> HIDE DEF items
<1>8. items \o <<Set(s, "npub", signer.npub)>> \in Seq(TypedWrite({s}))
  BY <1>7
<1>9. SignerItems(signer, s) = items \o <<Set(s, "npub", signer.npub)>>
  BY Zenon DEF SignerItems, items, ofKey, ofBunker
<1> QED
  BY <1>8, <1>9

\* The writes of a save are of its scope, but those of a global one in a
\* repository, which begins with the repository's own.
LEMMA SavedType ==
    ASSUME NEW p \in Places, NEW signer \in Signer, NEW s \in Scopes
    PROVE  /\ Saved(p, signer, s) \in Seq(TypedWrite(Scopes))
           /\ s # Global => Saved(p, signer, s) \in Seq(TypedWrite({s}))
<1> DEFINE first == IF s = Global /\ p \in Repos
                    THEN <<Remove(p, "npub"), Remove(p, "nsec"), Remove(p, "bunker-uri"),
                           Remove(p, "bunker-app-key")>>
                    ELSE << >>
<1>1. \A r \in Scopes : TypedWrite({r}) \subseteq TypedWrite(Scopes)
  BY DEF TypedWrite
<1>2. SignerItems(signer, s) \in Seq(TypedWrite({s})) /\ SignerItems(signer, s) \in Seq(TypedWrite(Scopes))
  BY <1>1, SignerItemsType
<1>3. ASSUME p \in Repos
      PROVE  /\ Remove(p, "nsec") \in TypedWrite(Scopes)
             /\ Remove(p, "npub") \in TypedWrite(Scopes)
             /\ Remove(p, "bunker-uri") \in TypedWrite(Scopes)
             /\ Remove(p, "bunker-app-key") \in TypedWrite(Scopes)
  BY <1>3 DEF Remove, Set, TypedWrite, ValueOf, Values, Items, Scopes
<1>4. first \in Seq(TypedWrite(Scopes)) /\ (s # Global => first \in Seq(TypedWrite({s})))
  BY <1>3
<1> HIDE DEF first
<1>5. /\ first \o SignerItems(signer, s) \in Seq(TypedWrite(Scopes))
      /\ s # Global => first \o SignerItems(signer, s) \in Seq(TypedWrite({s}))
  BY <1>2, <1>4
<1> QED
  BY <1>5 DEF Saved, first

-----------------------------------------------------------------------------
(* Steps of a command.                                                     *)

\* A typed list of writes is one of writes.
LEMMA TypedIsWrite == Seq(TypedWrite(Scopes)) \subseteq Seq(Write)
<1>1. TypedWrite(Scopes) \subseteq Write
  BY DEF TypedWrite, Write
<1> QED
  BY <1>1

\* The task of nobody.
LEMMA NoTaskFit == NoTask \in Task /\ \A p \in Places, at \in Stages :
                       at \notin {"saving", "unsaved"} => Fit(p, at, NoTask)
<1>1. << >> \in Seq(Scopes) /\ << >> \in Seq(Write) /\ << >> \in Seq(TypedWrite(Scopes))
  OBVIOUS
<1>2. \A p \in Places : << >> \in Seq({p})
  OBVIOUS
<1>3. NoTask \in Task
  BY <1>1 DEF NoTask, Task, Commands, Scopes
<1> QED
  BY <1>1, <1>2, <1>3 DEF NoTask, Fit

\* A command goes on with a task that fits.
LEMMA ContinueRun ==
    ASSUME RunInv, NEW p \in Places, NEW at \in Stages, NEW t \in Task, Fit(p, at, t),
           Continue(p, at, t)
    PROVE  RunInv'
<1>1. pc' \in [Places -> Stages] /\ task' \in [Places -> Task]
  BY DEF RunInv, Continue
<1>2. ASSUME NEW q \in Places
      PROVE  Fit(q, pc'[q], task'[q])
  <2>1. CASE q = p
    BY <2>1 DEF RunInv, Continue
  <2>2. CASE q # p
    BY <2>2 DEF RunInv, Continue
  <2> QED
    BY <2>1, <2>2
<1> QED
  BY <1>1, <1>2 DEF RunInv, Fit

\* It ends.
LEMMA EndRun ==
    ASSUME RunInv, ToldType, NEW p \in Places, NEW says \in Told, End(p, says)
    PROVE  RunInv' /\ ToldType'
<1>1. RunInv'
  BY NoTaskFit, ContinueRun DEF End, Stages
<1> QED
  BY <1>1 DEF End, ToldType

\* One starts.
LEMMA BeginRun ==
    ASSUME TypeInv, NEW p \in Places, NEW at \in Stages, NEW t \in Task, Fit(p, at, t),
           Begin(p, at, t)
    PROVE  TypeInv'
<1>1. RunInv'
  BY ContinueRun DEF Begin, TypeInv
<1>2. ToldType' /\ CfgType'
  BY DEF Begin, TypeInv, ToldType, CfgType, Silent, Told
<1> QED
  BY <1>1, <1>2 DEF TypeInv

\* A save begins, or is refused.
LEMMA SaveRun ==
    ASSUME RunInv, ToldType, NEW p \in Places, NEW signer \in Signer, NEW local \in BOOLEAN,
           task[p].local \/ task[p].here => local,
           Save(p, signer, local)
    PROVE  RunInv' /\ ToldType'
<1>1. CASE local /\ p \notin Repos
  BY <1>1, EndRun DEF Save, Silent, Told
<1>2. CASE ~(local /\ p \notin Repos)
  <2> DEFINE s == IF local THEN p ELSE Global
             t == [task[p] EXCEPT !.scope = s, !.signer = signer, !.todo = Saved(p, signer, s)]
  <2>1. s \in Scopes /\ (local => s = p /\ s # Global)
    BY <1>2, SignersAssumption DEF Scopes
  <2>2. Continue(p, "saving", t) /\ UNCHANGED told
    BY <1>2 DEF Save
  <2>3. /\ Saved(p, signer, s) \in Seq(TypedWrite(Scopes))
        /\ local => Saved(p, signer, s) \in Seq(TypedWrite({p}))
    BY <2>1, SavedType
  <2>4. Saved(p, signer, s) \in Seq(Write)
    BY <2>3, TypedIsWrite
  <2>5. task[p] \in Task /\ Fit(p, pc[p], task[p])
    BY DEF RunInv
  <2> HIDE DEF s
  <2>6. t \in Task
    BY <2>1, <2>4, <2>5 DEF Task
  <2>7. Fit(p, "saving", t)
    <3>1. /\ t.todo = Saved(p, signer, s) /\ t.signer = signer /\ t.scope = s
          /\ t.local = task[p].local /\ t.here = task[p].here /\ t.sources = task[p].sources
      BY <2>5 DEF Task
    <3> HIDE DEF t
    <3> QED
      BY <2>1, <2>3, <2>5, <3>1 DEF Fit
  <2> HIDE DEF t
  <2> QED
    BY <2>2, <2>6, <2>7, ContinueRun DEF Stages, ToldType
<1> QED
  BY <1>1, <1>2

\* The signers a user may give.
LEMMA SignersType ==
    /\ GivenSigners \subseteq Signer
    /\ SecretKeys \cup NewAccounts \cup RemoteSigners \subseteq Signer
<1>1. \A a \in Accounts, locked \in BOOLEAN, npub \in Accounts \cup {Nothing} :
          KeyOf(a, locked, npub) \in Signer /\ BunkerOf(a, npub) \in Signer
  BY DEF KeyOf, BunkerOf, Signer
<1> QED
  BY <1>1 DEF GivenSigners, SecretKeys, NewAccounts, RemoteSigners, Answered

LEMMA ScopeForType ==
    ASSUME NEW p \in Places
    PROVE  ScopeFor(p) \in Scopes
BY DEF ScopeFor, Scopes

LEMMA SourcesType ==
    ASSUME NEW p \in Places
    PROVE  Sources(p) \in Seq(Scopes)
<1>1. CASE p \in Repos
  <2>1. <<p, Global>> \in Seq(Scopes)
    BY <1>1 DEF Scopes
  <2> QED
    BY <1>1, <2>1 DEF Sources
<1>2. CASE p \notin Repos
  <2>1. <<Global>> \in Seq(Scopes)
    BY DEF Scopes
  <2> QED
    BY <1>2, <2>1 DEF Sources
<1> QED
  BY <1>1, <1>2

\* A command that works on the login starts.
LEMMA AccountLoginTypes ==
    ASSUME TypeInv, NEW p \in Places, NEW local \in BOOLEAN,
           NEW given \in {NoSigner} \cup GivenSigners, AccountLogin(p, local, given)
    PROVE  TypeInv'
<1> DEFINE sources == IF ~local THEN Sources(p) ELSE IF p \in Repos THEN <<p>> ELSE << >>
           t == [NoTask EXCEPT !.command = "login", !.local = local, !.given = given,
                               !.sources = sources]
<1>1. sources \in Seq(Scopes) /\ (local => sources \in Seq({p}))
  <2>1. p \in Repos => <<p>> \in Seq(Scopes)
    BY DEF Scopes
  <2>2. <<p>> \in Seq({p}) /\ << >> \in Seq(Scopes) /\ << >> \in Seq({p})
    OBVIOUS
  <2>3. CASE ~local
    BY <2>3, SourcesType
  <2>4. CASE local /\ p \in Repos
    BY <2>1, <2>2, <2>4
  <2>5. CASE local /\ p \notin Repos
    BY <2>2, <2>5
  <2> QED
    BY <2>3, <2>4, <2>5
<1>2. given \in Signer \cup {NoSigner}
  BY SignersType
<1>3. NoTask \in Task /\ Fit(p, "accounts", NoTask)
  BY NoTaskFit DEF Stages
<1>4. Begin(p, "accounts", t)
  BY DEF AccountLogin
<1> HIDE DEF sources
<1>5. t \in Task
  BY <1>1, <1>2, <1>3 DEF Task, Commands
<1>6. /\ t.todo = << >> /\ t.local = local /\ t.sources = sources /\ t.here = FALSE
  BY DEF NoTask
<1> HIDE DEF t
<1>7. Fit(p, "accounts", t)
  BY <1>1, <1>6 DEF Fit
<1> QED
  BY <1>4, <1>5, <1>7, BeginRun DEF Stages

LEMMA LogsOutTypes ==
    ASSUME TypeInv, NEW p \in Places, NEW scope \in Scopes,
           NEW todo \in Seq(TypedWrite(Scopes)), LogsOut(p, scope, todo)
    PROVE  TypeInv'
<1> DEFINE t == [NoTask EXCEPT !.command = "logout", !.used = ScopeFor(p),
                               !.scope = scope, !.todo = todo]
<1>1. NoTask \in Task
  BY NoTaskFit
<1>2. t \in Task
  BY <1>1, ScopeForType, TypedIsWrite DEF Task, Commands
<1>3. t.todo = todo /\ t.command = "logout" /\ t.local = FALSE /\ t.here = FALSE
  BY DEF NoTask
<1>4. Begin(p, "clearing", t)
  BY DEF LogsOut
<1> HIDE DEF t
<1>5. Fit(p, "clearing", t)
  BY <1>3 DEF Fit
<1> QED
  BY <1>2, <1>4, <1>5, BeginRun DEF Stages

LEMMA ClearedTypes ==
    ASSUME NEW s \in Scopes
    PROVE  Cleared(s) \in Seq(TypedWrite(Scopes))
<1>1. TypedWrite({s}) \subseteq TypedWrite(Scopes)
  BY DEF TypedWrite
<1> QED
  BY <1>1, ClearedType

LEMMA CommandTypes ==
    ASSUME TypeInv, NEW p \in Places, Command(p)
    PROVE  TypeInv'
<1>1. CASE Work(p)
  <2> DEFINE t == [NoTask EXCEPT !.command = "work"]
  <2>1. Begin(p, "menu", t)
    BY <1>1 DEF Work
  <2>2. NoTask \in Task /\ Fit(p, "menu", NoTask)
    BY NoTaskFit DEF Stages
  <2>3. t \in Task
    BY <2>2 DEF Task, Commands
  <2>4. t.todo = NoTask.todo /\ t.local = FALSE /\ t.here = FALSE
    BY DEF NoTask
  <2> HIDE DEF t
  <2>5. Fit(p, "menu", t)
    BY <2>2, <2>4 DEF Fit
  <2> QED
    BY <2>1, <2>3, <2>5, BeginRun DEF Stages
<1>2. CASE \E local \in BOOLEAN, given \in {NoSigner} \cup GivenSigners :
             AccountLogin(p, local, given)
  BY <1>2, AccountLoginTypes
<1>3. CASE AccountLogout(p)
  <2>1. CASE \E i \in DOMAIN Sources(p) : LogsOut(p, Sources(p)[i], Cleared(Sources(p)[i]))
    <3>1. PICK i \in DOMAIN Sources(p) : LogsOut(p, Sources(p)[i], Cleared(Sources(p)[i]))
      BY <2>1
    <3>2. Sources(p)[i] \in Scopes
      BY SourcesType
    <3> QED
      BY <3>1, <3>2, ClearedTypes, LogsOutTypes
  <2>2. CASE LogsOut(p, Global, << >>)
    <3>1. Global \in Scopes /\ << >> \in Seq(TypedWrite(Scopes))
      BY DEF Scopes
    <3> QED
      BY <2>2, <3>1, LogsOutTypes
  <2> QED
    BY <1>3, <2>1, <2>2 DEF AccountLogout
<1>4. CASE ExportNoKeys(p)
  <2>1. ToldType'
    BY <1>4 DEF ExportNoKeys, ToldType, Told, Silent
  <2>2. CfgType' /\ RunInv'
    BY <1>4 DEF ExportNoKeys, TypeInv, CfgType, RunInv, Fit
  <2> QED
    BY <2>1, <2>2 DEF TypeInv
<1> QED
  BY <1>1, <1>2, <1>3, <1>4 DEF Command

-----------------------------------------------------------------------------
(* Types over the steps of a command.                                      *)

\* The task of a command, and the next write of it.
LEMMA TaskType ==
    ASSUME TypeInv, NEW p \in Places
    PROVE  task[p] \in Task /\ Fit(p, pc[p], task[p])
BY DEF TypeInv, RunInv

LEMMA HeadType ==
    ASSUME TypeInv, NEW p \in Places, task[p].todo # << >>
    PROVE  /\ Head(task[p].todo) \in TypedWrite(Scopes)
           /\ Tail(task[p].todo) \in Seq(TypedWrite(Scopes))
           /\ pc[p] \in {"clearing", "saving"} /\ (task[p].local \/ task[p].here) =>
                 /\ Head(task[p].todo) \in TypedWrite({p})
                 /\ Tail(task[p].todo) \in Seq(TypedWrite({p}))
BY TaskType DEF Fit

LEMMA WriteNextTypes ==
    ASSUME TypeInv, NEW p \in Places, WriteNext(p)
    PROVE  TypeInv'
<1> DEFINE w == Head(task[p].todo)
           t == [task[p] EXCEPT !.todo = Tail(@)]
<1>1. /\ pc[p] \in {"clearing", "saving"} /\ task[p].todo # << >>
      /\ cfg' = [cfg EXCEPT ![w.scope][w.item] = w.value]
      /\ Continue(p, pc[p], t) /\ UNCHANGED told
  BY DEF WriteNext
<1>2. w \in TypedWrite(Scopes)
  BY <1>1, HeadType
<1> HIDE DEF w
<1>3. CfgType'
  <2>1. w.scope \in Scopes /\ w.item \in Items /\ w.value \in Values /\ w.value \in ValueOf(w.item)
    BY <1>2 DEF TypedWrite
  <2>2. cfg' \in [Scopes -> [Items -> Values]]
    BY <1>1, <2>1 DEF TypeInv, CfgType
  <2>3. ASSUME NEW s \in Scopes, NEW item \in Items
        PROVE  cfg'[s][item] \in ValueOf(item)
    <3>1. CASE s = w.scope /\ item = w.item
      BY <1>1, <2>1, <3>1 DEF TypeInv, CfgType
    <3>2. CASE ~(s = w.scope /\ item = w.item)
      BY <1>1, <2>1, <3>2 DEF TypeInv, CfgType
    <3> QED
      BY <3>1, <3>2
  <2> QED
    BY <2>2, <2>3 DEF CfgType, ValueOf
<1>4. t.todo = Tail(task[p].todo) /\ t = [task[p] EXCEPT !.todo = t.todo] /\ t \in Task
  <2>1. Tail(task[p].todo) \in Seq(Write)
    BY <1>1, HeadType, TypedIsWrite
  <2> QED
    BY <2>1, TaskType DEF Task
<1>5. /\ t.local = task[p].local /\ t.here = task[p].here /\ t.sources = task[p].sources
      /\ t.signer = task[p].signer /\ t.scope = task[p].scope /\ t.command = task[p].command
  BY TaskType DEF Task
<1> HIDE DEF t
<1>6. Fit(p, pc[p], t)
  BY <1>1, <1>4, <1>5, TaskType, HeadType DEF Fit
<1> QED
  BY <1>1, <1>3, <1>4, <1>6, ContinueRun DEF TypeInv, RunInv, ToldType

\* A command that goes on without a write or a word.
LEMMA GoOnTypes ==
    ASSUME TypeInv, NEW p \in Places, NEW at \in Stages, NEW t \in Task, Fit(p, at, t),
           Continue(p, at, t), UNCHANGED <<cfg, told>>
    PROVE  TypeInv'
BY ContinueRun DEF TypeInv, CfgType, ToldType

LEMMA EndTypes ==
    ASSUME TypeInv, NEW p \in Places, NEW says \in Told, End(p, says), UNCHANGED cfg
    PROVE  TypeInv'
BY EndRun DEF TypeInv, CfgType

LEMMA WriteFailsTypes ==
    ASSUME TypeInv, NEW p \in Places, WriteFails(p)
    PROVE  TypeInv'
<1> DEFINE t == [task[p] EXCEPT !.todo = << >>]
<1>1. << >> \in Seq(Write) /\ << >> \in Seq(TypedWrite(Scopes))
  OBVIOUS
<1>2. t \in Task /\ t.todo = << >>
  BY <1>1, TaskType DEF Task
<1>3. /\ t.local = task[p].local /\ t.here = task[p].here /\ t.sources = task[p].sources
      /\ t.signer = task[p].signer /\ t.scope = task[p].scope
  BY TaskType DEF Task
<1>4. Silent \in Told
  BY DEF Silent, Told
<1>5. CASE End(p, Silent) /\ UNCHANGED cfg
  BY <1>4, <1>5, EndTypes
<1>6. CASE pc[p] = "clearing" /\ Continue(p, "unclear", t) /\ UNCHANGED <<cfg, told>>
  <2> HIDE DEF t
  <2>1. Fit(p, "unclear", t)
    BY <1>1, <1>2, <1>3, <1>6, TaskType DEF Fit
  <2> QED
    BY <1>2, <1>6, <2>1, GoOnTypes DEF Stages
<1>7. CASE /\ pc[p] = "saving" /\ task[p].scope = Global
           /\ Continue(p, "unsaved", t) /\ UNCHANGED <<cfg, told>>
  <2> HIDE DEF t
  <2>1. Fit(p, "unsaved", t)
    BY <1>1, <1>2, <1>3, <1>7, TaskType, SignersAssumption DEF Fit
  <2> QED
    BY <1>2, <1>7, <2>1, GoOnTypes DEF Stages
<1> QED
  BY <1>5, <1>6, <1>7 DEF WriteFails, ClearFails, SaveFails

LEMMA WrittenTypes ==
    ASSUME TypeInv, NEW p \in Places, Written(p)
    PROVE  TypeInv'
<1>1. CASE pc[p] = "clearing" /\ task[p].command = "logout"
  <2>1. [what |-> "logout", used |-> task[p].used] \in Told
    BY TaskType DEF Task, Told
  <2> QED
    BY <1>1, <2>1, EndTypes DEF Written
<1>2. CASE pc[p] = "clearing" /\ task[p].command = "login"
  <2> DEFINE t == [task[p] EXCEPT !.sources = Tail(@)]
  <2>1. task[p].sources # << >> /\ task[p].sources \in Seq(Scopes)
    BY <1>2, TaskType DEF Fit, Task
  <2>2. Tail(task[p].sources) \in Seq(Scopes)
    BY <2>1
  <2>3. task[p].local => Tail(task[p].sources) \in Seq({p})
    BY <2>1, TaskType DEF Fit
  <2>4. t \in Task
    BY <2>2, TaskType DEF Task
  <2>5. /\ t.local = task[p].local /\ t.here = task[p].here /\ t.todo = task[p].todo
        /\ t.sources = Tail(task[p].sources)
    BY TaskType DEF Task
  <2>6. Continue(p, "accounts", t) /\ UNCHANGED <<cfg, told>>
    BY <1>2 DEF Written
  <2> HIDE DEF t
  <2>7. Fit(p, "accounts", t)
    BY <1>2, <2>3, <2>5, TaskType DEF Fit
  <2> QED
    BY <2>4, <2>6, <2>7, GoOnTypes DEF Stages
<1>3. CASE pc[p] = "saving"
  <2>1. [what |-> "saved", scope |-> task[p].scope, signer |-> task[p].signer] \in Told
    BY <1>3, TaskType DEF Task, Told, Fit
  <2> QED
    BY <1>3, <2>1, EndTypes DEF Written
<1> QED
  BY <1>1, <1>2, <1>3 DEF Written

\* The menu: here is set, or nothing is.
LEMMA HereFit ==
    ASSUME TypeInv, NEW p \in Places, NEW here \in BOOLEAN
    PROVE  /\ [task[p] EXCEPT !.here = here] \in Task
           /\ Fit(p, "menu", [task[p] EXCEPT !.here = here])
<1> DEFINE t == [task[p] EXCEPT !.here = here]
<1>1. t \in Task
  BY TaskType DEF Task
<1>2. /\ t.local = task[p].local /\ t.todo = task[p].todo /\ t.sources = task[p].sources
  BY TaskType DEF Task
<1> HIDE DEF t
<1>3. Fit(p, "menu", t)
  BY <1>2, TaskType DEF Fit
<1> QED
  BY <1>1, <1>3 DEF t

LEMMA AskAccountTypes ==
    ASSUME TypeInv, NEW p \in Places, AskAccount(p)
    PROVE  TypeInv'
<1>1. /\ pc[p] = "accounts" /\ task[p].sources # << >> /\ UNCHANGED cfg
      /\ task[p].sources \in Seq(Scopes)
  BY TaskType DEF AskAccount, Task
<1>2. CASE Continue(p, "accounts", [task[p] EXCEPT !.sources = Tail(@)]) /\ UNCHANGED told
  <2> DEFINE t == [task[p] EXCEPT !.sources = Tail(@)]
  <2>1. /\ Tail(task[p].sources) \in Seq(Scopes)
        /\ task[p].local => Tail(task[p].sources) \in Seq({p})
    BY <1>1, TaskType DEF Fit
  <2>2. /\ t \in Task /\ t.local = task[p].local /\ t.here = task[p].here
        /\ t.todo = task[p].todo /\ t.sources = Tail(task[p].sources)
    BY <2>1, TaskType DEF Task
  <2>3. Continue(p, "accounts", t)
    BY <1>2
  <2> HIDE DEF t
  <2>4. Fit(p, "accounts", t)
    BY <1>1, <2>1, <2>2, TaskType DEF Fit
  <2> QED
    BY <1>1, <1>2, <2>2, <2>3, <2>4, GoOnTypes DEF Stages
<1>3. CASE /\ Continue(p, "clearing", [task[p] EXCEPT !.scope = Head(task[p].sources),
                                                      !.todo = Cleared(Head(task[p].sources))])
           /\ UNCHANGED told
  <2> DEFINE s == Head(task[p].sources)
             t == [task[p] EXCEPT !.scope = s, !.todo = Cleared(s)]
  <2>1. s \in Scopes /\ (task[p].local => s = p)
    <3>1. s \in Scopes
      BY <1>1
    <3>2. ASSUME task[p].local
          PROVE  s = p
      <4>1. task[p].sources \in Seq({p})
        BY <3>2, TaskType DEF Fit
      <4>2. s \in {p}
        BY <1>1, <4>1
      <4> QED
        BY <4>2
    <3> QED
      BY <3>1, <3>2
  <2>2. Continue(p, "clearing", t)
    BY <1>3
  <2> HIDE DEF s
  <2>3. Cleared(s) \in Seq(TypedWrite(Scopes)) /\ Cleared(s) \in Seq(TypedWrite({s}))
    BY <2>1, ClearedType, ClearedTypes
  <2>4. Cleared(s) \in Seq(Write)
    BY <2>3, TypedIsWrite
  <2>5. /\ t \in Task /\ t.local = task[p].local /\ t.here = task[p].here
        /\ t.todo = Cleared(s) /\ t.sources = task[p].sources
    BY <2>1, <2>4, TaskType DEF Task
  <2> HIDE DEF t
  <2>6. Fit(p, "clearing", t)
    BY <1>1, <2>1, <2>3, <2>5, TaskType DEF Fit
  <2> QED
    BY <1>1, <1>3, <2>2, <2>5, <2>6, GoOnTypes DEF Stages
<1>4. CASE Continue(p, "menu", [task[p] EXCEPT !.here = TRUE]) /\ UNCHANGED told
  BY <1>1, <1>4, HereFit, GoOnTypes DEF Stages
<1>5. CASE End(p, Silent)
  BY <1>1, <1>5, EndTypes DEF Silent, Told
<1> QED
  BY <1>2, <1>3, <1>4, <1>5 DEF AskAccount

LEMMA NoneLeftTypes ==
    ASSUME TypeInv, NEW p \in Places, NoneLeft(p)
    PROVE  TypeInv'
<1>1. task[p].local \in BOOLEAN
  BY TaskType DEF Task
<1> QED
  BY <1>1, HereFit, GoOnTypes DEF NoneLeft, Stages

LEMMA AfterFailedLogoutTypes ==
    ASSUME TypeInv, NEW p \in Places, AfterFailedLogout(p)
    PROVE  TypeInv'
<1>1. CASE End(p, Silent) /\ UNCHANGED cfg
  BY <1>1, EndTypes DEF Silent, Told
<1>2. CASE \E here \in BOOLEAN : /\ Continue(p, "menu", [task[p] EXCEPT !.here = here])
                                 /\ UNCHANGED <<cfg, told>>
  BY <1>2, HereFit, GoOnTypes DEF Stages
<1> QED
  BY <1>1, <1>2 DEF AfterFailedLogout

LEMMA FreshLoginTypes ==
    ASSUME TypeInv, NEW p \in Places, FreshLogin(p)
    PROVE  TypeInv'
<1>1. UNCHANGED cfg
  BY DEF FreshLogin
<1>2. CASE End(p, Silent)
  BY <1>1, <1>2, EndTypes DEF Silent, Told
<1>3. CASE \E signer \in Signer : Save(p, signer, SaveLocal(task[p]))
  <2>1. SaveLocal(task[p]) \in BOOLEAN /\ (task[p].local \/ task[p].here => SaveLocal(task[p]))
    BY TaskType DEF Task, SaveLocal
  <2> QED
    BY <1>1, <1>3, <2>1, SaveRun DEF TypeInv, CfgType
<1>4. CASE task[p].given = NoSigner
  BY <1>3, <1>4, SignersType DEF FreshLogin
<1>5. CASE task[p].given # NoSigner
  <2>1. task[p].given \in Signer
    BY <1>5, TaskType DEF Task
  <2> QED
    BY <1>2, <1>3, <1>5, <2>1 DEF FreshLogin
<1> QED
  BY <1>4, <1>5

\* Items that the user sets are well typed.
LEMMA ByHandType ==
    ASSUME CfgType, NEW signer \in Signer
    PROVE  LET items == ByHand(signer, cfg[Global]) IN
           /\ items \in [Items -> Values]
           /\ \A item \in Items : items[item] \in ValueOf(item)
           /\ signer.kind = "key" => items["nsec"] \in Key
           /\ signer.kind # "key" => items["bunker-uri"] \in Accounts
                                     /\ items["bunker-app-key"] \in Accounts
<1> DEFINE old == cfg[Global]
<1>1. old \in [Items -> Values] /\ \A item \in Items : old[item] \in ValueOf(item)
  BY DEF CfgType, Scopes
<1> HIDE DEF old
<1>2. signer.of \in Accounts /\ [of |-> signer.of, locked |-> signer.locked] \in Key
  BY DEF Signer, Key
<1>3. ByHand(signer, old) =
        IF signer.kind = "key"
        THEN [old EXCEPT !["nsec"] = [of |-> signer.of, locked |-> signer.locked]]
        ELSE [old EXCEPT !["bunker-uri"] = signer.of, !["bunker-app-key"] = signer.of]
  BY DEF ByHand
<1> DEFINE key == [of |-> signer.of, locked |-> signer.locked]
<1>4. key \in Key
  BY <1>2
<1> HIDE DEF key
<1>5. CASE signer.kind = "key"
  <2>1. ByHand(signer, old) = [old EXCEPT !["nsec"] = key]
    BY <1>3, <1>5 DEF key
  <2> QED
    BY <1>1, <1>4, <1>5, <2>1 DEF old, Items, Values, ValueOf
<1>6. CASE signer.kind # "key"
  BY <1>1, <1>2, <1>3, <1>6 DEF old, Items, Values, ValueOf
<1> QED
  BY <1>5, <1>6

LEMMA AfterFailedSaveTypes ==
    ASSUME TypeInv, NEW p \in Places, AfterFailedSave(p)
    PROVE  TypeInv'
<1>1. task[p].signer \in Signer /\ ~task[p].local /\ ~task[p].here
  BY TaskType DEF AfterFailedSave, Fit, Task
<1>2. Silent \in Told
  BY DEF Silent, Told
<1>3. CASE UpdatesManually(p)
  <2>1. PICK items \in {cfg[Global], ByHand(task[p].signer, cfg[Global])} :
            /\ cfg' = [cfg EXCEPT ![Global] = items]
            /\ End(p, Silent) \/ UNCHANGED <<pc, task, told>>
    BY <1>3 DEF UpdatesManually
  <2>2. items \in [Items -> Values] /\ \A item \in Items : items[item] \in ValueOf(item)
    BY <1>1, ByHandType DEF TypeInv, CfgType, Scopes
  <2>3. CfgType'
    <3>1. cfg' \in [Scopes -> [Items -> Values]]
      BY <2>1, <2>2 DEF TypeInv, CfgType
    <3>2. \A s \in Scopes, item \in Items : cfg'[s][item] \in ValueOf(item)
      BY <2>1, <2>2 DEF TypeInv, CfgType
    <3> QED
      BY <3>1, <3>2 DEF CfgType, ValueOf
  <2>4. RunInv' /\ ToldType'
    BY <1>2, <2>1, EndRun DEF TypeInv, RunInv, ToldType, Fit
  <2> QED
    BY <2>3, <2>4 DEF TypeInv
<1>4. CASE Save(p, task[p].signer, TRUE) /\ UNCHANGED cfg
  BY <1>1, <1>4, SaveRun DEF TypeInv, CfgType
<1>5. CASE End(p, Silent) /\ UNCHANGED cfg
  BY <1>2, <1>5, EndTypes
<1> QED
  BY <1>3, <1>4, <1>5 DEF AfterFailedSave

LEMMA QuitTypes ==
    ASSUME TypeInv, NEW p \in Places, Quit(p)
    PROVE  TypeInv'
BY EndTypes DEF Quit, Silent, Told

LEMMA TypeInit == Init => TypeInv
<1> SUFFICES ASSUME Init
             PROVE  TypeInv
  OBVIOUS
<1>1. CfgType
  BY DEF Init, CfgType, Empty, Values, ValueOf
<1>2. RunInv
  BY NoTaskFit DEF Init, RunInv, Stages
<1>3. ToldType
  BY DEF Init, ToldType, Told, Silent
<1> QED
  BY <1>1, <1>2, <1>3 DEF TypeInv

LEMMA TypeStep == TypeInv /\ [Next]_vars => TypeInv'
<1> SUFFICES ASSUME TypeInv, [Next]_vars
             PROVE  TypeInv'
  OBVIOUS
<1>1. ASSUME NEW p \in Places, Step(p)
      PROVE  TypeInv'
  BY <1>1, WriteNextTypes, WriteFailsTypes, WrittenTypes, AskAccountTypes, NoneLeftTypes,
     AfterFailedLogoutTypes, FreshLoginTypes, AfterFailedSaveTypes, QuitTypes DEF Step
<1>2. CASE UNCHANGED vars
  BY <1>2 DEF vars, TypeInv, CfgType, RunInv, ToldType, Fit
<1> QED
  BY <1>1, <1>2, CommandTypes DEF Next

\* Git config and the commands are well typed, however the commands of any
\* number of places overlap, fail and are cut short.
THEOREM TypeCorrect == Spec => []TypeOK
<1>1. Spec => []TypeInv
  BY TypeInit, TypeStep, PTL DEF Spec
<1>2. Spec => [](env \in Envs)
  <2>1. Init => env \in Envs
    BY DEF Init
  <2>2. env \in Envs /\ [Next]_vars => (env \in Envs)'
    BY DEF Next, vars
  <2> QED
    BY <2>1, <2>2, PTL DEF Spec
<1>3. TypeInv /\ env \in Envs => TypeOK
  BY TypeInvImplies
<1> QED
  BY <1>1, <1>2, <1>3, PTL

-----------------------------------------------------------------------------
(* A login for one repository leaves the global login alone.               *)

\* A step is one of one place.
LEMMA OthersStay ==
    ASSUME TypeInv, NEW p \in Places, NEW q \in Places, Command(q) \/ Step(q),
           <<pc[p], task[p]>>' # <<pc[p], task[p]>>
    PROVE  p = q
<1>1. UNCHANGED <<pc, task>> \/ \E at, t : Continue(q, at, t)
  <2>1. ASSUME NEW says, End(q, says)
        PROVE  \E at, t : Continue(q, at, t)
    BY <2>1 DEF End
  <2>2. ASSUME NEW signer, NEW local, Save(q, signer, local)
        PROVE  \E at, t : Continue(q, at, t)
    BY <2>1, <2>2 DEF Save
  <2>3. ASSUME Command(q)
        PROVE  UNCHANGED <<pc, task>> \/ \E at, t : Continue(q, at, t)
    BY <2>3 DEF Command, Work, AccountLogin, AccountLogout, LogsOut, ExportNoKeys, Begin
  <2>4. ASSUME WriteNext(q) \/ WriteFails(q) \/ Written(q)
        PROVE  \E at, t : Continue(q, at, t)
    BY <2>1, <2>4 DEF WriteNext, WriteFails, ClearFails, SaveFails, Written
  <2>5. ASSUME AskAccount(q) \/ NoneLeft(q) \/ AfterFailedLogout(q) \/ FreshLogin(q) \/ Quit(q)
        PROVE  \E at, t : Continue(q, at, t)
    BY <2>1, <2>2, <2>5 DEF AskAccount, NoneLeft, AfterFailedLogout, FreshLogin, Quit
  <2>6. ASSUME AfterFailedSave(q)
        PROVE  UNCHANGED <<pc, task>> \/ \E at, t : Continue(q, at, t)
    BY <2>1, <2>2, <2>6 DEF AfterFailedSave, UpdatesManually
  <2> QED
    BY <2>3, <2>4, <2>5, <2>6 DEF Step
<1> QED
  BY <1>1 DEF Continue, TypeInv, RunInv

\* Only a write, or the user, changes git config.
LEMMA OnlyWrites ==
    ASSUME NEW q \in Places, Command(q) \/ Step(q), cfg' # cfg
    PROVE  WriteNext(q) \/ (pc[q] = "unsaved" /\ UpdatesManually(q))
BY DEF Command, Work, AccountLogin, AccountLogout, LogsOut, ExportNoKeys, Begin,
       Step, WriteFails, ClearFails, SaveFails, Written, AskAccount, NoneLeft,
       AfterFailedLogout, FreshLogin, AfterFailedSave, Quit

LEMMA LocalStep ==
    ASSUME TypeInv, [Next]_vars, NEW p \in Places, task[p].local \/ task[p].here,
           <<pc[p], task[p]>>' # <<pc[p], task[p]>>
    PROVE  cfg'[Global] = cfg[Global]
<1>1. PICK q \in Places : Command(q) \/ Step(q)
  BY DEF Next, vars
<1>2. q = p
  BY <1>1, OthersStay
<1>3. pc[p] # "unsaved"
  BY TaskType DEF Fit
<1>4. CASE cfg' # cfg
  <2>1. WriteNext(p)
    BY <1>1, <1>2, <1>3, <1>4, OnlyWrites
  <2> DEFINE w == Head(task[p].todo)
  <2>2. w.scope \in {p}
    <3>1. w \in TypedWrite({p})
      BY <2>1, HeadType DEF WriteNext
    <3> QED
      BY <3>1 DEF TypedWrite
  <2>3. cfg' = [cfg EXCEPT ![w.scope][w.item] = w.value]
    BY <2>1 DEF WriteNext
  <2> HIDE DEF w
  <2> QED
    BY <2>2, <2>3, SignersAssumption DEF TypeInv, CfgType, Scopes
<1> QED
  BY <1>4

\* With any number of repositories, accounts and commands at the same time,
\* `--local` or the choice of a local login never writes the account's login.
THEOREM LocalIsLocal == Spec => LocalLeavesGlobal
<1>1. Spec => []TypeInv
  BY TypeInit, TypeStep, PTL DEF Spec
<1>2. TypeInv /\ [Next]_vars =>
        [\A p \in Places :
            /\ task[p].local \/ task[p].here
            /\ <<pc[p], task[p]>>' # <<pc[p], task[p]>>
            => cfg'[Global] = cfg[Global]]_vars
  BY LocalStep
<1> QED
  BY <1>1, <1>2, PTL DEF Spec, LocalLeavesGlobal

-----------------------------------------------------------------------------
(* A login is only lost to a logout.                                       *)

\* Commands run one after the other.
OneAtATime == \A p, q \in Places : pc[p] # "idle" /\ pc[q] # "idle" => p = q

\* An item is there once the first i - 1 writes of t are made.
Has(c, t, i, item) ==
    \/ c[t.scope][item] # Nothing
    \/ \E j \in 1..(i - 1) : t.todo[j].scope = t.scope /\ t.todo[j].item = item

\* A save removes the old login only once the new one is there: its i-th write.
SafeAt(c, t, i) ==
    LET w == t.todo[i] IN
    /\ w.scope # t.scope => t.scope = Global
    /\ w.scope = t.scope /\ t.signer.kind = "key" =>
        /\ w.item = "nsec" => w.value # Nothing
        /\ w.item \in {"bunker-uri", "bunker-app-key"} => Has(c, t, i, "nsec")
    /\ w.scope = t.scope /\ t.signer.kind # "key" =>
        /\ w.item \in {"bunker-uri", "bunker-app-key"} => w.value # Nothing
        /\ w.item = "nsec" => Has(c, t, i, "bunker-uri") /\ Has(c, t, i, "bunker-app-key")

Safe(c, t) == \A i \in 1..Len(t.todo) : SafeAt(c, t, i)

KeepInv ==
    /\ OneAtATime
    /\ \A p \in Places : pc[p] = "saving" => Safe(cfg, task[p])

LoggedIn(c) ==
    c["nsec"] # Nothing \/ (c["bunker-uri"] # Nothing /\ c["bunker-app-key"] # Nothing)

LEMMA SignerThere == \A c : SignerIn(c) = NoSigner <=> ~LoggedIn(c)
<1> SUFFICES ASSUME NEW c
             PROVE  SignerIn(c) = NoSigner <=> ~LoggedIn(c)
  OBVIOUS
<1>1. \A a, locked, npub : KeyOf(a, locked, npub).kind = "key" /\ BunkerOf(a, npub).kind = "bunker"
  BY DEF KeyOf, BunkerOf
<1>2. NoSigner.kind = "none"
  BY DEF NoSigner
<1>3. CASE c["nsec"] # Nothing
  BY <1>1, <1>2, <1>3 DEF SignerIn, LoggedIn
<1>4. CASE c["nsec"] = Nothing
  BY <1>1, <1>2, <1>4 DEF SignerIn, LoggedIn
<1> QED
  BY <1>3, <1>4

LEMMA WiderSeq ==
    ASSUME NEW S, NEW T, S \subseteq T
    PROVE  Seq(S) \subseteq Seq(T)
OBVIOUS

\* The elements of two sequences put together.
LEMMA Concatenated ==
    ASSUME NEW S, NEW a \in Seq(S), NEW b \in Seq(S)
    PROVE  /\ Len(a \o b) = Len(a) + Len(b)
           /\ \A i \in 1..Len(a) : (a \o b)[i] = a[i]
           /\ \A i \in 1..Len(b) : (a \o b)[Len(a) + i] = b[i]
OBVIOUS

\* The writes of a signer are safe, after others (first) for another scope.
LEMMA ItemsSafe ==
    ASSUME NEW c, NEW t, NEW s \in Scopes, NEW signer \in Signer,
           NEW first \in Seq(TypedWrite(Scopes)),
           t.scope = s, t.signer = signer, t.todo = first \o SignerItems(signer, s),
           \A i \in 1..Len(first) : first[i].scope # s /\ s = Global
    PROVE  Safe(c, t)
<1> DEFINE items == SignerItems(signer, s)
           n == Len(first)
           key == [of |-> signer.of, locked |-> signer.locked]
<1>1. key \in Key /\ signer.of \in Accounts
  BY DEF Signer, Key
<1>2. key # Nothing /\ signer.of # Nothing
  BY <1>1, SignersAssumption DEF Key
<1> HIDE DEF key
<1>3. /\ \A i \in 1..4 : items[i].scope = s
      /\ Len(items) = 4 /\ items \in Seq(TypedWrite({s}))
      /\ items[4].item = "npub"
      /\ signer.kind = "key" =>
            /\ items[1].item = "nsec" /\ items[1].value # Nothing
            /\ items[2].item = "bunker-uri" /\ items[3].item = "bunker-app-key"
      /\ signer.kind # "key" =>
            /\ items[1].item = "bunker-uri" /\ items[1].value # Nothing
            /\ items[2].item = "bunker-app-key" /\ items[2].value # Nothing
            /\ items[3].item = "nsec"
  <2>1. items \in Seq(TypedWrite({s}))
    BY SignerItemsType
  <2> DEFINE w(item, value) == Set(s, item, value)
  <2>2. \A item, value : /\ w(item, value).scope = s /\ w(item, value).item = item
                         /\ w(item, value).value = value
    BY DEF Set
  <2>3. items = IF signer.kind = "key"
                THEN <<w("nsec", key), w("bunker-uri", Nothing), w("bunker-app-key", Nothing)>>
                     \o <<w("npub", signer.npub)>>
                ELSE <<w("bunker-uri", signer.of), w("bunker-app-key", signer.of),
                       w("nsec", Nothing)>> \o <<w("npub", signer.npub)>>
    BY DEF SignerItems, Remove, key
  <2> HIDE DEF items, w
  <2>4. CASE signer.kind = "key"
    <3>1. items = <<w("nsec", key), w("bunker-uri", Nothing), w("bunker-app-key", Nothing)>>
                  \o <<w("npub", signer.npub)>>
      BY <2>3, <2>4
    <3>2. /\ Len(items) = 4 /\ items[1] = w("nsec", key) /\ items[2] = w("bunker-uri", Nothing)
          /\ items[3] = w("bunker-app-key", Nothing) /\ items[4] = w("npub", signer.npub)
      BY <3>1
    <3> QED
      BY <1>2, <2>1, <2>2, <2>4, <3>2
  <2>5. CASE signer.kind # "key"
    <3>1. items = <<w("bunker-uri", signer.of), w("bunker-app-key", signer.of),
                    w("nsec", Nothing)>> \o <<w("npub", signer.npub)>>
      BY <2>3, <2>5
    <3>2. /\ Len(items) = 4 /\ items[1] = w("bunker-uri", signer.of)
          /\ items[2] = w("bunker-app-key", signer.of)
          /\ items[3] = w("nsec", Nothing) /\ items[4] = w("npub", signer.npub)
      BY <3>1
    <3> QED
      BY <1>2, <2>1, <2>2, <2>5, <3>2
  <2> QED
    BY <2>4, <2>5
<1> HIDE DEF items
<1>4. /\ n \in Nat /\ Len(t.todo) = n + 4
      /\ \A i \in 1..n : t.todo[i] = first[i]
      /\ \A i \in 1..4 : t.todo[n + i] = items[i]
  <2>1. TypedWrite({s}) \subseteq TypedWrite(Scopes)
    BY DEF TypedWrite
  <2>2. items \in Seq(TypedWrite(Scopes))
    <3>1. items \in Seq(TypedWrite({s}))
      BY SignerItemsType DEF items
    <3> HIDE DEF items
    <3> QED
      BY <2>1, <3>1, WiderSeq
  <2>3. t.todo = first \o items
    BY DEF items
  <2>4. /\ Len(first \o items) = Len(first) + Len(items)
        /\ \A i \in 1..Len(first) : (first \o items)[i] = first[i]
        /\ \A i \in 1..Len(items) : (first \o items)[Len(first) + i] = items[i]
    BY <2>2, Concatenated
  <2> QED
    BY <1>3, <2>3, <2>4
<1> HIDE DEF n
<1>5. ASSUME NEW i \in 1..Len(t.todo), i > n
      PROVE  i = n + 1 \/ i = n + 2 \/ i = n + 3 \/ i = n + 4
  BY <1>4, <1>5
<1>6. /\ t.todo[n + 1] = items[1] /\ t.todo[n + 2] = items[2]
      /\ t.todo[n + 3] = items[3] /\ t.todo[n + 4] = items[4]
  BY <1>4
<1>7. ASSUME NEW i \in 1..Len(t.todo), i <= n
      PROVE  t.todo[i].scope # s /\ s = Global
  BY <1>4, <1>7 DEF n
<1>8. /\ n + 1 \in 1..((n + 2) - 1) /\ n + 1 \in 1..((n + 3) - 1) /\ n + 2 \in 1..((n + 3) - 1)
  BY <1>4
<1>9. ASSUME signer.kind = "key"
      PROVE  Has(c, t, n + 2, "nsec") /\ Has(c, t, n + 3, "nsec")
  <2>1. t.todo[n + 1].scope = t.scope /\ t.todo[n + 1].item = "nsec"
    BY <1>3, <1>6, <1>9
  <2> QED
    BY <1>8, <2>1 DEF Has
<1>10. ASSUME signer.kind # "key"
       PROVE  Has(c, t, n + 3, "bunker-uri") /\ Has(c, t, n + 3, "bunker-app-key")
  <2>1. /\ t.todo[n + 1].scope = t.scope /\ t.todo[n + 1].item = "bunker-uri"
        /\ t.todo[n + 2].scope = t.scope /\ t.todo[n + 2].item = "bunker-app-key"
    BY <1>3, <1>6, <1>10
  <2> QED
    BY <1>8, <2>1 DEF Has
<1>11. ASSUME NEW i \in 1..Len(t.todo), i <= n
       PROVE  SafeAt(c, t, i)
  BY <1>7, <1>11 DEF SafeAt
<1>12. SafeAt(c, t, n + 1)
  BY <1>3, <1>6 DEF SafeAt
<1>13. SafeAt(c, t, n + 2)
  BY <1>3, <1>6, <1>9 DEF SafeAt
<1>14. SafeAt(c, t, n + 3)
  BY <1>3, <1>6, <1>9, <1>10 DEF SafeAt
<1>15. SafeAt(c, t, n + 4)
  BY <1>3, <1>6 DEF SafeAt
<1>16. ASSUME NEW i \in 1..Len(t.todo)
       PROVE  i <= n \/ i > n
  BY <1>4
<1> QED
  BY <1>5, <1>11, <1>12, <1>13, <1>14, <1>15, <1>16 DEF Safe

\* A save that begins is safe.
LEMMA SavedSafe ==
    ASSUME NEW c, NEW t, NEW p \in Places, NEW s \in Scopes, NEW signer \in Signer,
           s \in {p, Global}, t.scope = s, t.signer = signer, t.todo = Saved(p, signer, s)
    PROVE  Safe(c, t)
<1>1. CASE s = Global /\ p \in Repos
  <2> DEFINE first == <<Remove(p, "npub"), Remove(p, "nsec"), Remove(p, "bunker-uri"),
                        Remove(p, "bunker-app-key")>>
  <2>1. p \in Scopes /\ p # Global
    BY <1>1, SignersAssumption DEF Scopes
  <2>2. \A item \in Items : Remove(p, item) \in TypedWrite({p})
    BY <2>1 DEF Remove, Set, TypedWrite, ValueOf, Values
  <2>3. TypedWrite({p}) \subseteq TypedWrite(Scopes)
    BY <2>1 DEF TypedWrite
  <2>4. {"nsec", "npub", "bunker-uri", "bunker-app-key"} \subseteq Items
    BY DEF Items
  <2>5. /\ Remove(p, "npub") \in TypedWrite({p}) /\ Remove(p, "nsec") \in TypedWrite({p})
        /\ Remove(p, "bunker-uri") \in TypedWrite({p})
        /\ Remove(p, "bunker-app-key") \in TypedWrite({p})
    BY <2>2, <2>4
  <2>6. first \in Seq(TypedWrite({p})) /\ first \in Seq(TypedWrite(Scopes))
    BY <2>3, <2>5
  <2>7. t.todo = first \o SignerItems(signer, s)
    BY <1>1 DEF Saved
  <2> HIDE DEF first
  <2>8. \A i \in 1..Len(first) : first[i].scope # s /\ s = Global
    <3>1. \A i \in 1..Len(first) : first[i] \in TypedWrite({p})
      BY <2>6
    <3> QED
      BY <1>1, <2>1, <3>1 DEF TypedWrite
  <2> QED
    BY <1>1, <2>6, <2>7, <2>8, ItemsSafe
<1>2. CASE ~(s = Global /\ p \in Repos)
  <2> DEFINE first == << >>
  <2>1. first \in Seq(TypedWrite(Scopes)) /\ \A i \in 1..Len(first) : FALSE
    OBVIOUS
  <2>2. t.todo = first \o SignerItems(signer, s)
    BY <1>2 DEF Saved
  <2> HIDE DEF first
  <2> QED
    BY <2>1, <2>2, ItemsSafe
<1> QED
  BY <1>1, <1>2

\* A write of a save: the rest stays safe, and no login is lost but one of a
\* repository to a global login.
LEMMA WriteSafe ==
    ASSUME TypeInv, NEW p \in Places, pc[p] = "saving", Safe(cfg, task[p]), WriteNext(p)
    PROVE  /\ Safe(cfg', task'[p])
           /\ \A s \in Scopes : LoggedIn(cfg[s]) /\ ~LoggedIn(cfg'[s]) =>
                 s # Global /\ task[p].scope = Global
<1> DEFINE t == task[p]
           u == task'[p]
           w == Head(t.todo)
           s == t.scope
<1>1. /\ t.todo # << >> /\ t.todo \in Seq(TypedWrite(Scopes))
      /\ cfg' = [cfg EXCEPT ![w.scope][w.item] = w.value]
      /\ u = [t EXCEPT !.todo = Tail(@)]
  BY TaskType DEF WriteNext, Continue, TypeInv, RunInv, Fit
<1>2. t \in Task
  BY TaskType
<1>3. /\ u.scope = s /\ u.signer = t.signer /\ u.todo = Tail(t.todo) /\ s \in Scopes
  BY <1>1, <1>2 DEF Task
<1>4. /\ w = t.todo[1] /\ 1 \in 1..Len(t.todo) /\ Len(t.todo) \in Nat
      /\ Len(u.todo) = Len(t.todo) - 1
      /\ \A i \in 1..Len(u.todo) : u.todo[i] = t.todo[i + 1] /\ i + 1 \in 1..Len(t.todo)
  BY <1>1, <1>3
<1>5. w.scope \in Scopes /\ w.item \in Items
  <2>1. w \in TypedWrite(Scopes)
    BY <1>1
  <2> QED
    BY <2>1 DEF TypedWrite
<1>6. \A r \in Scopes, item \in Items :
          cfg'[r][item] = IF r = w.scope /\ item = w.item THEN w.value ELSE cfg[r][item]
  BY <1>1, <1>5 DEF TypeInv, CfgType
<1>7. {"nsec", "bunker-uri", "bunker-app-key"} \subseteq Items
  BY DEF Items
<1>8. SafeAt(cfg, t, 1) /\ \A i \in 1..Len(u.todo) : SafeAt(cfg, t, i + 1)
  BY <1>4 DEF Safe
<1> HIDE DEF t, u, w
<1>9. ASSUME NEW item \in Items, NEW i \in 1..Len(u.todo), Has(cfg, t, i + 1, item),
             w.scope = s /\ w.item = item => w.value # Nothing
      PROVE  Has(cfg', u, i, item)
  <2>1. CASE cfg[s][item] # Nothing
    <3>1. cfg'[s][item] # Nothing
      BY <1>3, <1>6, <1>9, <2>1
    <3> QED
      BY <1>3, <3>1 DEF Has
  <2>2. CASE cfg[s][item] = Nothing
    <3>1. PICK j \in 1..i : t.todo[j].scope = s /\ t.todo[j].item = item
      BY <1>9, <2>2 DEF Has
    <3>2. CASE j = 1
      <4>1. cfg'[s][item] # Nothing
        BY <1>3, <1>4, <1>6, <1>9, <3>1, <3>2
      <4> QED
        BY <1>3, <4>1 DEF Has
    <3>3. CASE j # 1
      <4>1. j - 1 \in 1..(i - 1) /\ j - 1 \in 1..Len(u.todo) /\ (j - 1) + 1 = j
        BY <1>4, <3>3
      <4>2. u.todo[j - 1] = t.todo[j]
        BY <1>4, <4>1
      <4> QED
        BY <1>3, <3>1, <4>1, <4>2 DEF Has
    <3> QED
      BY <3>2, <3>3
  <2> QED
    BY <2>1, <2>2
<1>10. ASSUME NEW i \in 1..Len(u.todo)
       PROVE  SafeAt(cfg', u, i)
  <2>1. SafeAt(cfg, t, i + 1) /\ u.todo[i] = t.todo[i + 1]
    BY <1>4, <1>8
  <2>2. CASE t.signer.kind = "key"
    <3>1. w.scope = s /\ w.item = "nsec" => w.value # Nothing
      BY <1>4, <1>8, <2>2 DEF SafeAt
    <3>2. Has(cfg, t, i + 1, "nsec") => Has(cfg', u, i, "nsec")
      BY <1>7, <1>9, <3>1
    <3> QED
      BY <1>3, <2>1, <2>2, <3>2 DEF SafeAt
  <2>3. CASE t.signer.kind # "key"
    <3>1. w.scope = s /\ w.item \in {"bunker-uri", "bunker-app-key"} => w.value # Nothing
      BY <1>4, <1>8, <2>3 DEF SafeAt
    <3>2. \A item \in {"bunker-uri", "bunker-app-key"} :
              Has(cfg, t, i + 1, item) => Has(cfg', u, i, item)
      BY <1>7, <1>9, <3>1
    <3> QED
      BY <1>3, <2>1, <2>3, <3>2 DEF SafeAt
  <2> QED
    BY <2>2, <2>3
<1>11. ASSUME NEW r \in Scopes, LoggedIn(cfg[r]), ~LoggedIn(cfg'[r])
       PROVE  r # Global /\ s = Global
  <2>1. r = w.scope
    BY <1>6, <1>7, <1>11 DEF LoggedIn
  <2>2. CASE r # s
    BY <1>4, <1>8, <2>1, <2>2 DEF SafeAt
  <2>3. CASE r = s
    <3>1. \A item : Has(cfg, t, 1, item) => cfg[s][item] # Nothing
      BY DEF Has
    <3>2. CASE t.signer.kind = "key"
      <4>1. /\ w.item = "nsec" => w.value # Nothing
            /\ w.item \in {"bunker-uri", "bunker-app-key"} => cfg[s]["nsec"] # Nothing
        BY <1>4, <1>8, <2>1, <2>3, <3>1, <3>2 DEF SafeAt
      <4> QED
        BY <1>6, <1>7, <1>11, <2>1, <2>3, <4>1 DEF LoggedIn
    <3>3. CASE t.signer.kind # "key"
      <4>1. /\ w.item \in {"bunker-uri", "bunker-app-key"} => w.value # Nothing
            /\ w.item = "nsec" =>
                  cfg[s]["bunker-uri"] # Nothing /\ cfg[s]["bunker-app-key"] # Nothing
        BY <1>4, <1>8, <2>1, <2>3, <3>1, <3>3 DEF SafeAt
      <4> QED
        BY <1>6, <1>7, <1>11, <2>1, <2>3, <4>1 DEF LoggedIn
    <3> QED
      BY <3>2, <3>3
  <2> QED
    BY <2>2, <2>3
<1> QED
  BY <1>10, <1>11 DEF Safe, t, u

\* A save that begins, or is refused.
LEMMA SaveSafe ==
    ASSUME TypeInv, NEW p \in Places, NEW signer \in Signer, NEW local \in BOOLEAN,
           Save(p, signer, local), pc'[p] = "saving"
    PROVE  Safe(cfg', task'[p])
<1>1. ~(local /\ p \notin Repos)
  BY DEF Save, End, Continue, TypeInv, RunInv
<1> DEFINE s == IF local THEN p ELSE Global
<1>2. Continue(p, "saving", [task[p] EXCEPT !.scope = s, !.signer = signer,
                                            !.todo = Saved(p, signer, s)])
  BY <1>1 DEF Save
<1>3. s \in Scopes /\ s \in {p, Global}
  BY <1>1 DEF Scopes
<1> HIDE DEF s
<1>4. task'[p] = [task[p] EXCEPT !.scope = s, !.signer = signer, !.todo = Saved(p, signer, s)]
  BY <1>2 DEF Continue, TypeInv, RunInv
<1>5. task'[p].scope = s /\ task'[p].signer = signer /\ task'[p].todo = Saved(p, signer, s)
  BY <1>4, TaskType DEF Task
<1> QED
  BY <1>3, <1>5, SavedSafe

\* A step of p that has p save.
LEMMA StepSafe ==
    ASSUME TypeInv, NEW p \in Places, Step(p), pc'[p] = "saving",
           pc[p] = "saving" => Safe(cfg, task[p])
    PROVE  Safe(cfg', task'[p])
<1>1. ASSUME NEW says, End(p, says)
      PROVE  FALSE
  BY <1>1 DEF End, Continue, TypeInv, RunInv
<1>2. ASSUME NEW at, NEW t, Continue(p, at, t)
      PROVE  at = "saving"
  BY <1>2 DEF Continue, TypeInv, RunInv
<1>3. CASE WriteNext(p)
  <2>1. pc[p] = "saving"
    BY <1>2, <1>3 DEF WriteNext
  <2> QED
    BY <1>3, <2>1, WriteSafe
<1>4. ~WriteFails(p)
  BY <1>1, <1>2 DEF WriteFails, ClearFails, SaveFails
<1>5. ~(Written(p) \/ AskAccount(p) \/ NoneLeft(p) \/ AfterFailedLogout(p) \/ Quit(p))
  BY <1>1, <1>2 DEF Written, AskAccount, NoneLeft, AfterFailedLogout, Quit
<1>6. CASE FreshLogin(p)
  <2>1. SaveLocal(task[p]) \in BOOLEAN
    BY TaskType DEF SaveLocal, Task
  <2>2. \E signer \in Signer : Save(p, signer, SaveLocal(task[p]))
    <3>1. CASE task[p].given = NoSigner
      BY <1>6, <3>1, SignersType DEF FreshLogin
    <3>2. CASE task[p].given # NoSigner
      BY <1>1, <1>6, <3>2, TaskType DEF FreshLogin, Task
    <3> QED
      BY <3>1, <3>2
  <2> QED
    BY <2>1, <2>2, SaveSafe
<1>7. CASE AfterFailedSave(p)
  <2>1. task[p].signer \in Signer /\ pc[p] = "unsaved"
    BY <1>7, TaskType DEF AfterFailedSave, Fit
  <2>2. ~UpdatesManually(p)
    BY <1>1, <2>1 DEF UpdatesManually
  <2>3. Save(p, task[p].signer, TRUE)
    BY <1>1, <1>7, <2>2 DEF AfterFailedSave
  <2> QED
    BY <2>1, <2>3, SaveSafe
<1> QED
  BY <1>3, <1>4, <1>5, <1>6, <1>7 DEF Step

LEMMA StepRuns ==
    ASSUME NEW p \in Places, Step(p)
    PROVE  pc[p] # "idle"
BY DEF Step, WriteNext, WriteFails, ClearFails, SaveFails, Written, AskAccount, NoneLeft,
       AfterFailedLogout, FreshLogin, AfterFailedSave, Quit

LEMMA CommandRuns ==
    ASSUME "overlap" \notin env, NEW p \in Places, Command(p)
    PROVE  /\ \A q \in Places : pc[q] = "idle"
           /\ UNCHANGED cfg
           /\ pc'[p] = "saving" => pc[p] = "saving"
<1>1. CASE ExportNoKeys(p)
  BY <1>1 DEF ExportNoKeys
<1>2. ASSUME NEW at, NEW t, Begin(p, at, t)
      PROVE  /\ \A q \in Places : pc[q] = "idle"
             /\ UNCHANGED cfg
             /\ at # "saving" => pc'[p] # "saving" \/ pc[p] = "saving"
  BY <1>2 DEF Begin, Continue
<1>3. ASSUME NEW scope, NEW todo, LogsOut(p, scope, todo)
      PROVE  /\ \A q \in Places : pc[q] = "idle"
             /\ UNCHANGED cfg
             /\ pc'[p] # "saving" \/ pc[p] = "saving"
  BY <1>2, <1>3 DEF LogsOut
<1>4. CASE Work(p)
  BY <1>2, <1>4 DEF Work
<1>5. CASE \E local \in BOOLEAN, given \in {NoSigner} \cup GivenSigners :
             AccountLogin(p, local, given)
  BY <1>2, <1>5 DEF AccountLogin
<1>6. CASE AccountLogout(p)
  BY <1>3, <1>6 DEF AccountLogout
<1> QED
  BY <1>1, <1>4, <1>5, <1>6 DEF Command

LEMMA KeepStep ==
    TypeInv /\ (KeepInv \/ "overlap" \in env) /\ [Next]_vars => (KeepInv \/ "overlap" \in env)'
<1> SUFFICES ASSUME TypeInv, KeepInv, "overlap" \notin env, [Next]_vars
             PROVE  KeepInv'
  BY DEF Next, vars
<1>1. CASE UNCHANGED vars
  BY <1>1 DEF vars, KeepInv, OneAtATime, Safe, SafeAt, Has
<1>2. ASSUME NEW p \in Places, Command(p) \/ Step(p)
      PROVE  KeepInv'
  <2>1. \A q \in Places : pc[q] # "idle" => q = p
    BY <1>2, CommandRuns, StepRuns DEF KeepInv, OneAtATime
  <2>2. ASSUME NEW q \in Places, q # p
        PROVE  pc'[q] = "idle"
    <3>1. pc'[q] = pc[q]
      BY <1>2, <2>2, OthersStay
    <3> QED
      BY <2>1, <2>2, <3>1
  <2>3. ASSUME NEW q \in Places, pc'[q] = "saving"
        PROVE  Safe(cfg', task'[q])
    <3>1. q = p
      BY <2>2, <2>3
    <3>2. CASE Command(p)
      BY <2>3, <3>1, <3>2, CommandRuns
    <3>3. CASE Step(p)
      BY <2>3, <3>1, <3>3, StepSafe DEF KeepInv
    <3> QED
      BY <1>2, <3>1, <3>2, <3>3
  <2> QED
    BY <2>2, <2>3 DEF KeepInv, OneAtATime, Safe, SafeAt, Has
<1> QED
  BY <1>1, <1>2 DEF Next

\* The items a user sets by hand are a login, if there was one.
LEMMA ByHandThere ==
    ASSUME TypeInv, NEW p \in Places, pc[p] = "unsaved", UpdatesManually(p),
           NEW s \in Scopes, LoggedIn(cfg[s])
    PROVE  LoggedIn(cfg'[s])
<1>1. task[p].signer \in Signer
  BY TaskType DEF Fit
<1> DEFINE signer == task[p].signer
<1>2. PICK items \in {cfg[Global], ByHand(signer, cfg[Global])} :
          cfg' = [cfg EXCEPT ![Global] = items]
  BY DEF UpdatesManually
<1>3. cfg'[s] = IF s = Global THEN items ELSE cfg[s]
  BY <1>2 DEF TypeInv, CfgType
<1>4. LoggedIn(ByHand(signer, cfg[Global]))
  <2>1. \A k \in Key : k # Nothing
    BY SignersAssumption DEF Key
  <2>2. \A a \in Accounts : a # Nothing
    BY SignersAssumption
  <2> HIDE DEF signer
  <2> DEFINE made == ByHand(signer, cfg[Global])
  <2>3. /\ signer.kind = "key" => made["nsec"] \in Key
        /\ signer.kind # "key" => made["bunker-uri"] \in Accounts /\ made["bunker-app-key"] \in Accounts
    BY <1>1, ByHandType DEF TypeInv, signer
  <2> HIDE DEF made
  <2>4. LoggedIn(made)
    BY <2>1, <2>2, <2>3 DEF LoggedIn
  <2> QED
    BY <2>4 DEF made
<1> QED
  BY <1>2, <1>3, <1>4

\* Without remote signers, also where commands overlap: only keys are written,
\* and the only keys that are removed are those a logout or, to save a global
\* login, a repository's.
Removals == {w \in TypedWrite(Scopes) : w.value = Nothing}
KeyWrites(s) ==
    {w \in TypedWrite(Scopes) :
        /\ w.item = "bunker-uri" => w.value = Nothing
        /\ w.item = "nsec" /\ w.value = Nothing => w.scope # Global /\ s = Global}

KeyTask(at, t) ==
    /\ t.given # NoSigner => t.given.kind = "key"
    /\ at \in {"saving", "unsaved"} => t.signer.kind = "key"
    /\ at = "saving" => t.todo \in Seq(KeyWrites(t.scope))
    /\ at = "clearing" => t.todo \in Seq(Removals)

KeysInv ==
    /\ \A s \in Scopes : cfg[s]["bunker-uri"] = Nothing
    /\ \A p \in Places : KeyTask(pc[p], task[p])

LEMMA ClearedRemovals ==
    ASSUME NEW s \in Scopes
    PROVE  Cleared(s) \in Seq(Removals)
<1>1. \A item \in Items : Remove(s, item) \in Removals
  BY DEF Remove, Set, TypedWrite, ValueOf, Values, Removals
<1>2. {"nsec", "npub", "bunker-uri", "bunker-app-key"} \subseteq Items
  BY DEF Items
<1>3. /\ Remove(s, "nsec") \in Removals /\ Remove(s, "npub") \in Removals
      /\ Remove(s, "bunker-uri") \in Removals /\ Remove(s, "bunker-app-key") \in Removals
  BY <1>1, <1>2
<1> QED
  BY <1>3 DEF Cleared

LEMMA SavedKey ==
    ASSUME NEW p \in Places, NEW signer \in Signer, signer.kind = "key", NEW s \in Scopes
    PROVE  Saved(p, signer, s) \in Seq(KeyWrites(s))
<1> DEFINE first == IF s = Global /\ p \in Repos
                    THEN <<Remove(p, "npub"), Remove(p, "nsec"), Remove(p, "bunker-uri"),
                           Remove(p, "bunker-app-key")>>
                    ELSE << >>
           key == [of |-> signer.of, locked |-> signer.locked]
           items == <<Set(s, "nsec", key), Remove(s, "bunker-uri"), Remove(s, "bunker-app-key")>>
           last == <<Set(s, "npub", signer.npub)>>
<1>1. {"nsec", "npub", "bunker-uri", "bunker-app-key"} \subseteq Items
  BY DEF Items
<1>2. key \in Key /\ key # Nothing /\ signer.npub \in Accounts \cup {Nothing}
  <2>1. signer.of \in Accounts /\ signer.locked \in BOOLEAN /\ signer.npub \in Accounts \cup {Nothing}
    BY DEF Signer
  <2>2. key \in Key
    BY <2>1 DEF Key
  <2> HIDE DEF key
  <2> QED
    BY <2>1, <2>2, SignersAssumption DEF Key
<1>3. Saved(p, signer, s) = first \o (items \o last)
  BY DEF Saved, SignerItems
<1> HIDE DEF key
<1>4. /\ Set(s, "nsec", key) \in KeyWrites(s) /\ Set(s, "npub", signer.npub) \in KeyWrites(s)
      /\ Remove(s, "bunker-uri") \in KeyWrites(s) /\ Remove(s, "bunker-app-key") \in KeyWrites(s)
  BY <1>1, <1>2 DEF Remove, Set, TypedWrite, ValueOf, Values, KeyWrites
<1>5. ASSUME s = Global, p \in Repos
      PROVE  /\ Remove(p, "nsec") \in KeyWrites(s) /\ Remove(p, "npub") \in KeyWrites(s)
             /\ Remove(p, "bunker-uri") \in KeyWrites(s)
             /\ Remove(p, "bunker-app-key") \in KeyWrites(s)
  BY <1>1, <1>5, SignersAssumption
  DEF Remove, Set, TypedWrite, ValueOf, Values, KeyWrites, Scopes
<1>6. first \in Seq(KeyWrites(s)) /\ items \in Seq(KeyWrites(s)) /\ last \in Seq(KeyWrites(s))
  BY <1>4, <1>5
<1> HIDE DEF first, items, last
<1> QED
  BY <1>3, <1>6

\* A command goes on.
LEMMA KeysGoOn ==
    ASSUME TypeInv, KeysInv, NEW p \in Places, NEW at, NEW t, Continue(p, at, t), KeyTask(at, t),
           \A s \in Scopes : cfg'[s]["bunker-uri"] = Nothing
    PROVE  KeysInv'
<1>1. ASSUME NEW q \in Places
      PROVE  KeyTask(pc'[q], task'[q])
  BY DEF Continue, TypeInv, RunInv, KeysInv
<1> QED
  BY <1>1 DEF KeysInv, KeyTask

LEMMA KeysEnd ==
    ASSUME TypeInv, KeysInv, NEW p \in Places, NEW says, End(p, says),
           \A s \in Scopes : cfg'[s]["bunker-uri"] = Nothing
    PROVE  KeysInv'
<1>1. KeyTask("idle", NoTask)
  BY DEF KeyTask, NoTask
<1> QED
  BY <1>1, KeysGoOn DEF End

LEMMA KeysSave ==
    ASSUME TypeInv, KeysInv, NEW p \in Places, NEW signer \in Signer, signer.kind = "key",
           NEW local \in BOOLEAN, Save(p, signer, local), UNCHANGED cfg
    PROVE  KeysInv'
<1>1. CASE local /\ p \notin Repos
  BY <1>1, KeysEnd DEF Save, KeysInv
<1>2. CASE ~(local /\ p \notin Repos)
  <2> DEFINE s == IF local THEN p ELSE Global
             t == [task[p] EXCEPT !.scope = s, !.signer = signer, !.todo = Saved(p, signer, s)]
  <2>1. s \in Scopes
    BY <1>2 DEF Scopes
  <2>2. Continue(p, "saving", t)
    BY <1>2 DEF Save
  <2> HIDE DEF s
  <2>3. t.given = task[p].given /\ t.signer = signer /\ t.scope = s /\ t.todo = Saved(p, signer, s)
    BY TaskType DEF Task
  <2> HIDE DEF t
  <2>4. KeyTask("saving", t)
    BY <2>1, <2>3, SavedKey DEF KeyTask, KeysInv
  <2> QED
    BY <2>2, <2>4, KeysGoOn DEF KeysInv
<1> QED
  BY <1>1, <1>2

\* Only keys can be entered.
LEMMA OnlyKeys ==
    ASSUME "bunker" \notin env
    PROVE  /\ \A signer \in GivenSigners : signer.kind = "key"
           /\ \A signer \in SecretKeys \cup NewAccounts \cup RemoteSigners : signer.kind = "key"
BY DEF GivenSigners, SecretKeys, NewAccounts, RemoteSigners, KeyOf

LEMMA KeysCommand ==
    ASSUME TypeInv, KeysInv, "bunker" \notin env, NEW p \in Places, Command(p)
    PROVE  KeysInv'
<1>1. ASSUME NEW at, NEW t, Begin(p, at, t), KeyTask(at, t)
      PROVE  KeysInv'
  BY <1>1, KeysGoOn DEF Begin, KeysInv
<1>2. CASE Work(p)
  <2> DEFINE t == [NoTask EXCEPT !.command = "work"]
  <2>1. Begin(p, "menu", t) /\ t.given = NoSigner
    BY <1>2 DEF Work, NoTask
  <2> HIDE DEF t
  <2> QED
    BY <1>1, <2>1 DEF KeyTask
<1>3. CASE \E local \in BOOLEAN, given \in {NoSigner} \cup GivenSigners :
             AccountLogin(p, local, given)
  <2>1. PICK local \in BOOLEAN, given \in {NoSigner} \cup GivenSigners :
            AccountLogin(p, local, given)
    BY <1>3
  <2> DEFINE t == [NoTask EXCEPT !.command = "login", !.local = local, !.given = given,
                                 !.sources = IF ~local THEN Sources(p)
                                             ELSE IF p \in Repos THEN <<p>> ELSE << >>]
  <2>2. Begin(p, "accounts", t)
    BY <2>1 DEF AccountLogin
  <2>3. t.given = given
    BY DEF NoTask
  <2> HIDE DEF t
  <2> QED
    BY <1>1, <2>2, <2>3, OnlyKeys DEF KeyTask
<1>4. ASSUME NEW scope, NEW todo \in Seq(Removals), LogsOut(p, scope, todo)
      PROVE  KeysInv'
  <2> DEFINE t == [NoTask EXCEPT !.command = "logout", !.used = ScopeFor(p),
                                 !.scope = scope, !.todo = todo]
  <2>1. Begin(p, "clearing", t)
    BY <1>4 DEF LogsOut
  <2>2. t.given = NoSigner /\ t.todo = todo
    BY DEF NoTask
  <2> HIDE DEF t
  <2> QED
    BY <1>1, <1>4, <2>1, <2>2 DEF KeyTask
<1>5. CASE AccountLogout(p)
  <2>1. CASE \E i \in DOMAIN Sources(p) : LogsOut(p, Sources(p)[i], Cleared(Sources(p)[i]))
    <3>1. PICK i \in DOMAIN Sources(p) : LogsOut(p, Sources(p)[i], Cleared(Sources(p)[i]))
      BY <2>1
    <3>2. Sources(p)[i] \in Scopes
      BY SourcesType
    <3> QED
      BY <1>4, <3>1, <3>2, ClearedRemovals
  <2>2. CASE LogsOut(p, Global, << >>)
    <3>1. << >> \in Seq(Removals)
      OBVIOUS
    <3> QED
      BY <1>4, <2>2, <3>1
  <2> QED
    BY <1>5, <2>1, <2>2 DEF AccountLogout
<1>6. CASE ExportNoKeys(p)
  BY <1>6 DEF ExportNoKeys, KeysInv, KeyTask
<1> QED
  BY <1>2, <1>3, <1>5, <1>6 DEF Command

LEMMA KeysWrite ==
    ASSUME TypeInv, KeysInv, NEW p \in Places, WriteNext(p)
    PROVE  KeysInv'
<1> DEFINE w == Head(task[p].todo)
           t == [task[p] EXCEPT !.todo = Tail(@)]
<1>1. /\ pc[p] \in {"clearing", "saving"} /\ task[p].todo # << >>
      /\ cfg' = [cfg EXCEPT ![w.scope][w.item] = w.value]
      /\ Continue(p, pc[p], t)
  BY DEF WriteNext
<1>2. /\ pc[p] = "saving" =>
            w \in KeyWrites(task[p].scope) /\ Tail(task[p].todo) \in Seq(KeyWrites(task[p].scope))
      /\ pc[p] = "clearing" => w \in Removals /\ Tail(task[p].todo) \in Seq(Removals)
  <2> DEFINE todo == task[p].todo
             kept == KeyWrites(task[p].scope)
  <2>1. /\ pc[p] = "saving" => todo \in Seq(kept)
        /\ pc[p] = "clearing" => todo \in Seq(Removals)
    BY DEF KeysInv, KeyTask
  <2>2. todo # << >>
    BY <1>1
  <2> HIDE DEF todo, kept
  <2>3. ASSUME NEW S, todo \in Seq(S)
        PROVE  Head(todo) \in S /\ Tail(todo) \in Seq(S)
    BY <2>2, <2>3
  <2>4. /\ pc[p] = "saving" => Head(todo) \in kept /\ Tail(todo) \in Seq(kept)
        /\ pc[p] = "clearing" => Head(todo) \in Removals /\ Tail(todo) \in Seq(Removals)
    BY <2>1, <2>3
  <2> QED
    BY <2>4 DEF todo, kept
<1>3. /\ t.given = task[p].given /\ t.signer = task[p].signer /\ t.scope = task[p].scope
      /\ t.todo = Tail(task[p].todo)
  BY TaskType DEF Task
<1> HIDE DEF w, t
<1>4. w \in TypedWrite(Scopes) /\ (w.item = "bunker-uri" => w.value = Nothing)
  BY <1>1, <1>2 DEF KeyWrites, Removals
<1>5. w.scope \in Scopes /\ w.item \in Items /\ "bunker-uri" \in Items
  BY <1>4 DEF TypedWrite, Items
<1>6. \A s \in Scopes : cfg'[s]["bunker-uri"] = Nothing
  BY <1>1, <1>4, <1>5 DEF KeysInv, TypeInv, CfgType
<1>7. KeyTask(pc[p], t)
  BY <1>1, <1>2, <1>3 DEF KeysInv, KeyTask
<1> QED
  BY <1>1, <1>6, <1>7, KeysGoOn

\* The other steps.
LEMMA KeysMove ==
    ASSUME TypeInv, KeysInv, "bunker" \notin env, NEW p \in Places, Step(p), ~WriteNext(p)
    PROVE  KeysInv'
<1>1. ASSUME NEW says, End(p, says), UNCHANGED cfg
      PROVE  KeysInv'
  BY <1>1, KeysEnd DEF KeysInv
<1>2. ASSUME NEW at, NEW t, Continue(p, at, t), UNCHANGED cfg,
             at \notin {"saving", "clearing"}, t.given = task[p].given, at = "unsaved" => t.signer.kind = "key"
      PROVE  KeysInv'
  <2>1. KeyTask(at, t)
    BY <1>2 DEF KeysInv, KeyTask
  <2> QED
    BY <1>2, <2>1, KeysGoOn DEF KeysInv
<1>3. task[p] \in Task
  BY TaskType
<1>4. CASE WriteFails(p)
  <2> DEFINE t == [task[p] EXCEPT !.todo = << >>]
  <2>1. t.given = task[p].given /\ t.signer = task[p].signer
    BY <1>3 DEF Task
  <2>2. \/ Continue(p, "unclear", t) /\ UNCHANGED cfg
        \/ pc[p] = "saving" /\ Continue(p, "unsaved", t) /\ UNCHANGED cfg
        \/ End(p, Silent) /\ UNCHANGED cfg
    BY <1>4 DEF WriteFails, ClearFails, SaveFails
  <2>3. pc[p] = "saving" => t.signer.kind = "key"
    BY <2>1 DEF KeysInv, KeyTask
  <2> HIDE DEF t
  <2> QED
    BY <1>1, <1>2, <2>1, <2>2, <2>3
<1>5. CASE Written(p)
  <2> DEFINE t == [task[p] EXCEPT !.sources = Tail(@)]
  <2>1. t.given = task[p].given
    BY <1>3 DEF Task
  <2>2. \/ Continue(p, "accounts", t) /\ UNCHANGED cfg
        \/ \E says : End(p, says) /\ UNCHANGED cfg
    BY <1>5 DEF Written
  <2> HIDE DEF t
  <2> QED
    BY <1>1, <1>2, <2>1, <2>2
<1>6. CASE AskAccount(p)
  <2> DEFINE s == Head(task[p].sources)
             t == [task[p] EXCEPT !.sources = Tail(@)]
             u == [task[p] EXCEPT !.scope = s, !.todo = Cleared(s)]
             v == [task[p] EXCEPT !.here = TRUE]
  <2>1. /\ t.given = task[p].given /\ u.given = task[p].given /\ v.given = task[p].given
        /\ u.todo = Cleared(s)
    BY <1>3 DEF Task
  <2>2. s \in Scopes
    BY <1>3, <1>6 DEF AskAccount, Task
  <2>3. \/ Continue(p, "accounts", t) /\ UNCHANGED cfg
        \/ Continue(p, "clearing", u) /\ UNCHANGED cfg
        \/ Continue(p, "menu", v) /\ UNCHANGED cfg
        \/ End(p, Silent) /\ UNCHANGED cfg
    BY <1>6 DEF AskAccount
  <2> HIDE DEF s, t, u, v
  <2>4. KeyTask("clearing", u)
    BY <2>1, <2>2, ClearedRemovals DEF KeysInv, KeyTask
  <2> QED
    BY <1>1, <1>2, <2>1, <2>3, <2>4, KeysGoOn DEF KeysInv
<1>7. CASE NoneLeft(p) \/ AfterFailedLogout(p)
  <2>1. ASSUME NEW here, Continue(p, "menu", [task[p] EXCEPT !.here = here]), UNCHANGED cfg
        PROVE  KeysInv'
    <3> DEFINE t == [task[p] EXCEPT !.here = here]
    <3>1. t.given = task[p].given /\ Continue(p, "menu", t)
      BY <1>3, <2>1 DEF Task
    <3> HIDE DEF t
    <3> QED
      BY <1>2, <2>1, <3>1
  <2>2. \/ \E here : Continue(p, "menu", [task[p] EXCEPT !.here = here]) /\ UNCHANGED cfg
        \/ End(p, Silent) /\ UNCHANGED cfg
    BY <1>7 DEF NoneLeft, AfterFailedLogout
  <2> QED
    BY <1>1, <2>1, <2>2
<1>8. CASE FreshLogin(p)
  <2>1. SaveLocal(task[p]) \in BOOLEAN
    BY <1>3 DEF SaveLocal, Task
  <2>2. CASE task[p].given = NoSigner
    BY <1>8, <2>1, <2>2, KeysSave, OnlyKeys, SignersType DEF FreshLogin
  <2>3. CASE task[p].given # NoSigner
    <3>1. task[p].given \in Signer /\ task[p].given.kind = "key"
      BY <1>3, <2>3 DEF Task, KeysInv, KeyTask
    <3> QED
      BY <1>1, <1>8, <2>1, <2>3, <3>1, KeysSave DEF FreshLogin
  <2> QED
    BY <2>2, <2>3
<1>9. CASE AfterFailedSave(p)
  <2>1. task[p].signer \in Signer /\ task[p].signer.kind = "key"
    BY <1>9, TaskType DEF AfterFailedSave, Fit, KeysInv, KeyTask
  <2>2. CASE UpdatesManually(p)
    <3> DEFINE signer == task[p].signer
    <3>1. PICK items \in {cfg[Global], ByHand(signer, cfg[Global])} :
              /\ cfg' = [cfg EXCEPT ![Global] = items]
              /\ End(p, Silent) \/ UNCHANGED <<pc, task, told>>
      BY <2>2 DEF UpdatesManually
    <3>2. Global \in Scopes /\ cfg \in [Scopes -> [Items -> Values]] /\ "bunker-uri" \in Items
      BY DEF Scopes, TypeInv, CfgType, Items
    <3>3. items["bunker-uri"] = cfg[Global]["bunker-uri"]
      <4>1. ByHand(signer, cfg[Global])["bunker-uri"] = cfg[Global]["bunker-uri"]
        BY <2>1, <3>2 DEF ByHand
      <4> QED
        BY <3>1, <4>1
    <3>4. \A s \in Scopes : cfg'[s]["bunker-uri"] = Nothing
      BY <3>1, <3>2, <3>3 DEF KeysInv
    <3> QED
      BY <3>1, <3>4, KeysEnd DEF KeysInv, KeyTask
  <2> QED
    BY <1>1, <1>9, <2>1, <2>2, KeysSave DEF AfterFailedSave
<1>10. CASE Quit(p)
  BY <1>1, <1>10 DEF Quit
<1> QED
  BY <1>4, <1>5, <1>6, <1>7, <1>8, <1>9, <1>10 DEF Step

LEMMA KeysStep ==
    TypeInv /\ (KeysInv \/ "bunker" \in env) /\ [Next]_vars => (KeysInv \/ "bunker" \in env)'
<1> SUFFICES ASSUME TypeInv, KeysInv, "bunker" \notin env, [Next]_vars
             PROVE  KeysInv'
  BY DEF Next, vars
<1>1. CASE UNCHANGED vars
  BY <1>1 DEF vars, KeysInv, KeyTask
<1> QED
  BY <1>1, KeysCommand, KeysWrite, KeysMove DEF Next

LEMMA KeysInit == Init => KeysInv
<1> SUFFICES ASSUME Init
             PROVE  KeysInv
  OBVIOUS
<1>1. KeyTask("idle", NoTask)
  BY DEF KeyTask, NoTask
<1>2. \A s \in Scopes : cfg[s]["bunker-uri"] = Nothing
  BY DEF Init, Empty, Items
<1> QED
  BY <1>1, <1>2 DEF Init, KeysInv

LEMMA KeptStep ==
    ASSUME TypeInv, KeepInv \/ KeysInv, [Next]_vars, NEW s \in Scopes,
           SignerIn(cfg[s]) # NoSigner, SignerIn(cfg'[s]) = NoSigner
    PROVE  \E p \in Places : /\ task'[p] # task[p]
                             /\ \/ pc[p] = "clearing"
                                \/ s # Global /\ task[p].scope = Global
<1>1. LoggedIn(cfg[s]) /\ ~LoggedIn(cfg'[s])
  BY SignerThere
<1>2. cfg' # cfg
  BY <1>1
<1>3. PICK p \in Places : Command(p) \/ Step(p)
  BY <1>2 DEF Next, vars
<1>4. WriteNext(p)
  BY <1>1, <1>2, <1>3, OnlyWrites, ByHandThere
<1>5. task'[p] # task[p]
  <2>1. /\ task[p].todo # << >> /\ task[p].todo \in Seq(TypedWrite(Scopes))
        /\ task'[p].todo = Tail(task[p].todo)
    BY <1>4, TaskType DEF WriteNext, Continue, TypeInv, RunInv, Fit, Task
  <2>2. Len(task'[p].todo) # Len(task[p].todo)
    BY <2>1
  <2> QED
    BY <2>2
<1>6. CASE pc[p] = "saving" /\ KeepInv
  BY <1>1, <1>4, <1>5, <1>6, WriteSafe DEF KeepInv
<1>7. CASE pc[p] = "saving" /\ KeysInv
  <2> DEFINE w == Head(task[p].todo)
  <2>1. w \in KeyWrites(task[p].scope) /\ cfg' = [cfg EXCEPT ![w.scope][w.item] = w.value]
    BY <1>4, <1>7 DEF WriteNext, KeysInv, KeyTask
  <2> HIDE DEF w
  <2>2. w.scope \in Scopes /\ w.item \in Items /\ "nsec" \in Items
    BY <2>1 DEF KeyWrites, TypedWrite, Items
  <2>3. cfg[s]["nsec"] # Nothing /\ cfg'[s]["nsec"] = Nothing
    BY <1>1, <1>7 DEF LoggedIn, KeysInv
  <2>4. w.scope = s /\ w.item = "nsec" /\ w.value = Nothing
    BY <2>1, <2>2, <2>3 DEF TypeInv, CfgType
  <2> QED
    BY <1>5, <2>1, <2>4 DEF KeyWrites
<1> QED
  BY <1>4, <1>5, <1>6, <1>7 DEF WriteNext

\* Where commands do not overlap, or with secret keys only, logins take nothing
\* from anybody, for any number of repositories and accounts, keys encrypted or
\* not, whatever fails and wherever a command is killed.
THEOREM LoginsAreKept == Spec => LoginsKept
<1>1. Spec => []TypeInv
  BY TypeInit, TypeStep, PTL DEF Spec
<1>2. Spec => [](KeepInv \/ "overlap" \in env)
  <2>1. Init => KeepInv
    BY DEF Init, KeepInv, OneAtATime
  <2> QED
    BY <1>1, <2>1, KeepStep, PTL DEF Spec
<1>3. Spec => [](KeysInv \/ "bunker" \in env)
  BY <1>1, KeysInit, KeysStep, PTL DEF Spec
<1>4. /\ TypeInv /\ (KeepInv \/ "overlap" \in env) /\ (KeysInv \/ "bunker" \in env)
      /\ [Next]_vars
      => [\A s \in Scopes :
            /\ ~({"overlap", "bunker"} \subseteq env)
            /\ SignerIn(cfg[s]) # NoSigner /\ SignerIn(cfg'[s]) = NoSigner
            => \E p \in Places : /\ task'[p] # task[p]
                               /\ \/ pc[p] = "clearing"
                                  \/ s # Global /\ task[p].scope = Global]_vars
  BY KeptStep
<1>5. Spec => NeverLoggedOut
  BY <1>1, <1>2, <1>3, <1>4, PTL DEF Spec, NeverLoggedOut
<1> QED
  BY <1>5, LocalIsLocal, PTL DEF LoginsKept

-----------------------------------------------------------------------------
(* What a command told is so.                                              *)

\* A plan is a list of writes, of which the first k are made in c, and those
\* that are left are todo.
Made(c, plan, k, todo) ==
    /\ k + Len(todo) = Len(plan)
    /\ \A i \in 1..Len(todo) : todo[i] = plan[k + i]
    /\ \A i \in 1..k : c[plan[i].scope][plan[i].item] = plan[i].value

Underway(c, plan, todo) == \E k \in 0..Len(plan) : Made(c, plan, k, todo)
Complete(c, plan) == \A i \in 1..Len(plan) : c[plan[i].scope][plan[i].item] = plan[i].value

\* No item is written twice.
Distinct(plan) ==
    \A i, j \in 1..Len(plan) :
        plan[i].scope = plan[j].scope /\ plan[i].item = plan[j].item => i = j

\* The next write of a plan.
LEMMA NextMade ==
    ASSUME NEW c \in [Scopes -> [Items -> Values]], NEW plan \in Seq(TypedWrite(Scopes)),
           Distinct(plan), NEW todo \in Seq(TypedWrite(Scopes)), todo # << >>,
           Underway(c, plan, todo), NEW d,
           d = [c EXCEPT ![Head(todo).scope][Head(todo).item] = Head(todo).value]
    PROVE  /\ Underway(d, plan, Tail(todo))
           /\ \E i \in 1..Len(plan) : Head(todo) = plan[i]
<1>1. PICK k \in 0..Len(plan) : Made(c, plan, k, todo)
  BY DEF Underway
<1>2. /\ Len(plan) \in Nat /\ Len(todo) \in Nat \ {0}
      /\ Head(todo) = todo[1] /\ Len(Tail(todo)) = Len(todo) - 1
      /\ \A i \in 1..Len(Tail(todo)) : Tail(todo)[i] = todo[i + 1]
      /\ \A i \in 1..Len(plan) : plan[i] \in TypedWrite(Scopes)
  OBVIOUS
<1>3. k + 1 \in 1..Len(plan) /\ k + 1 \in 0..Len(plan) /\ Head(todo) = plan[k + 1]
  BY <1>1, <1>2 DEF Made
<1> DEFINE w == plan[k + 1]
<1>4. w.scope \in Scopes /\ w.item \in Items
  BY <1>2, <1>3 DEF TypedWrite
<1>5. d = [c EXCEPT ![w.scope][w.item] = w.value]
  BY <1>3
<1>6. ASSUME NEW i \in 1..(k + 1)
      PROVE  d[plan[i].scope][plan[i].item] = plan[i].value
  <2>1. CASE i = k + 1
    BY <1>4, <1>5, <2>1
  <2>2. CASE i # k + 1
    <3>1. i \in 1..k /\ i \in 1..Len(plan)
      BY <1>2, <2>2
    <3>2. plan[i].scope \in Scopes /\ plan[i].item \in Items
      BY <1>2, <3>1 DEF TypedWrite
    <3>3. plan[i].scope # w.scope \/ plan[i].item # w.item
      BY <1>3, <2>2, <3>1 DEF Distinct
    <3>4. c[plan[i].scope][plan[i].item] = plan[i].value
      BY <1>1, <3>1 DEF Made
    <3> HIDE DEF w
    <3> QED
      BY <1>4, <1>5, <3>2, <3>3, <3>4
  <2> QED
    BY <2>1, <2>2
<1>7. ASSUME NEW i \in 1..Len(Tail(todo))
      PROVE  Tail(todo)[i] = plan[(k + 1) + i]
  <2>1. i + 1 \in 1..Len(todo) /\ k + (i + 1) = (k + 1) + i
    BY <1>2
  <2>2. todo[i + 1] = plan[k + (i + 1)]
    BY <1>1, <2>1 DEF Made
  <2> QED
    BY <1>2, <2>1, <2>2
<1>8. (k + 1) + Len(Tail(todo)) = Len(plan)
  BY <1>1, <1>2 DEF Made
<1>9. Made(d, plan, k + 1, Tail(todo))
  BY <1>6, <1>7, <1>8 DEF Made
<1> QED
  BY <1>3, <1>9 DEF Underway

\* A plan that begins, and one of which nothing is left.
LEMMA PlanEnds ==
    ASSUME NEW c, NEW plan \in Seq(TypedWrite(Scopes))
    PROVE  /\ Underway(c, plan, plan)
           /\ Underway(c, plan, << >>) => Complete(c, plan)
<1>1. Made(c, plan, 0, plan) /\ 0 \in 0..Len(plan)
  BY DEF Made
<1>2. ASSUME NEW k \in 0..Len(plan), Made(c, plan, k, << >>)
      PROVE  Complete(c, plan)
  <2>1. k = Len(plan)
    BY <1>2 DEF Made
  <2> QED
    BY <1>2, <2>1 DEF Made, Complete
<1> QED
  BY <1>1, <1>2 DEF Underway

\* Two plans one after the other.
LEMMA PlansTogether ==
    ASSUME NEW a \in Seq(TypedWrite(Scopes)), NEW b \in Seq(TypedWrite(Scopes)),
           Distinct(a), Distinct(b),
           \A i \in 1..Len(a), j \in 1..Len(b) : a[i].scope # b[j].scope
    PROVE  /\ Distinct(a \o b)
           /\ \A c : Complete(c, a \o b) => Complete(c, a) /\ Complete(c, b)
           /\ \A i \in 1..Len(a \o b) : \/ \E j \in 1..Len(a) : (a \o b)[i] = a[j]
                                        \/ \E j \in 1..Len(b) : (a \o b)[i] = b[j]
<1> DEFINE ab == a \o b
<1>1. /\ Len(a) \in Nat /\ Len(b) \in Nat /\ Len(ab) = Len(a) + Len(b)
      /\ \A i \in 1..Len(a) : ab[i] = a[i]
      /\ \A i \in 1..Len(b) : ab[Len(a) + i] = b[i]
  BY Concatenated
<1> HIDE DEF ab
<1>2. \A i \in 1..Len(ab) : i \in 1..Len(a) \/ (i - Len(a) \in 1..Len(b) /\ Len(a) + (i - Len(a)) = i)
  BY <1>1
<1>3. ASSUME NEW i \in 1..Len(ab), NEW j \in 1..Len(ab),
             ab[i].scope = ab[j].scope, ab[i].item = ab[j].item
      PROVE  i = j
  <2>1. CASE i \in 1..Len(a) /\ j \in 1..Len(a)
    BY <1>1, <1>3, <2>1 DEF Distinct
  <2>2. CASE i \notin 1..Len(a) /\ j \notin 1..Len(a)
    <3>1. /\ i - Len(a) \in 1..Len(b) /\ j - Len(a) \in 1..Len(b)
          /\ ab[i] = b[i - Len(a)] /\ ab[j] = b[j - Len(a)]
      BY <1>1, <1>2, <2>2
    <3>2. i - Len(a) = j - Len(a)
      BY <1>3, <3>1 DEF Distinct
    <3> QED
      BY <1>1, <3>2
  <2>3. CASE i \in 1..Len(a) /\ j \notin 1..Len(a)
    <3>1. j - Len(a) \in 1..Len(b) /\ ab[i] = a[i] /\ ab[j] = b[j - Len(a)]
      BY <1>1, <1>2, <2>3
    <3> QED
      BY <1>3, <2>3, <3>1
  <2>4. CASE i \notin 1..Len(a) /\ j \in 1..Len(a)
    <3>1. i - Len(a) \in 1..Len(b) /\ ab[j] = a[j] /\ ab[i] = b[i - Len(a)]
      BY <1>1, <1>2, <2>4
    <3> QED
      BY <1>3, <2>4, <3>1
  <2> QED
    BY <2>1, <2>2, <2>3, <2>4
<1>4. ASSUME NEW c, Complete(c, ab)
      PROVE  Complete(c, a) /\ Complete(c, b)
  <2>1. \A i \in 1..Len(a) : i \in 1..Len(ab)
    BY <1>1
  <2>2. \A i \in 1..Len(b) : Len(a) + i \in 1..Len(ab)
    BY <1>1
  <2>3. \A i \in 1..Len(ab) : c[ab[i].scope][ab[i].item] = ab[i].value
    BY <1>4 DEF Complete
  <2>4. ASSUME NEW i \in 1..Len(a)
        PROVE  c[a[i].scope][a[i].item] = a[i].value
    <3>1. i \in 1..Len(ab) /\ ab[i] = a[i]
      BY <1>1, <2>1
    <3> QED
      BY <2>3, <3>1
  <2>5. ASSUME NEW i \in 1..Len(b)
        PROVE  c[b[i].scope][b[i].item] = b[i].value
    <3>1. Len(a) + i \in 1..Len(ab) /\ ab[Len(a) + i] = b[i]
      BY <1>1, <2>2
    <3> QED
      BY <2>3, <3>1
  <2> QED
    BY <2>4, <2>5 DEF Complete
<1>5. ASSUME NEW i \in 1..Len(ab)
      PROVE  \/ \E j \in 1..Len(a) : ab[i] = a[j]
             \/ \E j \in 1..Len(b) : ab[i] = b[j]
  <2>1. CASE i \in 1..Len(a)
    BY <1>1, <2>1
  <2>2. CASE i \notin 1..Len(a)
    <3>1. i - Len(a) \in 1..Len(b) /\ ab[i] = b[i - Len(a)]
      BY <1>1, <1>2, <2>2
    <3> QED
      BY <3>1
  <2> QED
    BY <2>1, <2>2
<1>6. Distinct(ab)
  BY <1>3 DEF Distinct
<1> QED
  BY <1>4, <1>5, <1>6 DEF ab

\* Removing all items of a scope, in any order.
LEMMA ClearedWrites ==
    ASSUME NEW s \in Scopes, NEW a, NEW b, NEW d, NEW e, {a, b, d, e} = Items,
           NEW plan, plan = <<Remove(s, a), Remove(s, b), Remove(s, d), Remove(s, e)>>
    PROVE  /\ Distinct(plan)
           /\ \A i \in 1..Len(plan) : plan[i].scope = s
           /\ \A c : Complete(c, plan) => \A item \in Items : c[s][item] = Nothing
<1>1. /\ Len(plan) = 4
      /\ plan[1].scope = s /\ plan[1].item = a /\ plan[1].value = Nothing
      /\ plan[2].scope = s /\ plan[2].item = b /\ plan[2].value = Nothing
      /\ plan[3].scope = s /\ plan[3].item = d /\ plan[3].value = Nothing
      /\ plan[4].scope = s /\ plan[4].item = e /\ plan[4].value = Nothing
  BY DEF Remove, Set
<1>2. a # b /\ a # d /\ a # e /\ b # d /\ b # e /\ d # e
  BY DEF Items
<1>3. \A i \in 1..Len(plan) : i \in {1, 2, 3, 4}
  BY <1>1
<1>4. {1, 2, 3, 4} \subseteq 1..Len(plan)
  BY <1>1
<1>5. \A i \in 1..Len(plan) : plan[i].scope = s
  BY <1>1, <1>3
<1>6. Distinct(plan)
  BY <1>1, <1>2, <1>3 DEF Distinct
<1>7. ASSUME NEW c, Complete(c, plan)
      PROVE  \A item \in Items : c[s][item] = Nothing
  <2>1. c[s][a] = Nothing /\ c[s][b] = Nothing /\ c[s][d] = Nothing /\ c[s][e] = Nothing
    BY <1>1, <1>4, <1>7 DEF Complete
  <2> QED
    BY <2>1
<1> QED
  BY <1>5, <1>6, <1>7

\* Saving the items of a signer.
LEMMA ItemsWrites ==
    ASSUME NEW s \in Scopes, NEW signer \in Signer, NEW plan, plan = SignerItems(signer, s)
    PROVE  /\ Distinct(plan)
           /\ \A i \in 1..Len(plan) : plan[i].scope = s
           /\ \A c : Complete(c, plan) => SignerIn(c[s]) = signer
<1> DEFINE w(item, value) == Set(s, item, value)
           key == [of |-> signer.of, locked |-> signer.locked]
<1>1. key \in Key /\ signer.of \in Accounts
  BY DEF Signer, Key
<1>2. key # Nothing /\ signer.of # Nothing /\ key.of = signer.of /\ key.locked = signer.locked
  BY <1>1, SignersAssumption DEF Key
<1> HIDE DEF key
<1>3. \A item, value : /\ w(item, value).scope = s /\ w(item, value).item = item
                       /\ w(item, value).value = value
  BY DEF Set
<1>4. plan = IF signer.kind = "key"
             THEN <<w("nsec", key), w("bunker-uri", Nothing), w("bunker-app-key", Nothing)>>
                  \o <<w("npub", signer.npub)>>
             ELSE <<w("bunker-uri", signer.of), w("bunker-app-key", signer.of),
                    w("nsec", Nothing)>> \o <<w("npub", signer.npub)>>
  BY DEF SignerItems, Remove, key
<1> HIDE DEF w
<1>5. CASE signer.kind = "key"
  <2>1. plan = <<w("nsec", key), w("bunker-uri", Nothing), w("bunker-app-key", Nothing)>>
                \o <<w("npub", signer.npub)>>
    BY <1>4, <1>5
  <2>2. /\ Len(plan) = 4 /\ plan[1] = w("nsec", key) /\ plan[2] = w("bunker-uri", Nothing)
        /\ plan[3] = w("bunker-app-key", Nothing) /\ plan[4] = w("npub", signer.npub)
    BY <2>1
  <2>3. /\ \A i \in 1..Len(plan) : i \in {1, 2, 3, 4}
        /\ {1, 2, 3, 4} \subseteq 1..Len(plan)
    BY <2>2
  <2>4. Distinct(plan) /\ \A i \in 1..Len(plan) : plan[i].scope = s
    BY <1>3, <2>2, <2>3 DEF Distinct
  <2>5. signer = KeyOf(signer.of, signer.locked, signer.npub)
    BY <1>5 DEF Signer, KeyOf
  <2>6. ASSUME NEW c, Complete(c, plan)
        PROVE  SignerIn(c[s]) = signer
    <3>1. c[s]["nsec"] = key /\ c[s]["npub"] = signer.npub
      BY <1>3, <2>2, <2>3, <2>6 DEF Complete
    <3> QED
      BY <1>2, <2>5, <3>1 DEF SignerIn
  <2> QED
    BY <2>4, <2>6
<1>6. CASE signer.kind # "key"
  <2>1. plan = <<w("bunker-uri", signer.of), w("bunker-app-key", signer.of),
                 w("nsec", Nothing)>> \o <<w("npub", signer.npub)>>
    BY <1>4, <1>6
  <2>2. /\ Len(plan) = 4 /\ plan[1] = w("bunker-uri", signer.of)
        /\ plan[2] = w("bunker-app-key", signer.of)
        /\ plan[3] = w("nsec", Nothing) /\ plan[4] = w("npub", signer.npub)
    BY <2>1
  <2>3. /\ \A i \in 1..Len(plan) : i \in {1, 2, 3, 4}
        /\ {1, 2, 3, 4} \subseteq 1..Len(plan)
    BY <2>2
  <2>4. Distinct(plan) /\ \A i \in 1..Len(plan) : plan[i].scope = s
    BY <1>3, <2>2, <2>3 DEF Distinct
  <2>5. signer = BunkerOf(signer.of, signer.npub)
    BY <1>6 DEF Signer, BunkerOf
  <2>6. ASSUME NEW c, Complete(c, plan)
        PROVE  SignerIn(c[s]) = signer
    <3>1. /\ c[s]["nsec"] = Nothing /\ c[s]["npub"] = signer.npub
          /\ c[s]["bunker-uri"] = signer.of /\ c[s]["bunker-app-key"] = signer.of
      BY <1>3, <2>2, <2>3, <2>6 DEF Complete
    <3> QED
      BY <1>2, <2>5, <3>1 DEF SignerIn
  <2> QED
    BY <2>4, <2>6
<1> QED
  BY <1>5, <1>6

\* The plans of a logout and of a save.
LEMMA ClearedPlan ==
    ASSUME NEW s \in Scopes
    PROVE  /\ Cleared(s) \in Seq(TypedWrite(Scopes)) /\ Distinct(Cleared(s))
           /\ \A i \in 1..Len(Cleared(s)) : Cleared(s)[i].scope = s
           /\ \A c : Complete(c, Cleared(s)) => \A item \in Items : c[s][item] = Nothing
<1>1. TypedWrite({s}) \subseteq TypedWrite(Scopes)
  BY DEF TypedWrite
<1>2. Cleared(s) \in Seq(TypedWrite(Scopes))
  BY <1>1, ClearedType, WiderSeq
<1>3. {"nsec", "npub", "bunker-uri", "bunker-app-key"} = Items
  BY DEF Items
<1> DEFINE writes == <<Remove(s, "nsec"), Remove(s, "npub"), Remove(s, "bunker-uri"),
                       Remove(s, "bunker-app-key")>>
<1>4. /\ Distinct(writes)
      /\ \A i \in 1..Len(writes) : writes[i].scope = s
      /\ \A c : Complete(c, writes) => \A item \in Items : c[s][item] = Nothing
  BY <1>3, ClearedWrites, SMTT(30)
<1>5. Cleared(s) = writes
  BY DEF Cleared
<1> HIDE DEF writes
<1> QED
  BY <1>2, <1>4, <1>5

\* The scopes a save writes to.
SavedTo(p, s) == IF s = Global /\ p \in Repos THEN {p, Global} ELSE {s}

LEMMA SavedPlan ==
    ASSUME NEW p \in Places, NEW s \in Scopes, NEW signer \in Signer
    PROVE  /\ Saved(p, signer, s) \in Seq(TypedWrite(Scopes)) /\ Distinct(Saved(p, signer, s))
           /\ \A i \in 1..Len(Saved(p, signer, s)) : Saved(p, signer, s)[i].scope \in SavedTo(p, s)
           /\ \A c : Complete(c, Saved(p, signer, s)) =>
                 /\ SignerIn(c[s]) = signer
                 /\ s = Global /\ p \in Repos => \A item \in Items : c[p][item] = Nothing
<1> DEFINE items == SignerItems(signer, s)
<1>1. Saved(p, signer, s) \in Seq(TypedWrite(Scopes))
  BY SavedType
<1>2. items \in Seq(TypedWrite(Scopes))
  <2>1. TypedWrite({s}) \subseteq TypedWrite(Scopes)
    BY DEF TypedWrite
  <2> QED
    BY <2>1, SignerItemsType, WiderSeq
<1>3. /\ Distinct(items) /\ \A i \in 1..Len(items) : items[i].scope = s
      /\ \A c : Complete(c, items) => SignerIn(c[s]) = signer
  BY ItemsWrites
<1> HIDE DEF items
<1>4. CASE s = Global /\ p \in Repos
  <2> DEFINE first == <<Remove(p, "npub"), Remove(p, "nsec"), Remove(p, "bunker-uri"),
                        Remove(p, "bunker-app-key")>>
  <2>1. p \in Scopes /\ p # Global
    BY <1>4, SignersAssumption DEF Scopes
  <2>2. {"npub", "nsec", "bunker-uri", "bunker-app-key"} = Items
    BY DEF Items
  <2>3. /\ Distinct(first)
        /\ \A i \in 1..Len(first) : first[i].scope = p
        /\ \A c : Complete(c, first) => \A item \in Items : c[p][item] = Nothing
    BY <2>1, <2>2, ClearedWrites
  <2>4. first \in Seq(TypedWrite(Scopes))
    <3>1. \A item \in Items : Remove(p, item) \in TypedWrite(Scopes)
      BY <2>1 DEF Remove, Set, TypedWrite, ValueOf, Values
    <3>2. /\ Remove(p, "npub") \in TypedWrite(Scopes) /\ Remove(p, "nsec") \in TypedWrite(Scopes)
          /\ Remove(p, "bunker-uri") \in TypedWrite(Scopes)
          /\ Remove(p, "bunker-app-key") \in TypedWrite(Scopes)
      BY <2>2, <3>1
    <3> QED
      BY <3>2
  <2>5. Saved(p, signer, s) = first \o items
    BY <1>4 DEF Saved, items
  <2> HIDE DEF first
  <2>6. \A i \in 1..Len(first), j \in 1..Len(items) : first[i].scope # items[j].scope
    BY <1>3, <1>4, <2>1, <2>3
  <2>7. /\ Distinct(first \o items)
        /\ \A c : Complete(c, first \o items) => Complete(c, first) /\ Complete(c, items)
        /\ \A i \in 1..Len(first \o items) :
              \/ \E j \in 1..Len(first) : (first \o items)[i] = first[j]
              \/ \E j \in 1..Len(items) : (first \o items)[i] = items[j]
    BY <1>2, <1>3, <2>3, <2>4, <2>6, PlansTogether
  <2>8. \A i \in 1..Len(first \o items) : (first \o items)[i].scope \in {p, s}
    BY <1>3, <2>3, <2>7
  <2> QED
    BY <1>1, <1>3, <1>4, <2>3, <2>5, <2>7, <2>8 DEF SavedTo
<1>5. CASE ~(s = Global /\ p \in Repos)
  <2>1. << >> \o items = items
    BY <1>2
  <2>2. Saved(p, signer, s) = items
    BY <1>5, <2>1 DEF Saved, items
  <2> QED
    BY <1>1, <1>3, <1>5, <2>2 DEF SavedTo
<1> QED
  BY <1>4, <1>5

\* The save a command is at, and what is told when it is done.
SaveInv(p) ==
    pc[p] = "saving" =>
        /\ task[p].scope \in {p, Global} \cap Scopes
        /\ Underway(cfg, Saved(p, task[p].signer, task[p].scope), task[p].todo)

TellInv ==
    /\ OneAtATime
    /\ \A p \in Places : SaveInv(p)
    /\ \A p \in Places : told[p] # Silent => AtRest
    /\ LoginTakesEffect

\* A command that begins tells nothing of a login.
LEMMA CommandTells ==
    ASSUME ToldType, NEW p \in Places, Command(p), NEW q \in Places
    PROVE  /\ told'[q].what # "saved"
           /\ told'[q] # Silent => UNCHANGED pc
           /\ told'[q].what = "logout" => FALSE
<1>1. Silent.what = "nothing"
  BY DEF Silent
<1>2. ASSUME NEW at, NEW t, Begin(p, at, t)
      PROVE  told'[q] = Silent
  BY <1>2 DEF Begin
<1>3. CASE ExportNoKeys(p)
  BY <1>1, <1>3 DEF ExportNoKeys
<1>4. CASE ~ExportNoKeys(p)
  <2>1. \E at, t : Begin(p, at, t)
    BY <1>4 DEF Command, Work, AccountLogin, AccountLogout, LogsOut
  <2> QED
    BY <1>1, <1>2, <2>1
<1> QED
  BY <1>3, <1>4

\* What a step of p tells: nothing, but for what it did.
LEMMA StepTells ==
    ASSUME TypeInv, NEW p \in Places, Step(p)
    PROVE  /\ \A q \in Places : q # p => told'[q] = told[q]
           /\ \/ told'[p] = told[p]
              \/ pc'[p] = "idle" /\ told'[p] = Silent
              \/ /\ Written(p) /\ pc'[p] = "idle" /\ task[p].todo = << >> /\ cfg' = cfg
                 /\ \/ /\ pc[p] = "saving" /\ told'[p].what = "saved"
                       /\ told'[p].scope = task[p].scope /\ told'[p].signer = task[p].signer
                    \/ /\ pc[p] = "clearing" /\ task[p].command = "logout"
                       /\ told'[p].what = "logout" /\ told'[p].used = task[p].used
<1>1. told \in [Places -> Told] /\ pc \in [Places -> Stages]
  BY DEF TypeInv, ToldType, RunInv
<1>2. ASSUME NEW says, End(p, says)
      PROVE  /\ \A q \in Places : q # p => told'[q] = told[q]
             /\ pc'[p] = "idle" /\ told'[p] = says
  BY <1>1, <1>2 DEF End, Continue
<1>3. ASSUME NEW signer, NEW local, Save(p, signer, local)
      PROVE  \/ UNCHANGED told
             \/ End(p, Silent)
  BY <1>3 DEF Save
<1>4. CASE Written(p)
  <2>1. CASE pc[p] = "clearing" /\ task[p].command = "logout"
    <3>1. End(p, [what |-> "logout", used |-> task[p].used])
      BY <1>4, <2>1 DEF Written
    <3> QED
      BY <1>2, <1>4, <2>1, <3>1 DEF Written
  <2>2. CASE pc[p] = "saving"
    <3>1. End(p, [what |-> "saved", scope |-> task[p].scope, signer |-> task[p].signer])
      BY <1>4, <2>2 DEF Written
    <3> QED
      BY <1>2, <1>4, <2>2, <3>1 DEF Written
  <2>3. CASE pc[p] = "clearing" /\ task[p].command # "logout"
    BY <1>4, <2>3 DEF Written
  <2> QED
    BY <1>4, <2>1, <2>2, <2>3 DEF Written
<1>5. CASE ~Written(p)
  <2>1. UNCHANGED told \/ End(p, Silent)
    <3>1. CASE WriteNext(p) \/ NoneLeft(p) \/ WriteFails(p)
      BY <3>1 DEF WriteNext, NoneLeft, WriteFails, ClearFails, SaveFails
    <3>2. CASE AskAccount(p) \/ AfterFailedLogout(p) \/ Quit(p)
      BY <3>2 DEF AskAccount, AfterFailedLogout, Quit
    <3>3. CASE FreshLogin(p) \/ AfterFailedSave(p)
      BY <1>3, <3>3 DEF FreshLogin, AfterFailedSave, UpdatesManually
    <3> QED
      BY <1>5, <3>1, <3>2, <3>3 DEF Step
  <2> QED
    BY <1>2, <2>1
<1> QED
  BY <1>4, <1>5

\* A save begins, or is refused.
LEMMA SaveBegins ==
    ASSUME TypeInv, NEW p \in Places, NEW signer \in Signer, NEW local \in BOOLEAN,
           Save(p, signer, local), pc'[p] = "saving", cfg' = cfg
    PROVE  SaveInv(p)' /\ task'[p].signer = signer
<1>1. ~(local /\ p \notin Repos)
  BY DEF Save, End, Continue, TypeInv, RunInv
<1> DEFINE s == IF local THEN p ELSE Global
<1>2. Continue(p, "saving", [task[p] EXCEPT !.scope = s, !.signer = signer,
                                            !.todo = Saved(p, signer, s)])
  BY <1>1 DEF Save
<1>3. s \in Scopes /\ s \in {p, Global}
  BY <1>1 DEF Scopes
<1> HIDE DEF s
<1>4. task'[p] = [task[p] EXCEPT !.scope = s, !.signer = signer, !.todo = Saved(p, signer, s)]
  BY <1>2 DEF Continue, TypeInv, RunInv
<1>5. task'[p].scope = s /\ task'[p].signer = signer /\ task'[p].todo = Saved(p, signer, s)
  BY <1>4, TaskType DEF Task
<1>6. Underway(cfg, Saved(p, signer, s), Saved(p, signer, s))
  BY <1>3, SavedPlan, PlanEnds
<1> QED
  BY <1>3, <1>5, <1>6 DEF SaveInv

\* A step of p that has p save.
LEMMA StepSaves ==
    ASSUME TypeInv, NEW p \in Places, Step(p), pc'[p] = "saving", SaveInv(p)
    PROVE  SaveInv(p)'
<1>1. ASSUME NEW says, End(p, says)
      PROVE  FALSE
  BY <1>1 DEF End, Continue, TypeInv, RunInv
<1>2. ASSUME NEW at, NEW t, Continue(p, at, t)
      PROVE  at = "saving" /\ task'[p] = t
  BY <1>2 DEF Continue, TypeInv, RunInv
<1>3. CASE WriteNext(p)
  <2> DEFINE t == task[p]
             s == t.scope
             plan == Saved(p, t.signer, s)
  <2>1. /\ pc[p] = "saving" /\ t.todo # << >>
        /\ cfg' = [cfg EXCEPT ![Head(t.todo).scope][Head(t.todo).item] = Head(t.todo).value]
        /\ task'[p] = [t EXCEPT !.todo = Tail(@)]
    BY <1>2, <1>3 DEF WriteNext
  <2>2. t \in Task /\ t.signer \in Signer /\ t.todo \in Seq(TypedWrite(Scopes)) /\ s \in Scopes
    BY <2>1, TaskType DEF Fit, Task
  <2>3. /\ task'[p].scope = s /\ task'[p].signer = t.signer /\ task'[p].todo = Tail(t.todo)
    BY <2>1, <2>2 DEF Task
  <2>4. s \in {p, Global} /\ Underway(cfg, plan, t.todo)
    BY <2>1 DEF SaveInv
  <2>5. plan \in Seq(TypedWrite(Scopes)) /\ Distinct(plan)
    BY <2>2, SavedPlan
  <2>6. cfg \in [Scopes -> [Items -> Values]]
    BY DEF TypeInv, CfgType
  <2> HIDE DEF t, s, plan
  <2>7. Underway(cfg', plan, Tail(t.todo))
    BY <2>1, <2>2, <2>4, <2>5, <2>6, NextMade
  <2>8. Saved(p, task'[p].signer, task'[p].scope) = plan
    BY <2>3 DEF plan
  <2> QED
    BY <2>2, <2>3, <2>4, <2>7, <2>8 DEF SaveInv
<1>4. ~WriteFails(p)
  BY <1>1, <1>2 DEF WriteFails, ClearFails, SaveFails
<1>5. ~(Written(p) \/ AskAccount(p) \/ NoneLeft(p) \/ AfterFailedLogout(p) \/ Quit(p))
  <2>1. \A at \in Stages \ {"saving"} : \A t : ~Continue(p, at, t)
    BY <1>2
  <2>2. ~(Written(p) \/ AskAccount(p))
    BY <1>1, <2>1 DEF Written, AskAccount, Stages
  <2>3. ~(NoneLeft(p) \/ AfterFailedLogout(p) \/ Quit(p))
    BY <1>1, <2>1 DEF NoneLeft, AfterFailedLogout, Quit, Stages
  <2> QED
    BY <2>2, <2>3
<1>6. CASE FreshLogin(p)
  <2>1. SaveLocal(task[p]) \in BOOLEAN
    BY TaskType DEF SaveLocal, Task
  <2>2. \E signer \in Signer : Save(p, signer, SaveLocal(task[p]))
    <3>1. CASE task[p].given = NoSigner
      BY <1>6, <3>1, SignersType DEF FreshLogin
    <3>2. CASE task[p].given # NoSigner
      BY <1>1, <1>6, <3>2, TaskType DEF FreshLogin, Task
    <3> QED
      BY <3>1, <3>2
  <2>3. cfg' = cfg
    BY <1>6 DEF FreshLogin
  <2> QED
    BY <2>1, <2>2, <2>3, SaveBegins
<1>7. CASE AfterFailedSave(p)
  <2>1. task[p].signer \in Signer /\ pc[p] = "unsaved"
    BY <1>7, TaskType DEF AfterFailedSave, Fit
  <2>2. ~UpdatesManually(p)
    BY <1>1, <2>1 DEF UpdatesManually
  <2>3. Save(p, task[p].signer, TRUE) /\ cfg' = cfg
    BY <1>1, <1>7, <2>2 DEF AfterFailedSave
  <2> QED
    BY <2>1, <2>3, SaveBegins
<1> QED
  BY <1>3, <1>4, <1>5, <1>6, <1>7 DEF Step

\* Where a command of another place is idle, so it stays.
LEMMA OthersIdle ==
    ASSUME TypeInv, OneAtATime, NEW p \in Places, Step(p)
    PROVE  /\ pc[p] # "idle"
           /\ \A q \in Places : q # p => pc[q] = "idle" /\ pc'[q] = "idle"
<1>1. pc[p] # "idle"
  BY StepRuns
<1>2. ASSUME NEW q \in Places, q # p
      PROVE  pc[q] = "idle" /\ pc'[q] = "idle"
  <2>1. pc[q] = "idle"
    BY <1>1, <1>2 DEF OneAtATime
  <2>2. pc'[q] = pc[q]
    BY <1>2, OthersStay
  <2> QED
    BY <2>1, <2>2
<1> QED
  BY <1>1, <1>2

\* A save that is complete: the next command signs with what was saved.
LEMMA SavedSigns ==
    ASSUME TypeInv, NEW p \in Places, pc[p] = "saving", SaveInv(p), task[p].todo = << >>
    PROVE  SignerFor(p) = task[p].signer /\ ScopeFor(p) = task[p].scope
<1> DEFINE t == task[p]
           s == t.scope
<1>1. t.signer \in Signer /\ s \in Scopes /\ s \in {p, Global} /\ p # Global
  BY TaskType, SignersAssumption DEF Fit, SaveInv
<1>2. Complete(cfg, Saved(p, t.signer, s))
  BY <1>1, SavedPlan, PlanEnds DEF SaveInv
<1>3. /\ SignerIn(cfg[s]) = t.signer
      /\ s = Global /\ p \in Repos => \A item \in Items : cfg[p][item] = Nothing
  BY <1>1, <1>2, SavedPlan
<1>4. t.signer # NoSigner
  <2>1. t.signer.kind \in {"key", "bunker"} /\ NoSigner.kind = "none"
    BY <1>1 DEF Signer, NoSigner
  <2> QED
    BY <2>1
<1> HIDE DEF s
<1>5. CASE s = p
  BY <1>1, <1>3, <1>4, <1>5, SignersAssumption DEF SignerFor, ScopeFor, Scopes, s
<1>6. CASE s = Global
  <2>1. p \in Repos => SignerIn(cfg[p]) = NoSigner
    BY <1>3, <1>6, SignerThere DEF LoggedIn, Items
  <2> QED
    BY <1>3, <1>6, <2>1 DEF SignerFor, ScopeFor, s
<1> QED
  BY <1>1, <1>5, <1>6

LEMMA TellStep ==
    /\ TypeInv /\ TypeInv' /\ (TellInv \/ "overlap" \in env) /\ [Next]_vars
    => (TellInv \/ "overlap" \in env)'
<1> SUFFICES ASSUME TypeInv, TypeInv', TellInv, "overlap" \notin env, [Next]_vars
             PROVE  TellInv'
  BY DEF Next, vars
<1>1. CASE UNCHANGED vars
  BY <1>1 DEF vars, TellInv, OneAtATime, SaveInv, Underway, Made, AtRest, LoginTakesEffect,
              SignerFor, ScopeFor
<1>2. ASSUME NEW p \in Places, Command(p)
      PROVE  TellInv'
  <2>1. /\ \A q \in Places : pc[q] = "idle"
        /\ UNCHANGED cfg
        /\ pc'[p] # "saving"
    BY <1>2, CommandRuns
  <2>2. \A q \in Places : q # p => pc'[q] = "idle"
    BY <1>2, <2>1, OthersStay
  <2>3. OneAtATime' /\ \A q \in Places : SaveInv(q)'
    BY <2>1, <2>2 DEF OneAtATime, SaveInv
  <2>4. \A q \in Places : told'[q].what # "saved" /\ (told'[q] # Silent => UNCHANGED pc)
    BY <1>2, CommandTells DEF TypeInv
  <2>5. \A q \in Places : told'[q] # Silent => AtRest'
    BY <2>1, <2>4 DEF AtRest
  <2> QED
    BY <2>3, <2>4, <2>5 DEF TellInv, LoginTakesEffect
<1>3. ASSUME NEW p \in Places, Step(p)
      PROVE  TellInv'
  <2>1. /\ pc[p] # "idle"
        /\ \A q \in Places : q # p => pc[q] = "idle" /\ pc'[q] = "idle"
    BY <1>3, OthersIdle DEF TellInv
  <2>2. \A q \in Places : told[q] = Silent
    BY <2>1 DEF TellInv, AtRest
  <2>3. OneAtATime'
    BY <2>1 DEF OneAtATime
  <2>4. ASSUME NEW q \in Places
        PROVE  SaveInv(q)'
    <3>1. CASE q = p /\ pc'[p] = "saving"
      BY <1>3, <3>1, StepSaves DEF TellInv
    <3>2. CASE pc'[q] # "saving"
      BY <3>2 DEF SaveInv
    <3> QED
      BY <2>1, <3>1, <3>2
  <2>5. ASSUME NEW q \in Places, told'[q] # Silent
        PROVE  AtRest'
    BY <1>3, <2>1, <2>2, <2>5, StepTells DEF AtRest
  <2>6. ASSUME NEW q \in Places, told'[q].what = "saved"
        PROVE  (SignerFor(q) = told[q].signer)' /\ (ScopeFor(q) = told[q].scope)'
    <3>1. told'[q] # Silent
      BY <2>6 DEF Silent
    <3>0. q = p
      BY <1>3, <2>2, <3>1, StepTells
    <3>2. /\ cfg' = cfg /\ task[p].todo = << >> /\ pc[p] = "saving"
          /\ told'[p].scope = task[p].scope /\ told'[p].signer = task[p].signer
      <4>1. told'[p] # told[p] /\ told'[p] # Silent /\ told'[p].what = "saved"
        BY <2>2, <2>6, <3>0, <3>1
      <4> QED
        BY <1>3, <4>1, StepTells
    <3>3. SignerFor(p) = task[p].signer /\ ScopeFor(p) = task[p].scope
      BY <3>2, SavedSigns DEF TellInv
    <3> QED
      BY <3>0, <3>2, <3>3 DEF SignerFor, ScopeFor
  <2> QED
    BY <2>3, <2>4, <2>5, <2>6 DEF TellInv, LoginTakesEffect
<1> QED
  BY <1>1, <1>2, <1>3 DEF Next

\* The signers a user can have entered, and a scope that commands left alone or
\* completed: no login and nothing of one, or one that was entered.
Entered(e) == {signer \in Signer : signer.npub = signer.of /\ (signer.locked => "locked" \in e)}
Whole(c, e) == SignerIn(c) \in Entered(e) \/ \A item \in Items : c[item] = Nothing

\* A logout is at its list of writes, or had no login to remove.
ClearInv(p) ==
    pc[p] = "clearing" =>
        \/ /\ Underway(cfg, Cleared(task[p].scope), task[p].todo)
           /\ "locked" \notin env /\ task[p].command = "logout" => task[p].used = task[p].scope
        \/ /\ task[p].todo = << >> /\ \A s \in Scopes : Whole(cfg[s], env)
           /\ "locked" \notin env => SignerIn(cfg[task[p].used]) = NoSigner

\* The scopes the command of p writes to.
Touched(p) ==
    IF pc[p] = "saving" THEN SavedTo(p, task[p].scope)
    ELSE IF pc[p] = "clearing" THEN {task[p].scope} ELSE {}

\* Nothing fails, and what is saved was entered.
Proper(p) ==
    /\ pc[p] \notin {"unclear", "unsaved"}
    /\ pc[p] = "accounts" => task[p].command = "login"
    /\ task[p].given = NoSigner
    /\ pc[p] = "saving" => task[p].signer \in Entered(env)
    /\ ClearInv(p)

CompleteInv ==
    /\ \A p \in Places : Proper(p)
    /\ \A s \in Scopes : Whole(cfg[s], env) \/ \E p \in Places : s \in Touched(p)
    /\ "locked" \notin env => LogoutRemoves

\* Which signers are entered, without signers given as arguments.
LEMMA SignersEntered ==
    /\ "cli" \notin env => GivenSigners = {}
    /\ SecretKeys \cup NewAccounts \cup RemoteSigners \subseteq Entered(env)
<1>1. /\ \A a \in Accounts, locked \in BOOLEAN :
            /\ KeyOf(a, locked, a) \in Signer /\ KeyOf(a, locked, a).npub = a
            /\ KeyOf(a, locked, a).of = a /\ KeyOf(a, locked, a).locked = locked
      /\ \A a \in Accounts :
            /\ BunkerOf(a, a) \in Signer /\ BunkerOf(a, a).npub = a
            /\ BunkerOf(a, a).of = a /\ BunkerOf(a, a).locked = FALSE
  BY DEF KeyOf, BunkerOf, Signer
<1>2. \A a \in Accounts : KeyOf(a, FALSE, a) \in Entered(env) /\ BunkerOf(a, a) \in Entered(env)
  BY <1>1 DEF Entered
<1>3. "locked" \in env => \A a \in Accounts : KeyOf(a, TRUE, a) \in Entered(env)
  BY <1>1 DEF Entered
<1> QED
  BY <1>2, <1>3 DEF GivenSigners, SecretKeys, NewAccounts, RemoteSigners, Answered

\* What a scope without a login, or with one that was entered, loads.
LEMMA WholeLoads ==
    ASSUME NEW c, Whole(c, env), "locked" \notin env, Nothing \in Loads(SignerIn(c), FALSE)
    PROVE  SignerIn(c) = NoSigner
<1>1. CASE SignerIn(c) \in Entered(env)
  <2> DEFINE signer == SignerIn(c)
  <2>1. signer \in Signer /\ signer.npub = signer.of /\ ~signer.locked
    BY <1>1 DEF Entered
  <2>2. signer.kind \in {"key", "bunker"} /\ signer.of \in Accounts
    BY <2>1 DEF Signer
  <2>3. signer.of # Nothing /\ signer.npub # Nothing
    BY <2>1, <2>2, SignersAssumption
  <2>4. Nothing \in Loads(signer, FALSE)
    OBVIOUS
  <2> HIDE DEF signer
  <2>5. CASE signer = NoSigner
    BY <2>5 DEF signer
  <2>6. CASE signer # NoSigner /\ signer.kind = "key"
    <3>1. Loads(signer, FALSE) = {signer.of}
      BY <2>1, <2>6 DEF Loads
    <3> QED
      BY <2>3, <2>4, <3>1
  <2>7. CASE signer # NoSigner /\ signer.kind = "bunker"
    <3>1. Loads(signer, FALSE) = {signer.npub}
      BY <2>3, <2>7 DEF Loads
    <3> QED
      BY <2>3, <2>4, <3>1
  <2> QED
    BY <2>2, <2>5, <2>6, <2>7
<1>2. CASE \A item \in Items : c[item] = Nothing
  BY <1>2, SignerThere DEF LoggedIn, Items
<1> QED
  BY <1>1, <1>2 DEF Whole

\* A complete save or logout leaves its scopes whole.
LEMMA CompleteWhole ==
    ASSUME TypeInv, NEW p \in Places, SaveInv(p), CompleteInv, task[p].todo = << >>,
           NEW s \in Scopes, s \in Touched(p)
    PROVE  Whole(cfg[s], env)
<1> DEFINE t == task[p]
<1>1. t.scope \in Scopes
  BY TaskType DEF Task
<1>2. CASE pc[p] = "saving"
  <2>1. t.signer \in Signer /\ t.signer \in Entered(env)
    BY <1>2, TaskType DEF Fit, CompleteInv, Proper
  <2>2. Complete(cfg, Saved(p, t.signer, t.scope))
    BY <1>1, <1>2, <2>1, SavedPlan, PlanEnds DEF SaveInv
  <2>3. /\ SignerIn(cfg[t.scope]) = t.signer
        /\ t.scope = Global /\ p \in Repos => \A item \in Items : cfg[p][item] = Nothing
    BY <1>1, <2>1, <2>2, SavedPlan
  <2>4. s = t.scope \/ (s = p /\ t.scope = Global /\ p \in Repos)
    BY <1>2 DEF Touched, SavedTo
  <2> QED
    BY <2>1, <2>3, <2>4 DEF Whole
<1>3. CASE pc[p] = "clearing"
  <2>1. s = t.scope
    BY <1>3 DEF Touched
  <2>2. CASE Underway(cfg, Cleared(t.scope), t.todo)
    <3>1. Complete(cfg, Cleared(t.scope))
      BY <1>1, <2>2, ClearedPlan, PlanEnds
    <3> QED
      BY <1>1, <2>1, <3>1, ClearedPlan DEF Whole
  <2>3. CASE \A r \in Scopes : Whole(cfg[r], env)
    BY <2>3
  <2> QED
    BY <1>3, <2>2, <2>3 DEF CompleteInv, Proper, ClearInv
<1> QED
  BY <1>2, <1>3 DEF Touched

\* The next write of a logout or a save: other scopes stay as they are.
LEMMA WriteCompletes ==
    ASSUME TypeInv, NEW p \in Places, SaveInv(p), CompleteInv, WriteNext(p), env' = env
    PROVE  /\ pc' = pc /\ Touched(p)' = Touched(p) /\ told' = told
           /\ task'[p].given = task[p].given /\ task'[p].signer = task[p].signer
           /\ ClearInv(p)'
           /\ \A s \in Scopes \ Touched(p) : cfg'[s] = cfg[s]
<1> DEFINE t == task[p]
           s == t.scope
           w == Head(t.todo)
<1>1. /\ pc[p] \in {"clearing", "saving"} /\ t.todo # << >> /\ told' = told /\ pc' = pc
      /\ cfg' = [cfg EXCEPT ![w.scope][w.item] = w.value]
      /\ task'[p] = [t EXCEPT !.todo = Tail(@)]
  BY DEF WriteNext, Continue, TypeInv, RunInv
<1>2. t \in Task /\ t.todo \in Seq(TypedWrite(Scopes)) /\ s \in Scopes
  BY TaskType DEF Fit, Task
<1>3. /\ task'[p].scope = s /\ task'[p].signer = t.signer /\ task'[p].todo = Tail(t.todo)
      /\ task'[p].given = t.given /\ task'[p].command = t.command /\ task'[p].used = t.used
  BY <1>1, <1>2 DEF Task
<1>4. cfg \in [Scopes -> [Items -> Values]]
  BY DEF TypeInv, CfgType
<1> HIDE DEF t, s
<1>5. Touched(p)' = Touched(p)
  BY <1>1, <1>3 DEF Touched, s, t
<1>6. CASE pc[p] = "saving"
  <2> DEFINE plan == Saved(p, t.signer, s)
  <2>1. t.signer \in Signer
    BY <1>6, TaskType DEF Fit, t
  <2>2. plan \in Seq(TypedWrite(Scopes)) /\ Distinct(plan)
        /\ \A i \in 1..Len(plan) : plan[i].scope \in SavedTo(p, s)
    BY <1>2, <2>1, SavedPlan
  <2>3. Underway(cfg, plan, t.todo)
    BY <1>6 DEF SaveInv, s, t
  <2> HIDE DEF plan
  <2>4. \E i \in 1..Len(plan) : w = plan[i]
    BY <1>1, <1>2, <1>4, <2>2, <2>3, NextMade
  <2>5. w.scope \in Touched(p)
    BY <1>6, <2>2, <2>4 DEF Touched, s, t
  <2>6. \A r \in Scopes \ Touched(p) : cfg'[r] = cfg[r]
    BY <1>1, <1>4, <2>5
  <2> QED
    BY <1>1, <1>3, <1>5, <1>6, <2>6 DEF ClearInv, t
<1>7. CASE pc[p] = "clearing"
  <2> DEFINE plan == Cleared(s)
  <2>1. plan \in Seq(TypedWrite(Scopes)) /\ Distinct(plan)
        /\ \A i \in 1..Len(plan) : plan[i].scope = s
    BY <1>2, ClearedPlan
  <2>2. /\ Underway(cfg, plan, t.todo)
        /\ "locked" \notin env /\ t.command = "logout" => t.used = s
    BY <1>1, <1>7 DEF CompleteInv, Proper, ClearInv, s, t
  <2> HIDE DEF plan
  <2>3. Underway(cfg', plan, Tail(t.todo)) /\ \E i \in 1..Len(plan) : w = plan[i]
    BY <1>1, <1>2, <1>4, <2>1, <2>2, NextMade
  <2>4. w.scope = s /\ s \in Touched(p)
    BY <1>7, <2>1, <2>3 DEF Touched, s, t
  <2>5. \A r \in Scopes \ Touched(p) : cfg'[r] = cfg[r]
    BY <1>1, <1>4, <2>4
  <2>6. Cleared(task'[p].scope) = plan
    BY <1>3 DEF plan
  <2>7. ClearInv(p)'
    BY <1>3, <2>2, <2>3, <2>6 DEF ClearInv
  <2> QED
    BY <1>1, <1>3, <1>5, <2>5, <2>7 DEF t
<1> QED
  BY <1>1, <1>6, <1>7

\* A command goes on from where nothing is half done.
LEMMA GoesOn ==
    ASSUME TypeInv, NEW p \in Places, NEW at \in Stages, NEW t, Continue(p, at, t),
           \A s \in Scopes : Whole(cfg[s], env), cfg' = cfg, env' = env,
           at \notin {"unclear", "unsaved"}, at = "accounts" => t.command = "login",
           t.given = NoSigner, at = "saving" => t.signer \in Entered(env),
           at = "clearing" =>
             \/ /\ Underway(cfg, Cleared(t.scope), t.todo)
                /\ "locked" \notin env /\ t.command = "logout" => t.used = t.scope
             \/ t.todo = << >> /\ ("locked" \notin env => SignerIn(cfg[t.used]) = NoSigner)
    PROVE  Proper(p)'
<1>1. pc'[p] = at /\ task'[p] = t
  BY DEF Continue, TypeInv, RunInv
<1>2. ClearInv(p)'
  BY <1>1 DEF ClearInv
<1> QED
  BY <1>1, <1>2 DEF Proper

\* A command begins.
LEMMA CommandComplete ==
    ASSUME "overlap" \notin env, "cli" \notin env, TypeInv, CompleteInv,
           NEW p \in Places, Command(p), env' = env
    PROVE  CompleteInv'
<1>1. (\A q \in Places : pc[q] = "idle") /\ cfg' = cfg
  BY CommandRuns
<1>2. \A s \in Scopes : Whole(cfg[s], env)
  BY <1>1 DEF CompleteInv, Touched
<1>3. LogoutRemoves'
  BY CommandTells DEF TypeInv, LogoutRemoves
<1>4. \A q \in Places : q # p => pc'[q] = "idle" /\ task'[q] = task[q]
  BY <1>1, OthersStay
<1>5. \A q \in Places : q # p => Proper(q)'
  BY <1>1, <1>4 DEF CompleteInv, Proper, ClearInv
<1>6. /\ NoTask.given = NoSigner /\ NoTask.command = "none"
      /\ \A command : [NoTask EXCEPT !.command = command].given = NoSigner
  BY DEF NoTask
<1>7. CASE Work(p)
  <2>1. Continue(p, "menu", [NoTask EXCEPT !.command = "work"])
    BY <1>7 DEF Work, Begin
  <2>2. Proper(p)'
    BY <1>1, <1>2, <1>6, <2>1, GoesOn DEF Stages
  <2> QED
    BY <1>1, <1>2, <1>3, <1>5, <2>2 DEF CompleteInv
<1>8. ASSUME NEW local \in BOOLEAN, NEW given \in {NoSigner} \cup GivenSigners,
             AccountLogin(p, local, given)
      PROVE  CompleteInv'
  <2>1. given = NoSigner
    BY SignersEntered
  <2>2. PICK sources : Continue(p, "accounts",
            [NoTask EXCEPT !.command = "login", !.local = local, !.given = given,
                           !.sources = sources])
    BY <1>8 DEF AccountLogin, Begin
  <2> DEFINE t == [NoTask EXCEPT !.command = "login", !.local = local, !.given = given,
                                 !.sources = sources]
  <2>3. t.given = NoSigner /\ t.command = "login"
    BY <2>1 DEF NoTask
  <2> HIDE DEF t
  <2>4. Continue(p, "accounts", t)
    BY <2>2 DEF t
  <2>5. Proper(p)'
    BY <1>1, <1>2, <2>3, <2>4, GoesOn DEF Stages
  <2> QED
    BY <1>1, <1>2, <1>3, <1>5, <2>5 DEF CompleteInv
<1>9. CASE AccountLogout(p)
  <2>1. PICK scope, todo :
            /\ LogsOut(p, scope, todo)
            /\ \/ /\ scope \in Scopes /\ todo = Cleared(scope)
                  /\ "locked" \notin env => ScopeFor(p) = scope
               \/ /\ scope = Global /\ todo = << >>
                  /\ "locked" \notin env => SignerIn(cfg[ScopeFor(p)]) = NoSigner
    <3> DEFINE sources == Sources(p)
               fails(s) == Nothing \in Loads(SignerIn(cfg[s]), FALSE)
    <3>1. /\ p \in Repos => sources = <<p, Global>> /\ p \in Scopes
          /\ p \notin Repos => sources = <<Global>>
          /\ Global \in Scopes
      BY DEF Sources, Scopes
    <3>2. "locked" \notin env => \A s \in Scopes : fails(s) => SignerIn(cfg[s]) = NoSigner
      BY <1>2, WholeLoads
    <3>3. \A s : Loads(SignerIn(cfg[s]), FALSE) # {Nothing} => SignerIn(cfg[s]) # NoSigner
      <4>1. Loads(NoSigner, FALSE) = {Nothing}
        BY DEF Loads, NoSigner
      <4> QED
        BY <4>1
    <3>4. \/ \E i \in DOMAIN sources :
                /\ Loads(SignerIn(cfg[sources[i]]), FALSE) # {Nothing}
                /\ \A j \in 1..i - 1 : fails(sources[j])
                /\ LogsOut(p, sources[i], Cleared(sources[i]))
          \/ /\ \A i \in DOMAIN sources : fails(sources[i])
             /\ LogsOut(p, Global, << >>)
      BY <1>9 DEF AccountLogout
    <3> HIDE DEF sources, fails
    <3>5. CASE p \in Repos
      <4>1. DOMAIN sources = {1, 2} /\ sources[1] = p /\ sources[2] = Global /\ p \in Scopes
        BY <3>1, <3>5
      <4>2. ASSUME NEW i \in DOMAIN sources,
                   Loads(SignerIn(cfg[sources[i]]), FALSE) # {Nothing},
                   \A j \in 1..i - 1 : fails(sources[j]),
                   "locked" \notin env
            PROVE  ScopeFor(p) = sources[i]
        <5>1. CASE i = 1
          BY <3>3, <3>5, <4>1, <4>2, <5>1 DEF ScopeFor
        <5>2. CASE i = 2
          <6>1. fails(p)
            BY <4>1, <4>2, <5>2
          <6> QED
            BY <3>2, <4>1, <4>2, <5>2, <6>1 DEF ScopeFor
        <5> QED
          BY <4>1, <5>1, <5>2
      <4>3. ASSUME \A i \in DOMAIN sources : fails(sources[i]), "locked" \notin env
            PROVE  SignerIn(cfg[ScopeFor(p)]) = NoSigner
        BY <3>1, <3>2, <4>1, <4>3 DEF ScopeFor
      <4> QED
        BY <3>1, <3>4, <4>1, <4>2, <4>3
    <3>6. CASE p \notin Repos
      <4>1. DOMAIN sources = {1} /\ sources[1] = Global /\ ScopeFor(p) = Global
        BY <3>1, <3>6 DEF ScopeFor
      <4>2. CASE \E i \in DOMAIN sources : LogsOut(p, sources[i], Cleared(sources[i]))
        <5>1. LogsOut(p, Global, Cleared(Global))
          BY <4>1, <4>2
        <5> QED
          BY <3>1, <4>1, <5>1
      <4>3. CASE fails(Global) /\ LogsOut(p, Global, << >>)
        <5>1. "locked" \notin env => SignerIn(cfg[ScopeFor(p)]) = NoSigner
          BY <3>1, <3>2, <4>1, <4>3
        <5> QED
          BY <4>3, <5>1
      <4> QED
        BY <3>4, <4>1, <4>2, <4>3
    <3> QED
      BY <3>5, <3>6
  <2> DEFINE t == [NoTask EXCEPT !.command = "logout", !.used = ScopeFor(p),
                                 !.scope = scope, !.todo = todo]
  <2>2. Continue(p, "clearing", t)
    BY <2>1 DEF LogsOut, Begin
  <2>3. /\ t.given = NoSigner /\ t.command = "logout" /\ t.used = ScopeFor(p)
        /\ t.scope = scope /\ t.todo = todo
    BY DEF NoTask
  <2> HIDE DEF t
  <2>4. scope \in Scopes => Underway(cfg, Cleared(scope), Cleared(scope))
    BY ClearedPlan, PlanEnds
  <2>5. \/ Underway(cfg, Cleared(t.scope), t.todo) /\ ("locked" \notin env => t.used = t.scope)
        \/ t.todo = << >> /\ ("locked" \notin env => SignerIn(cfg[t.used]) = NoSigner)
    BY <2>1, <2>3, <2>4
  <2>6. Proper(p)'
    BY <1>1, <1>2, <2>2, <2>3, <2>5, GoesOn DEF Stages
  <2> QED
    BY <1>1, <1>2, <1>3, <1>5, <2>6 DEF CompleteInv
<1>10. CASE ExportNoKeys(p)
  <2>1. Proper(p)'
    BY <1>1, <1>10 DEF ExportNoKeys, CompleteInv, Proper, ClearInv
  <2> QED
    BY <1>1, <1>2, <1>3, <1>5, <2>1 DEF CompleteInv
<1> QED
  BY <1>7, <1>8, <1>9, <1>10 DEF Command

\* A step of a command, where no write fails and nothing is killed.
LEMMA StepComplete ==
    ASSUME "overlap" \notin env, "cli" \notin env, "fault" \notin env, "kill" \notin env,
           TypeInv, TypeInv', TellInv, CompleteInv, NEW p \in Places, Step(p), env' = env
    PROVE  CompleteInv'
<1>1. /\ pc[p] # "idle"
      /\ \A q \in Places : q # p => pc[q] = "idle" /\ pc'[q] = "idle"
  BY OthersIdle DEF TellInv
<1>2. \A q \in Places : q # p => task'[q] = task[q]
  BY OthersStay
<1>3. \A q \in Places : q # p => Proper(q)'
  BY <1>1, <1>2 DEF CompleteInv, Proper, ClearInv
<1>4. Proper(p) /\ SaveInv(p) /\ task[p] \in Task /\ Fit(p, pc[p], task[p])
  BY TaskType DEF CompleteInv, TellInv
<1>5. \A s \in Scopes \ Touched(p) : Whole(cfg[s], env)
  BY <1>1 DEF CompleteInv, Touched
<1>6. "locked" \notin env => LogoutRemoves'
  <2> SUFFICES ASSUME "locked" \notin env, NEW q \in Places, told'[q].what = "logout"
               PROVE  SignerIn(cfg'[told'[q].used]) = NoSigner
    BY DEF LogoutRemoves
  <2>1. \A r \in Places : told[r] = Silent
    BY <1>1 DEF TellInv, AtRest
  <2>2. told'[q] # Silent
    BY DEF Silent
  <2>3. q = p
    BY <2>1, <2>2, StepTells
  <2>4. /\ cfg' = cfg /\ task[p].todo = << >> /\ pc[p] = "clearing"
        /\ task[p].command = "logout" /\ told'[p].used = task[p].used
    BY <2>1, <2>2, <2>3, StepTells
  <2>5. CASE Underway(cfg, Cleared(task[p].scope), task[p].todo)
    <3>1. task[p].scope \in Scopes
      BY <1>4 DEF Task
    <3>2. Complete(cfg, Cleared(task[p].scope))
      BY <2>4, <2>5, <3>1, ClearedPlan, PlanEnds
    <3>3. \A item \in Items : cfg[task[p].scope][item] = Nothing
      BY <3>1, <3>2, ClearedPlan
    <3>4. SignerIn(cfg[task[p].scope]) = NoSigner
      BY <3>3, SignerThere DEF LoggedIn, Items
    <3>5. SignerIn(cfg[task[p].used]) = NoSigner
      BY <1>4, <2>4, <2>5, <3>4 DEF Proper, ClearInv
    <3> QED
      BY <2>3, <2>4, <3>5
  <2>6. CASE SignerIn(cfg[task[p].used]) = NoSigner
    BY <2>3, <2>4, <2>6
  <2> QED
    BY <1>4, <2>4, <2>5, <2>6 DEF Proper, ClearInv
<1>7. ASSUME cfg' = cfg, \A s \in Scopes : Whole(cfg[s], env), Proper(p)'
      PROVE  CompleteInv'
  BY <1>3, <1>6, <1>7 DEF CompleteInv
<1>8. ASSUME NEW says, End(p, says), cfg' = cfg, \A s \in Scopes : Whole(cfg[s], env)
      PROVE  CompleteInv'
  <2>1. NoTask.given = NoSigner
    BY DEF NoTask
  <2>2. Proper(p)'
    BY <1>8, <2>1, GoesOn DEF End, Stages
  <2> QED
    BY <1>7, <1>8, <2>2
<1>9. CASE WriteNext(p)
  <2>1. /\ pc' = pc /\ Touched(p)' = Touched(p)
        /\ task'[p].given = task[p].given /\ task'[p].signer = task[p].signer
        /\ ClearInv(p)'
        /\ \A s \in Scopes \ Touched(p) : cfg'[s] = cfg[s]
    BY <1>4, <1>9, WriteCompletes
  <2>2. pc[p] # "accounts"
    BY <1>9 DEF WriteNext
  <2>3. Proper(p)'
    BY <1>4, <2>1, <2>2 DEF Proper
  <2>4. \A s \in Scopes : Whole(cfg'[s], env) \/ s \in Touched(p)'
    BY <1>5, <2>1
  <2> QED
    BY <1>3, <1>6, <2>3, <2>4 DEF CompleteInv
<1>10. CASE Written(p)
  <2>1. task[p].todo = << >> /\ cfg' = cfg
    BY <1>10 DEF Written
  <2>2. \A s \in Scopes : Whole(cfg[s], env)
    BY <1>4, <1>5, <2>1, CompleteWhole
  <2>3. CASE \E says : End(p, says)
    BY <1>8, <2>1, <2>2, <2>3
  <2>4. CASE /\ task[p].command = "login"
             /\ Continue(p, "accounts", [task[p] EXCEPT !.sources = Tail(@)])
    <3> DEFINE t == [task[p] EXCEPT !.sources = Tail(@)]
    <3>1. t.command = "login" /\ t.given = NoSigner
      BY <1>4, <2>4 DEF Task, Proper
    <3> HIDE DEF t
    <3>2. Continue(p, "accounts", t)
      BY <2>4 DEF t
    <3>3. Proper(p)'
      BY <2>1, <2>2, <3>1, <3>2, GoesOn DEF Stages
    <3> QED
      BY <1>7, <2>1, <2>2, <3>3
  <2> QED
    BY <1>10, <2>3, <2>4 DEF Written
<1>11. CASE AskAccount(p)
  <2>1. pc[p] = "accounts" /\ task[p].sources # << >> /\ cfg' = cfg
    BY <1>11 DEF AskAccount
  <2>2. \A s \in Scopes : Whole(cfg[s], env)
    BY <1>5, <2>1 DEF Touched
  <2>3. task[p].command = "login" /\ task[p].given = NoSigner
    BY <1>4, <2>1 DEF Proper
  <2> DEFINE s == Head(task[p].sources)
  <2>4. s \in Scopes
    BY <1>4, <2>1 DEF Task
  <2>5. CASE Continue(p, "accounts", [task[p] EXCEPT !.sources = Tail(@)])
    <3> DEFINE t == [task[p] EXCEPT !.sources = Tail(@)]
    <3>1. t.command = "login" /\ t.given = NoSigner
      BY <1>4, <2>3 DEF Task
    <3> HIDE DEF t
    <3>2. Continue(p, "accounts", t)
      BY <2>5 DEF t
    <3>3. Proper(p)'
      BY <2>1, <2>2, <3>1, <3>2, GoesOn DEF Stages
    <3> QED
      BY <1>7, <2>1, <2>2, <3>3
  <2>6. CASE Continue(p, "clearing", [task[p] EXCEPT !.scope = s, !.todo = Cleared(s)])
    <3> DEFINE t == [task[p] EXCEPT !.scope = s, !.todo = Cleared(s)]
    <3>1. /\ t.command = "login" /\ t.given = NoSigner
          /\ t.scope = s /\ t.todo = Cleared(s)
      BY <1>4, <2>3 DEF Task
    <3>2. Underway(cfg, Cleared(s), Cleared(s))
      BY <2>4, ClearedPlan, PlanEnds
    <3> HIDE DEF t, s
    <3>3. Continue(p, "clearing", t)
      BY <2>6 DEF t
    <3>4. Underway(cfg, Cleared(t.scope), t.todo)
      BY <3>1, <3>2
    <3>5. Proper(p)'
      BY <2>1, <2>2, <3>1, <3>3, <3>4, GoesOn DEF Stages
    <3> QED
      BY <1>7, <2>1, <2>2, <3>5
  <2>7. CASE Continue(p, "menu", [task[p] EXCEPT !.here = TRUE])
    <3> DEFINE t == [task[p] EXCEPT !.here = TRUE]
    <3>1. t.given = NoSigner
      BY <1>4, <2>3 DEF Task
    <3> HIDE DEF t
    <3>2. Continue(p, "menu", t)
      BY <2>7 DEF t
    <3>3. Proper(p)'
      BY <2>1, <2>2, <3>1, <3>2, GoesOn DEF Stages
    <3> QED
      BY <1>7, <2>1, <2>2, <3>3
  <2>8. CASE End(p, Silent)
    BY <1>8, <2>1, <2>2, <2>8
  <2> QED
    BY <1>11, <2>5, <2>6, <2>7, <2>8 DEF AskAccount
<1>12. CASE NoneLeft(p)
  <2> DEFINE t == [task[p] EXCEPT !.here = task[p].local]
  <2>1. pc[p] = "accounts" /\ cfg' = cfg /\ Continue(p, "menu", t)
    BY <1>12 DEF NoneLeft
  <2>2. \A s \in Scopes : Whole(cfg[s], env)
    BY <1>5, <2>1 DEF Touched
  <2>3. t.given = NoSigner
    BY <1>4 DEF Task, Proper
  <2> HIDE DEF t
  <2>4. Proper(p)'
    BY <2>1, <2>2, <2>3, GoesOn DEF Stages
  <2> QED
    BY <1>7, <2>1, <2>2, <2>4
<1>13. CASE FreshLogin(p)
  <2>1. pc[p] = "menu" /\ cfg' = cfg /\ task[p].given = NoSigner
    BY <1>4, <1>13 DEF FreshLogin, Proper
  <2>2. \A s \in Scopes : Whole(cfg[s], env)
    BY <1>5, <2>1 DEF Touched
  <2>3. PICK signer \in SecretKeys \cup NewAccounts \cup RemoteSigners :
            Save(p, signer, SaveLocal(task[p]))
    BY <1>13, <2>1 DEF FreshLogin
  <2>4. signer \in Entered(env)
    BY SignersEntered
  <2> DEFINE local == SaveLocal(task[p])
             s == IF local THEN p ELSE Global
             t == [task[p] EXCEPT !.scope = s, !.signer = signer, !.todo = Saved(p, signer, s)]
  <2>5. CASE local /\ p \notin Repos
    <3>1. End(p, Silent)
      BY <2>3, <2>5 DEF Save
    <3> QED
      BY <1>8, <2>1, <2>2, <3>1
  <2>6. CASE ~(local /\ p \notin Repos)
    <3>1. Continue(p, "saving", t)
      BY <2>3, <2>6 DEF Save
    <3> HIDE DEF s
    <3>2. t.given = NoSigner /\ t.signer = signer
      BY <1>4, <2>1 DEF Task
    <3> HIDE DEF t
    <3>3. Proper(p)'
      BY <2>1, <2>2, <2>4, <3>1, <3>2, GoesOn DEF Stages
    <3> QED
      BY <1>7, <2>1, <2>2, <3>3
  <2> QED
    BY <2>5, <2>6
<1>14. CASE Quit(p)
  <2>1. pc[p] \in {"accounts", "menu"} /\ cfg' = cfg /\ End(p, Silent)
    BY <1>4, <1>14 DEF Quit, Proper
  <2>2. \A s \in Scopes : Whole(cfg[s], env)
    BY <1>5, <2>1 DEF Touched
  <2> QED
    BY <1>8, <2>1, <2>2
<1>15. ~(WriteFails(p) \/ AfterFailedLogout(p) \/ AfterFailedSave(p))
  BY <1>4 DEF Proper, WriteFails, AfterFailedLogout, AfterFailedSave
<1> QED
  BY <1>9, <1>10, <1>11, <1>12, <1>13, <1>14, <1>15 DEF Step

\* Where commands take turns and complete, everything entered is in one piece.
LEMMA CompleteStep ==
    /\ TypeInv /\ TypeInv' /\ (TellInv \/ "overlap" \in env) /\ [Next]_vars
    /\ CompleteInv \/ ~(env \subseteq {"bunker", "locked"})
    => (CompleteInv \/ ~(env \subseteq {"bunker", "locked"}))'
<1> SUFFICES ASSUME TypeInv, TypeInv', TellInv, CompleteInv, [Next]_vars,
                    env \subseteq {"bunker", "locked"}
             PROVE  CompleteInv'
  BY DEF Next, vars
<1>0. "overlap" \notin env /\ "cli" \notin env /\ "fault" \notin env /\ "kill" \notin env
  OBVIOUS
<1>1. CASE UNCHANGED vars
  BY <1>1 DEF vars, CompleteInv, Proper, ClearInv, Underway, Made, Touched, LogoutRemoves
<1> QED
  BY <1>0, <1>1, CommandComplete, StepComplete DEF Next

LEMMA CompleteInit == Init => CompleteInv
<1> SUFFICES ASSUME Init
             PROVE  CompleteInv
  OBVIOUS
<1>1. \A s \in Scopes : Whole(cfg[s], env)
  BY DEF Init, Whole, Empty
<1>2. \A p \in Places : Proper(p)
  BY DEF Init, Proper, ClearInv, NoTask
<1>3. LogoutRemoves
  BY DEF Init, LogoutRemoves, Silent
<1> QED
  BY <1>1, <1>2, <1>3 DEF CompleteInv

LEMMA TellInit == Init => TellInv
<1> SUFFICES ASSUME Init
             PROVE  TellInv
  OBVIOUS
<1>1. Silent.what = "nothing"
  BY DEF Silent
<1> QED
  BY <1>1 DEF Init, TellInv, OneAtATime, SaveInv, LoginTakesEffect

\* The account that is looked up is the one of the signer.
LEMMA WholeSigns ==
    ASSUME CompleteInv
    PROVE  CurrentUserSigns
<1> SUFFICES ASSUME AtRest, NEW p \in Places, SignerFor(p) # NoSigner
             PROVE  CurrentUser(p) \in {Nothing, SignerFor(p).of}
  BY DEF CurrentUserSigns
<1>1. \A s \in Scopes : Whole(cfg[s], env)
  BY DEF CompleteInv, Touched, AtRest
<1>2. ASSUME NEW s \in Scopes
      PROVE  \/ /\ SignerIn(cfg[s]) # NoSigner
                /\ cfg[s]["npub"] = SignerIn(cfg[s]).of /\ cfg[s]["npub"] # Nothing
             \/ SignerIn(cfg[s]) = NoSigner /\ cfg[s]["npub"] = Nothing
  <2> DEFINE c == cfg[s]
  <2>1. CASE SignerIn(c) \in Entered(env)
    <3>1. SignerIn(c).kind \in {"key", "bunker"} /\ NoSigner.kind = "none"
      BY <2>1 DEF Entered, Signer, NoSigner
    <3>2. SignerIn(c) # NoSigner
      BY <3>1
    <3>3. SignerIn(c).npub = c["npub"]
      BY <3>2 DEF SignerIn, KeyOf, BunkerOf
    <3>4. SignerIn(c).of \in Accounts
      BY <2>1 DEF Entered, Signer
    <3> QED
      BY <2>1, <3>2, <3>3, <3>4, SignersAssumption DEF Entered
  <2>2. CASE \A item \in Items : c[item] = Nothing
    BY <2>2, SignerThere DEF LoggedIn, Items
  <2> QED
    BY <1>1, <2>1, <2>2 DEF Whole
<1>3. Global \in Scopes /\ (p \in Repos => p \in Scopes)
  BY DEF Scopes
<1>4. CASE p \in Repos /\ SignerIn(cfg[p]) # NoSigner
  BY <1>2, <1>3, <1>4 DEF CurrentUser, Merged, SignerFor
<1>5. CASE ~(p \in Repos /\ SignerIn(cfg[p]) # NoSigner)
  BY <1>2, <1>3, <1>5 DEF CurrentUser, Merged, SignerFor
<1> QED
  BY <1>4, <1>5

\* login: what "saved login details" and a logout tell is what the next command
\* in that place finds, for any number of places, accounts and signers, and
\* whatever was there before.
THEOREM ToldIsTrue == Spec => []ToldIsSo
<1>1. Spec => []TypeInv
  BY TypeInit, TypeStep, PTL DEF Spec
<1>2. Spec => [](TellInv \/ "overlap" \in env)
  BY <1>1, TellInit, TellStep, PTL DEF Spec
<1>3. Spec => [](CompleteInv \/ ~(env \subseteq {"bunker", "locked"}))
  BY <1>1, <1>2, CompleteInit, CompleteStep, PTL DEF Spec
<1>4. /\ TellInv \/ "overlap" \in env
      /\ CompleteInv \/ ~(env \subseteq {"bunker", "locked"})
      => ToldIsSo
  BY DEF TellInv, CompleteInv, ToldIsSo
<1> QED
  BY <1>2, <1>3, <1>4, PTL

\* get_curent_user: the account that is looked up apart from the signer is the
\* one that signs, where commands take turns and complete.
THEOREM UserIsSigner == Spec => []UserSigns
<1>1. Spec => []TypeInv
  BY TypeInit, TypeStep, PTL DEF Spec
<1>2. Spec => [](TellInv \/ "overlap" \in env)
  BY <1>1, TellInit, TellStep, PTL DEF Spec
<1>3. Spec => [](CompleteInv \/ ~(env \subseteq {"bunker", "locked"}))
  BY <1>1, <1>2, CompleteInit, CompleteStep, PTL DEF Spec
<1>4. CompleteInv \/ ~(env \subseteq {"bunker", "locked"}) => UserSigns
  BY WholeSigns DEF UserSigns
<1> QED
  BY <1>3, <1>4, PTL
=============================================================================
