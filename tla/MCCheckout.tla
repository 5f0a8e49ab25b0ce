----------------------------- MODULE MCCheckout -----------------------------
(***************************************************************************)
(* A clone in several environments at once.                                *)
(***************************************************************************)
EXTENDS Checkout

CONSTANTS c0, a, b, d, u, w, alice, bob, carol, feat

\* A line of two commits, d in place of the first, and two that the reviewer
\* may make: u on top of both, w in place of the second.
History == [k \in Commits |->
    IF k = a THEN {c0, a}
    ELSE IF k = b THEN {c0, a, b}
    ELSE IF k = d THEN {c0, d}
    ELSE IF k = u THEN {c0, a, b, u}
    ELSE IF k = w THEN {c0, a, w}
    ELSE {c0}]
Same == [k \in Commits |-> k]
SafeNames == [n \in Names |-> n]
Nothing == << >>

\* A proposal of alice.
Sent == << [author |-> alice, at |-> 1, root |-> TRUE, revision |-> FALSE, thread |-> 0,
            parent |-> 0, mentions |-> {}, name |-> feat, commit |-> a] >>

VARIABLE env

Setting(may, events, commits, users, size) ==
    [may |-> may, events |-> events, commits |-> commits, local |-> Local \cap commits,
     history |-> [k \in commits |-> Ancestors[k]], users |-> users,
     maintainers |-> Maintainers \cap users, size |-> size]
Envs == [plain   |-> Setting({}, Nothing, {c0, a, b}, {bob, carol}, 3),
         work    |-> Setting({}, Sent, {c0, a, b, d, u, w}, {alice}, 3),
         mention |-> Setting({"mention"}, Sent, {c0, a, d}, {alice}, 3),
         clocks  |-> Setting({"clocks"}, Sent, {c0, a, d}, {alice, bob}, 3),
         relays  |-> Setting({"relay_fault"}, Sent, {c0, a, b, d}, {alice}, 3),
         broken  |-> Setting({"killed", "fault"}, Sent, {c0, a, b, d}, {alice}, 3),
         waiting |-> Setting({"meanwhile", "edits"}, Sent, {c0, a, b, u, w}, {alice}, 3)]

Clone(e) == INSTANCE Checkout WITH
    Env <- Envs[e].may,
    InitLog <- Envs[e].events,
    Commits <- Envs[e].commits,
    Local <- Envs[e].local,
    Ancestors <- Envs[e].history,
    Users <- Envs[e].users,
    Maintainers <- Envs[e].maintainers,
    MaxLog <- Envs[e].size

MCInit == \E e \in DOMAIN Envs : env = e /\ Clone(e)!Init
MCNext == \E e \in DOMAIN Envs : env = e /\ Clone(e)!Next /\ UNCHANGED env
MCSpec == MCInit /\ [][MCNext]_<<vars, env>>

-----------------------------------------------------------------------------
(* Properties of Checkout, where they hold.                                *)

\* The state is well formed in the environment it is of.
WellTyped == \E e \in DOMAIN Envs : env = e /\ Clone(e)!TypeOK

\* The branch as ngit saw it when it asked is the branch that it changes.
LosesOnlyByDiscard == [][env # "waiting" => KeepsUnpublished]_vars

\* "checked out proposal" is told of the tip, unless the reviewer commits at the
\* prompt.
CheckedOutIsTip == env # "waiting" => ReportedIsTip

\* What is cut short looks like the reviewer's own changes.
AmendedIsUsers == env # "broken" => AmendedIsOwn

\* `--in-reply-to` takes "references to an existing proposal for which this is a
\* new version and/or events / npubs to tag as mentions" (send.rs): a mention is
\* not a new version.
MentionIsNoVersion == [][env = "mention" => LeavesOthers]_vars
=============================================================================
