------------------------------- MODULE Signers -------------------------------
(***************************************************************************)
(* A login as git config keeps it (src/lib/login): the items of a scope,   *)
(* the signer that is read from them, and what loading it may give.        *)
(***************************************************************************)
EXTENDS Sequences, Naturals

CONSTANTS Places,   \* directories commands are run in, one at a time in each
          Repos,    \* the places in a git repository, with a local config
          Global,   \* the scope of the account
          Accounts, \* nostr accounts
          Nothing   \* "no such item", "no login", "could not log in"

ASSUME SignersAssumption ==
    /\ Repos \subseteq Places
    /\ Global \notin Places
    /\ Nothing \notin Accounts \cup [of : Accounts, locked : BOOLEAN]

Scopes == Repos \cup {Global}
Items == {"nsec", "npub", "bunker-uri", "bunker-app-key"}

\* A secret key; locked if it is an ncryptsec.
Key == [of : Accounts, locked : BOOLEAN]
Values == Key \cup Accounts \cup {Nothing}

\* SignerInfo.  A remote signer has no key that is locked.
Signer == [kind : {"key"}, of : Accounts, locked : BOOLEAN, npub : Accounts \cup {Nothing}]
          \cup [kind : {"bunker"}, of : Accounts, locked : {FALSE},
                npub : Accounts \cup {Nothing}]
NoSigner == [kind |-> "none"]

Empty == [i \in Items |-> Nothing]

KeyOf(a, locked, npub) == [kind |-> "key", of |-> a, locked |-> locked, npub |-> npub]
BunkerOf(a, npub) == [kind |-> "bunker", of |-> a, locked |-> FALSE, npub |-> npub]

\* get_signer_info for one scope with the items c.
SignerIn(c) ==
    IF c["nsec"] # Nothing THEN KeyOf(c["nsec"].of, c["nsec"].locked, c["npub"])
    ELSE IF c["bunker-uri"] # Nothing /\ c["bunker-app-key"] # Nothing
         THEN BunkerOf(c["bunker-uri"], c["npub"])
    ELSE NoSigner

\* get_signer: the public keys that loading may give.  A password is asked for
\* if prompts are allowed, and may be wrong.  A remote signer is contacted, and
\* may not answer, only if the public key is not known.
Loads(signer, prompt) ==
    CASE signer = NoSigner -> {Nothing}
      [] signer.kind = "key" /\ ~signer.locked -> {signer.of}
      [] signer.kind = "key" /\ signer.locked ->
            IF prompt THEN {signer.of, Nothing} ELSE {Nothing}
      [] signer.kind = "bunker" /\ signer.npub # Nothing -> {signer.npub}
      [] OTHER -> {signer.of, Nothing}
==============================================================================
