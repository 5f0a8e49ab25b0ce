SPECIFICATION FairSpec
CONSTANTS
    alice = alice  bob = bob  carol = carol
    home = home  hub = hub
    Users = {alice, bob, carol}
    Trusted = alice
    Relays = {home, hub}
    Events <- Chain
    Hostings <- ChainHosted
    Fallback = {home}
    Hinted = {}
    Me = {carol}
    Env = {"relay_fault", "crash", "other_clone"}
INVARIANTS TypeOK RelayExhausted RepoRelaysAsked GlobalKeepsUp
PROPERTY FetchEnds
CHECK_DEADLOCK FALSE
