SPECIFICATION FindFairSpec
CONSTANTS
    alice = alice  bob = bob  carol = carol
    Users = {alice, bob, carol}
    Trusted = alice
    Relays = {}
    NoAnn = NoAnn
    Contents <- Chains
    MaxAt = 3
INVARIANTS FindTypeOK OnlyNamed FindsAll
PROPERTY Ends
CHECK_DEADLOCK FALSE
