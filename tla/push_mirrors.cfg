SPECIFICATION MCSpec
CONSTANTS
    c0 = c0  c1 = c1  c2 = c2  c3 = c3  x = x
    h1 = h1  h2 = h2  alice = alice  bob = bob
    s1 = s1  s2 = s2  main = main  dev = dev
    Commits = {c0, c1, c2, c3, x}
    NoCommit = none
    Ancestors <- History
    Helpers = {h1, h2}
    Users = {alice, bob}
    Owner <- OneOwner
    Maintainers = {alice}
    Relays = {r1}
    Servers = {s1, s2}
    Rank <- ServerRank
    Refs = {dev}
    MainRefs <- Main
    InitRefs <- AllAtRoot
    InitObjects = {c0}
    NoEvent = NoEvent  NoSpec = NoSpec  NotListed = NotListed
    Envs <- Environments
INVARIANTS LinearInLine DeliversAccepted
PROPERTIES QuietReachesServers AloneMirrors
CHECK_DEADLOCK FALSE
