SPECIFICATION MCSpec
CONSTANTS
    c0 = c0  a = a  b = b  d = d  m = m
    h1 = h1  h2 = h2  alice = alice  bob = bob  carol = carol
    feat = feat  feat_ = feat_  other = other
    Commits = {c0, a, b, d, m}
    NoCommit = none
    Ancestors <- History
    Signature <- AuthorLine
    Users = {alice, bob, carol}
    Maintainers = {bob}
    Names = {feat, feat_, other}
    Safe <- SafeNames
    Clones = {h1, h2}
    Owner <- OwnClones
    Root = c0
    InitLog <- Nothing
    NoPush = NoPush
    Env = {}
    MaxLog = 4
INVARIANTS TypeOK PushShown ChainIsHistory OneProposal
PROPERTIES ClosedByMerge DropsOnlyByForce
CHECK_DEADLOCK FALSE
