SPECIFICATION MCSpec
CONSTANTS
    c0 = c0  a = a  b = b  d = d  u = u  w = w
    alice = alice  bob = bob  carol = carol
    feat = feat
    Commits = {c0, a, b, d, u, w}
    NoCommit = none
    Ancestors <- History
    Signature <- Same
    Users = {alice, bob, carol}
    Maintainers = {bob}
    Names = {feat}
    Safe <- SafeNames
    Root = c0
    Local = {u, w}
    InitLog <- Nothing
    None = None
    Env = {}
    MaxLog = 4
INVARIANTS WellTyped CheckedOutIsTip AmendedIsUsers SentIsTip
PROPERTIES LosesOnlyByDiscard
