SPECIFICATION Spec
CONSTANTS
    Envs <- Environments
    MaxAt <- Bound
    Users = {alice, bob}
    User = alice
    Ids = {repo, short}
    NoId = noid
    Short = short
    Servers = {s1}
    None = none
INVARIANTS TypeOK Found FileInLine
PROPERTIES DefaultsKeep
CHECK_DEADLOCK FALSE
