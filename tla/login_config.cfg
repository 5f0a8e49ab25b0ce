SPECIFICATION Spec
CONSTANTS
    Places = {clone, home}
    Repos = {clone}
    Global = global
    Accounts = {alice, bob}
    Nothing = nothing
    Envs <- Environments
SYMMETRY Interchangeable
INVARIANTS TypeOK UserSigns ToldIsSo
PROPERTIES LoginsKept
CHECK_DEADLOCK FALSE
