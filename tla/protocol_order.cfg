SPECIFICATION MCSpec
CONSTANTS
    Procs = {p1, p2}
    Host = host  OtherHost = otherhost  Directory = directory
    Urls <- SomeUrls
    Overrides = {"https", none}
    NoProtocol = none
    NoAttempt = NoAttempt
    Env = {}
INVARIANTS TypeOK PromptsJustified OnlySshHides ListsWhereItWorked
SYMMETRY Interchangeable
