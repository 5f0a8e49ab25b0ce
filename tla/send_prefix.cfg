SPECIFICATION SendSpec
CONSTANTS
    r1 = r1  r2 = r2
    Hosts = {r1, r2}
    Count = 3
    Announces = {1}
    UrlLists <- Lists
    UsizeMax = 255
    SendEnv = {"relay_fault", "crash"}
INVARIANTS SendTypeOK NoGaps
CHECK_DEADLOCK FALSE
