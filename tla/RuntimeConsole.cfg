SPECIFICATION FairSpec
CONSTANTS
    Callers = {c1}
    Nobody = Nobody
    Resolvers = {r1}
    Ops = {"step", "resume"}
    Console = {c1}
    MAX_STEPS = 3
    Parkable = {"effect"}
    Zombies = FALSE
    Rows = 6
    MaxFaults = 2
INVARIANTS RefusalIsHeeded
PROPERTIES Settles
CHECK_DEADLOCK FALSE
