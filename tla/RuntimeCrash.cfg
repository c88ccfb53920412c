SPECIFICATION Spec
CONSTANTS
    Callers = {c1}
    Nobody = Nobody
    Resolvers = {r1}
    Ops = {"step"}
    Console = {}
    MAX_STEPS = 3
    Parkable = {"effect"}
    Zombies = FALSE
    Rows = 4
    MaxFaults = 1
INVARIANTS CompletedMeansCalled
CHECK_DEADLOCK FALSE
