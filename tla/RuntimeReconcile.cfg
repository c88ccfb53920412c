SPECIFICATION Spec
CONSTANTS
    Callers = {c1}
    Nobody = Nobody
    Resolvers = {r1}
    Ops = {"step", "reconcile"}
    Console = {}
    MAX_STEPS = 3
    Parkable = {"effect"}
    Zombies = FALSE
    Rows = 4
    MaxFaults = 0
PROPERTIES AlreadyTerminalIsTrue
CHECK_DEADLOCK FALSE
