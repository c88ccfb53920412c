SPECIFICATION Spec
CONSTANTS
    Callers = {c1, c2}
    Nobody = Nobody
    Resolvers = {r1}
    Ops = {"step", "resume", "submit", "reconcile"}
    Console = {}
    MAX_STEPS = 2
    Parkable = {"effect"}
    Zombies = FALSE
    Rows = 4
    MaxFaults = 0
INVARIANTS TypeOK NoDoubleStep StepsTellTheTruth OneToolAtATime
PROPERTIES ImplementsEngine
CHECK_DEADLOCK FALSE
