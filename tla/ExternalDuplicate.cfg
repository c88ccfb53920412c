SPECIFICATION Spec
CONSTANTS
    Requests = {"refund"}
    Tool <- MCTool
    Handlers = {1, 2}
    Nobody = 0
    Patient = FALSE
    MaxSteps = 3
    MaxFaults = 0
INVARIANT DuplicatesRunOnce
CHECK_DEADLOCK FALSE
