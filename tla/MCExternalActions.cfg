SPECIFICATION Spec
CONSTANTS
    Requests <- MCRequests
    Tool <- MCTool
    Handlers = {1, 2}
    Nobody = 0
    Patient = TRUE
    MaxSteps = 2
    MaxFaults = 1
INVARIANTS TypeOK RetriesRunOnce OutcomesAreTrue
PROPERTY OutcomesAreFinal
CHECK_DEADLOCK FALSE
