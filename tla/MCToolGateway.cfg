SPECIFICATION Spec
CONSTANTS
    Absent = Absent
    Text = Text
    Policies <- MCPolicies
    Conditions <- MCConditions
    Objective = {}
    DestructiveTools = {}
    OutgoingTools = {"send_external_email"}
    Registered <- MCRegistered
    Inputs <- MCInputs
    Granted <- MCGranted
    Leased = TRUE
    MaxCalls = 2
    MaxEdits = 1
    MaxFaults = 1
INVARIANTS TypeOK NothingRunsUnjudged NothingLeavesAfterARead AnswersAreOnRecord
PROPERTIES EveryPermitIsNamed IdlePoliciesDoNotMatter
CHECK_DEADLOCK FALSE
