CONSTANTS
    Requests = {q1}
    Resolvers = {alice}
    NoRequest = NoRequest
SPECIFICATION Spec
CHECK_DEADLOCK FALSE
PROPERTIES
    TerminalIsFinal
