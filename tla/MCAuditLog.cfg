CONSTANTS
    slow = slow
    fast = fast
    Writers <- MCWriters
    Budget <- MCBudget
    Attempts = 5
    Sizes = {1, 2}
SPECIFICATION Spec
CHECK_DEADLOCK FALSE
INVARIANTS
    TypeOK
    Gapless
    RaisesOnlyWhenOutrun
PROPERTIES
    ImplementsAppendLog
