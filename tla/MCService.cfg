SPECIFICATION ServiceSpec
CONSTANTS
    Workers = {w1, w2}
    Humans = {}
    Machines = {robot}
    Bootstrap = admin
    SeededRole <- MCSeededRole
    Rules = Rules
    Nobody = Nobody
    MaxEvents = 1
    Requests = {r1, r2}
    Payments = {pay}
    Environments = {staging}
    Keys = {kp, k1}
    NoKey = NoKey
    MaxDeployments = 2
    PlannedKey = kp
    Traffic <- MCTraffic
    Planned <- MCPlanned
    Submitted <- MCSubmitted
    robot = robot
    pay = pay
    staging = staging
    k1 = k1
    r1 = r1
    r2 = r2
    w1 = w1
    w2 = w2
INVARIANTS TypeOK ServingMeansAdmin AnswersAgree DoubleRefundNeedsARace
PROPERTIES OnlyTheEntitledEnter EffectsKeepTheirKeys
SYMMETRY MCSymmetry
CHECK_DEADLOCK FALSE
