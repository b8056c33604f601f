CONSTANTS
    k1 = k1  k2 = k2  k3 = k3  k4 = k4
    scheduled = scheduled  script = script  NoLabel = NoLabel  None = None
    Keys = {k1, k2, k3, k4}
    Landed <- MCLanded
    InvalidAmount <- MCInvalidAmount
    InvalidBalance = {}
    OutOfDomain = {}
    BlankKeys = {}
    EmptyIds = {}
    Builders = {scheduled, script}
    Scheduled = scheduled
    Nodes <- MCNodes
    MaxFailures = 1
    Script = script
    Kinds <- MCKinds
    TrainEnd = 1
    TestEnd = 2
    Truth <- MCTruth
    Scores <- MCScores
    Seconds <- MCSeconds
    Scale = 180
    MinPrecision = 108
    RecallTolerance = 1
    AucTolerance = 18
SPECIFICATION ExperimentSpec
INVARIANTS TypeOK TrainedOnCommitted AloneReconciles ComparedAlike WinnerUnbeaten NoFraudWasted
PROPERTY ContentKept
