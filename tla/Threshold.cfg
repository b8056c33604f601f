CONSTANTS
    k1 = k1  k2 = k2  k3 = k3  k4 = k4
    scheduled = scheduled  script = script  NoLabel = NoLabel  None = None
    Keys = {k1}
    Landed <- MCFewLanded
    InvalidAmount = {}
    InvalidBalance = {}
    OutOfDomain = {}
    BlankKeys = {}
    EmptyIds = {}
    Builders = {scheduled, script}
    Scheduled = scheduled
    Nodes <- MCFewNodes
    MaxFailures = 0
    Script = script
    Kinds <- MCOneKind
    TrainEnd = 1
    TestEnd = 2
    Truth <- MCTruth
    Scores <- MCOneScore
    Seconds <- MCOneSecond
    Scale = 180
    MinPrecision = 108
    RecallTolerance = 1
    AucTolerance = 18
SPECIFICATION ExperimentSpec
INVARIANT NoNeedlessAlert
