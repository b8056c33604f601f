CONSTANTS
    Rows = 3
    StepOf <- MCStepOf
    StepDuration = 3600000
    QueueSize = 2
    SkipRows = {1, 2, 4}
    MaxRecords = {1, NoLimit}
    NoLimit = NoLimit
    MaxSessions = 2
SPECIFICATION FairSpec
INVARIANTS TypeOK DoneMeansDelivered EventTimeDeterministic
PROPERTY EventuallyStopped
CHECK_DEADLOCK FALSE
