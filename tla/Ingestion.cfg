CONSTANTS
    s1 = s1  foreign = foreign  day = day  unknown = unknown
    Pipeline = "transactions"
    Schemas = {s1}
    ForeignId = foreign
    Keys = {day, unknown}
    UnknownKey = unknown
    Messages <- MCMessages
    BatchIds = {0, 1}
    Rows = {1, 2}
    MaxLog = 2
    MaxOffsets = 2
    MaxCrashes = 1
    PoisonRows = {}
    MaxPerRun = 1
    MaxActive = 2
    Retries = 1
    MaxFaults = 1
    MaxCopies = 2
SPECIFICATION FairSpec
INVARIANTS TypeOK RowsOfOneBatch CommittedAsPublished
PROPERTY EventuallyIngested
