CONSTANTS
    s1 = s1  foreign = foreign  day = day  unknown = unknown
    Pipeline = "transactions"
    Schemas = {s1}
    ForeignId = foreign
    Keys = {day, unknown}
    UnknownKey = unknown
    Messages <- MCMessages
    BatchIds = {0}
    Rows = {1}
    MaxLog = 1
    MaxOffsets = 2
    MaxCrashes = 1
    PoisonRows = {}
    MaxPerRun = 1
    MaxActive = 2
    Retries = 0
    MaxFaults = 0
    MaxCopies = 2
SPECIFICATION Spec
INVARIANT WarehouseReconciles
