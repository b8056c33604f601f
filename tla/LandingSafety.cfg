CONSTANTS
    s1 = s1  s2 = s2  foreign = foreign  day = day  unknown = unknown
    Pipeline = "transactions"
    Schemas = {s1, s2}
    ForeignId = foreign
    Keys = {day, unknown}
    UnknownKey = unknown
    Messages <- MCMessages
    BatchIds = {0, 1, 2}
    Rows = {1, 2, 3}
    MaxLog = 3
    MaxOffsets = 2
    MaxCrashes = 1
CHECK_DEADLOCK FALSE
SPECIFICATION FairSpec
INVARIANTS TypeOK CommittedAccounted OffsetsOnce
PROPERTIES MarkerLast EventuallyLanded
