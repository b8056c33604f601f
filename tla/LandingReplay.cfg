CONSTANTS
    s1 = s1  s2 = s2  foreign = foreign  day = day  unknown = unknown
    Pipeline = "transactions"
    Schemas = {s1, s2}
    ForeignId = foreign
    Keys = {day, unknown}
    UnknownKey = unknown
    Messages <- MCFewMessages
    BatchIds = {0}
    Rows = {1}
    MaxLog = 1
    MaxOffsets = 2
    MaxCrashes = 1
CHECK_DEADLOCK FALSE
SPECIFICATION Spec
PROPERTY PublishedImmutable
