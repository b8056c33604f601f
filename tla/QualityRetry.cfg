CONSTANTS
    r1 = r1  r2 = r2  poison = poison  day = day
    BatchIds = {0}
    Rows <- MCRows
    Keys = {day}
    Landings <- MCLandings
    PoisonRows = {poison}
    MaxPerRun = 1
    MaxActive = 2
    Retries = 1
    MaxFaults = 1
    MaxCopies = 2
SPECIFICATION Spec
INVARIANT OneQualityRowPerKey
