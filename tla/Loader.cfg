CONSTANTS
    r1 = r1  r2 = r2  poison = poison  day = day
    BatchIds = {0, 1}
    Rows <- MCRows
    Keys = {day}
    Landings <- MCLandings
    PoisonRows = {poison}
    MaxPerRun = 2
    MaxActive = 1
    Retries = 1
    MaxFaults = 2
    MaxCopies = 4
SPECIFICATION FairSpec
INVARIANTS TypeOK AcceptedReconciles CommittedHasQuality CopiesCostFaults
PROPERTIES CommittedIsClosed ImplementsAtomicLoad EventuallyLoaded
