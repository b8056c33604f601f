CONSTANTS
    None = None
    Dirs = {d1}
    Runs = {k1, k2}
    Identifiers <- MCIdentifiers
    Relations <- MCRelations
    Schema <- MCSchema
    Row <- MCRow
    Contracts <- MCContracts
    Experiments <- MCExperiments
    Populations <- MCPopulations
SPECIFICATION Spec
INVARIANT SnapshotOfValidatedData
