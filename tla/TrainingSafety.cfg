CONSTANTS
    None = None
    Dirs = {d1, d2}
    Runs = {k1, k2}
    Identifiers <- MCIdentifiers
    Relations <- MCRelations
    Schema <- MCSchema
    Row <- MCRow
    Contracts <- MCContracts
    Experiments <- MCExperiments
    Populations <- MCPopulations
SPECIFICATION Spec
INVARIANTS TypeOK EvaluationHonest FeaturesClean Traceable
PROPERTY WrittenOnce
SYMMETRY DirSymmetry
