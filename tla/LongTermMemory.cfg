SPECIFICATION Spec
CONSTANTS
    Facts = {f1, f2}
    Short <- OneFact
    MaxId = 3
    Acquirers = {a1}
    MaxExtract = 1
    Runs = {c1}
    MaxGroup = 2
    GroupsPerCall = 1
    BatchSize = 1
    Requested <- BlankOrWhole
    MaxRequest = 1
    MaxCrash = 1
SYMMETRY SymmetricFacts
INVARIANT TypeOK
INVARIANT NothingForgotten
INVARIANT StaysDeleted
