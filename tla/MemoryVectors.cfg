SPECIFICATION FairSpec
CONSTANTS
    Facts = {f1, f2}
    Short <- OneFact
    MaxId = 2
    Acquirers = {a1}
    MaxExtract = 2
    Runs = {}
    MaxGroup = 2
    GroupsPerCall = 1
    BatchSize = 1
    Requested <- BlankOrWhole
    MaxRequest = 1
    MaxCrash = 1
INVARIANT VectorsMatch
PROPERTY EventuallyEmbedded
PROPERTY WorkerRests
