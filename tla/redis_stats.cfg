SPECIFICATION FairSpec
CONSTANTS
    w1 = w1
    w2 = w2
    m1 = m1
    m2 = m2
    Workers <- MCWorkers
    Models <- MCModels
    ModelsOf <- MCModelsOf
    Closing = {w2}
    MaxRetries = 2
    MaxRecords = 3
    MaxFaults = 1
    Absent = Absent
    Corrupt = Corrupt
INVARIANT TypeOK
INVARIANT CountsExact
PROPERTY FlushedOnClose
PROPERTY SaveEnds
