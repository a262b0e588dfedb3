SPECIFICATION FairSpec
CONSTANTS
    Models = {m1}
    c1 = c1
    c2 = c2
    c3 = c3
    Callers <- MCCallers
    KindsOf <- MCKindsOf
    Provider <- MCProvider
    Limit = 2
    Threshold = 2
    Required = 2
    MaxRetries = 2
    Nobody = Nobody
    NoModel = NoModel
PROPERTY ResolvedStaysInside
