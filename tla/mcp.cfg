SPECIFICATION FairSpec
CONSTANTS
    n1 = n1
    n2 = n2
    t1 = t1
    Names <- MCNames
    Asked <- MCAsked
    Tools <- MCTools
    Clients <- MCClients
    MaxCalls = 3
    MaxAttempts = 2
    MaxFaults = 1
INVARIANT TypeOK
INVARIANT RequestsExact
INVARIANT Owned
PROPERTY ConnectionsKept
PROPERTY AllEnd
