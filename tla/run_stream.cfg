SPECIFICATION StreamFairSpec
CONSTANTS
    Steps = {a, b}
    a = a
    b = b
    Main = Main
    c1 = c1
    l1 = l1
    Sockets = {c1}
    Listeners = {l1}
    Scenarios <- MCScenarios
    MaxBuffer = 3
    None = None
INVARIANT StreamTypeOK
INVARIANT NoGap
INVARIANT ClearPending
PROPERTY VerdictDelivered
PROPERTY StreamEnds
PROPERTY Freed
