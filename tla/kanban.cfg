CONSTANTS
    a1 = a1  a2 = a2  t1 = t1  t2 = t2  w1 = w1
    Agent <- MCAgent
    Task <- MCTask
    Web <- MCWeb
    Verified <- MCVerified
    NoOne = NoOne
    NoTask = NoTask
    MaxRuns = 2
    MaxRequests = 1
    MaxSaves = 1
    MaxKills = 1
SPECIFICATION Spec
SYMMETRY CardSymmetry
INVARIANTS IndInv Exclusive LeaseReturned
PROPERTIES LiveLeaseStands
CHECK_DEADLOCK FALSE
