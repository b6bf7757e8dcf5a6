CONSTANTS
    asst = asst  summ = summ  none = none
    a1 = a1  a2 = a2  s1 = s1
    Role <- MCRole
    NoRole = none
    RoleOf <- MCRoleOf
    Pid = {a1, a2, s1}
    NoPid = nopid
    Assistant = asst
    Summarizer = summ
    Turns <- MCTurns
    MaxTurns = 2
    MaxFaults = 2
    MaxErrors = 1
    MaxRows = 8
    MaxJournal = 2
    Managed = TRUE
SPECIFICATION Spec
INVARIANTS FullInv SoleWorker EveryRowAccounted StampMeansSent KilledRunIsClosed SummarizedOnce OrphansAreCounted
PROPERTIES OutcomesStand ImplementsLedger
SYMMETRY Sym
