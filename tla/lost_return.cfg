CONSTANTS
    asst = asst  summ = summ  none = none
    a1 = a1  a2 = a2  s1 = s1
    Role <- MCRole
    NoRole = none
    RoleOf <- MCRoleOf
    Pid = {a1, a2, s1}
    NoPid = nopid
    Assistant = asst
    Summarizer = summ
    Turns <- MCTurns
    MaxTurns = 1
    MaxFaults = 1
    MaxErrors = 0
    MaxRows = 4
    MaxJournal = 3
    Managed = TRUE
SPECIFICATION Spec
INVARIANT FailedTurnWakesManager
