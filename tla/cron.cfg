SPECIFICATION FairSpec
CONSTANTS
    backup = backup
    reminder = reminder
    w1 = w1
    sup = sup
    Job = {backup, reminder}
    Command = {backup}
    Script = {}
    OneShot = {reminder}
    MaxRetries <- MCMaxRetries
    Web = {w1}
    Sup = sup
    MaxOrders = 2
    MaxUpsets = 1
INVARIANTS
    IndInv
    SlotOnce
    NoPileUp
PROPERTIES
    VerdictStands
    RunsSettle
CHECK_DEADLOCK FALSE
