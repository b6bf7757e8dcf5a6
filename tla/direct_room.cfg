CONSTANTS
    chat = chat  none = none
    Role <- MCRole
    NoRole = none
    DirectChat = chat
    MaxRows = 3
    MaxJournal = 2
    MaxPresses = 2
    MaxFaults = 1
SPECIFICATION FairSpec
INVARIANTS IndInv CursorHasWorker StopCoversSeen
PROPERTIES AskedEnds ImplementsLedger
CHECK_DEADLOCK FALSE
