CONSTANTS
    chat = chat  none = none
    Role <- MCRole
    NoRole = none
    DirectChat = chat
    MaxRows = 2
    MaxJournal = 2
    MaxPresses = 1
    MaxFaults = 0
SPECIFICATION Spec
INVARIANT DroppedNeverRuns
CHECK_DEADLOCK FALSE
