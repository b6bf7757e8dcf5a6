CONSTANTS
    chat = chat  none = none
    Role <- MCRole
    NoRole = none
    DirectChat = chat
    MaxRows = 1
    MaxJournal = 1
    MaxPresses = 0
    MaxFaults = 0
SPECIFICATION Spec
INVARIANT BubbleIsReaped
CHECK_DEADLOCK FALSE
