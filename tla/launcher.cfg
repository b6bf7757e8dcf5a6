CONSTANTS
    core = core  s1 = s1
    Core = core
    Service <- MCService
    MaxEdits = 2
    LastEdit = 1
    MaxExits = 1
    MaxLines = 1
SPECIFICATION FairSpec
INVARIANTS IndInv CoreOutlivesServices
PROPERTIES NeverTwoGroups RestartsHaveCause SettingsTakeEffect ShutdownEnds
CHECK_DEADLOCK FALSE
