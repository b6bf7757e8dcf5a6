CONSTANT MaxTurn = 2
SPECIFICATION FairSpec
INVARIANTS IndInv NeverDefaultAction StopIsOwn NoLostRequest
PROPERTIES RaisesAtCallsOnly TermIsHonoured StopTakesEffect
CHECK_DEADLOCK FALSE
