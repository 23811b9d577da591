SPECIFICATION FairSpec
CONSTANT MaxFailing = 1
INVARIANTS TypeOK DecryptAwake NoOverlap Agreement
PROPERTIES JoinReturns
CHECK_DEADLOCK FALSE
