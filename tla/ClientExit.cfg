SPECIFICATION Spec
CONSTANT MaxFailing = 1
INVARIANTS EndsOnlyWhenAsked
CHECK_DEADLOCK FALSE
