SPECIFICATION Spec
CONSTANT MaxCalls = 2
INVARIANT FailureLeavesNoTrace
CHECK_DEADLOCK FALSE
