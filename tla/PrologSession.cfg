SPECIFICATION Spec
CONSTANT MaxCalls = 3
INVARIANTS
  AnswerIsOwn
  KilledQueryLeavesNoTrace
PROPERTIES
  EffectsAreKept
  EveryCallIsAnswered
CHECK_DEADLOCK FALSE
