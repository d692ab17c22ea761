SPECIFICATION Spec
CONSTANTS
  Scenario = {"c1", "m1", "m2", "m3"}
  Classify = {"c1"}
  Pages <- MCPages
  AI_MAX_CONCURRENCY = 2
CHECK_DEADLOCK FALSE
INVARIANTS
  TypeOK
  OneCallPerScenario
  NoCallStartsLate
PROPERTIES
  ImplementsScenarioCache
  PageLeavesAIPhase
