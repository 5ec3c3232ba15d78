SPECIFICATION AgentSpec
CONSTANTS
  Tasks <- SomeTasks
  QueueMax = 2
  MaxResults = 4
  None = None
  c1 = c1
  c2 = c2
  c3 = c3
  Calls = {c1, c2, c3}
  KindOf <- MixedKinds
  App = app
  MaxConnects = 2
INVARIANTS
  ResultsInOrder
  NothingOutlivesRun
  FuturesMatchCalls
  ConsumerSurvives
PROPERTIES
  ResultsAreSent
  FailureIsNoticed
  CallsReturn
CHECK_DEADLOCK FALSE
