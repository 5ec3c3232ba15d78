SPECIFICATION FairSpec
CONSTANTS
  t1 = t1
  t2 = t2
  Incidents = {i1, i2}
  Batch <- TwoTasks
  Requests = {i1, i2, t1, t2}
  Prompts = {q1}
  Names = {r1}
  Primary = "ollama"
  Registered = {"ollama", "claude", "gpt4o"}
INVARIANTS
  AsksInOrder
  ReportedDespiteProviders
  FilesAgree
  BatchKeepsOrder
PROPERTIES
  OwnReportsStay
  RequestsSettle
CHECK_DEADLOCK FALSE
