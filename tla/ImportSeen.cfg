SPECIFICATION Spec
CONSTANTS
  q1 = q1
  q2 = q2
  t1 = t1
  t2 = t2
  Requests <- TwoRequests
  MaxRuns = 1
  Threads <- TwoThreads
  MaxMessages = 2
  MaxPicks = 1
  MaxAttachments = 1
  MaxItems = 3
  Concurrency = 2
  MaxPolls = 1
  Attempts <- TwoAttempts
  Outputs <- TwoOutputs
  Blocks <- SomeBlocks
  MaxBlocks = 3
  MinChunk = 1
  MaxChild = 3
  MaxChunk = 5
  MaxPages = 2
  MaxRedirects = 2
  MaxContents = 2
  Budgets <- SomeBudgets
  Usages <- SomeUsages
  MaxFlights = 2
  Reports <- TwoReports
  MaxTokens = 1
PROPERTIES
  ImportSeen
CHECK_DEADLOCK FALSE
