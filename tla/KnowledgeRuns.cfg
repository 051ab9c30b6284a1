SPECIFICATION KnowledgeSpec
CONSTANTS
  Chunks = {k1, k2}
  Calls = {t1, t2, t3}
  Gaps = {g1, g2, g3}
  Forged = Forged
  None = None
  Paths <- RunPaths
  Limits <- RunLimits
  SubQueries <- RunSubQueries
  EvidenceLimit = 2
  HandoffWired = TRUE
  NoContext = NoContext
  Index <- SmallIndex
  SourceOf <- TwoSources
  Callers <- OneCaller
  MaxSelected = 2
  ChannelTop = 1
  ResultTop = 2
  RerankAbove = 1
  MaxContext = 8
  MaxBlock = 4
  MaxParent = 5
INVARIANTS
  ContextIsPermitted
  OneBudgetPerRun
  PublishedIsValidated
PROPERTIES
  NothingAfterStop
  RunSettles
CHECK_DEADLOCK FALSE
