SPECIFICATION LiveSpec
CONSTANTS
  r1 = r1
  r2 = r2
  None = None
  Absent = Absent
  ApprovedTools = {"semantic_lexical_hybrid"}
  Revisions <- TwoRevisions
  Registry <- TwoProbes
  Critical <- OneCritical
  Optional <- OptionalProbes
  Cases <- GoldenCases
  Worlds <- SomeWorlds
INVARIANTS
  DefaultIsProven
PROPERTIES
  ReleaseSettles
CHECK_DEADLOCK FALSE
