CONSTANTS
  Harmless = {"docs"}
  Fields = {"id", "note"}
  ResourceKeys = {"id"}
  Strings = {"a1", "a2", "a*"}
  Matches <- MCMatches
  Absent = Absent
  Tasks <- MCTasks
  RuleBases <- MCRuleBases
  Reductions <- MCReductions
SPECIFICATION Spec
INVARIANTS
  TypeOK
  OnlyAgreedActionsRun
  PolicyCeiling
  LikeScopesNarrow
CHECK_DEADLOCK FALSE
