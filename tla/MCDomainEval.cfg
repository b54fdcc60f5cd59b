\* One evaluation of each document in each state, one comparison of each pair.
SPECIFICATION Spec
CONSTANTS
  Documents <- MCDocuments
  Levels <- MCLevels
  Docs <- MCDocs
  PairDocs <- MCPairDocs
  RuleLists <- MCRuleLists
  AttrValues <- MCValues
  States <- MCStates
  OtherState <- MCOther
  Expected <- MCExpected
  Attributes <- MCAttributes
  ResultAttrs = {"y"}
  Known = {"go"}
  Unknown = Unknown
  Absent = Absent
  MaxDomainDepth = 1
  MaxRuns = 1
  ExactLimit = 4
INVARIANTS
  VerdictIsMembership
  DepthOnlyRefuses
  RoundTrip
  ComparisonsAgree
  OverlapSoundOnOneAttribute
  FilterKeepsRelevant
