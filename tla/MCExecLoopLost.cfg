\* Push-only programs, with the meta types the documentation gives.
SPECIFICATION Spec
CONSTANTS
  Absent = Absent
  Effects = {"plain", "push"}
  Kinds = {"biz"}
  MetaConfigured = TRUE
  TerminationOutcomes = {TRUE}
  CustomCondition = FALSE
  RequestedSteps <- MCSteps
  DefaultSteps = 2
  StepCap = 4
  WordSize = 16
  MaxIssued = 5
  MaxBatch = 1
INVARIANT NothingLost
