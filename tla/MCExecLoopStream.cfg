SPECIFICATION DisciplinedSpec
CONSTANTS
  Absent = Absent
  Effects = {"plain", "front", "push", "halt", "fail"}
  Kinds = {"biz", "op"}
  MetaConfigured = TRUE
  TerminationOutcomes = {TRUE, FALSE}
  CustomCondition = FALSE
  RequestedSteps <- MCSteps
  DefaultSteps = 2
  StepCap = 8
  WordSize = 64
  MaxIssued = 7
  MaxBatch = 2
PROPERTIES
  ImplementsStream
