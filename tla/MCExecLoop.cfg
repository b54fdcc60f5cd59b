\* The engine's configuration: meta types given, the loop's condition is
\* __running, the dispatch table is total.  The termination_domain may match
\* the default instruction or, if it depends on data, leave the loop going.
SPECIFICATION Spec
CONSTANTS
  Absent = Absent
  Effects = {"plain", "front", "push", "halt", "fail"}
  Kinds = {"biz", "op"}
  MetaConfigured = TRUE
  TerminationOutcomes = {TRUE, FALSE}
  CustomCondition = FALSE
  RequestedSteps <- MCSteps
  DefaultSteps = 2
  StepCap = 8
  WordSize = 64
  MaxIssued = 7
  MaxBatch = 2
INVARIANTS
  TypeOK
  NoSafeLoss
  RunsAtMostOnce
  DispatchSeesBusiness
  TruncationMeansWorkLeft
  NormalExitComplete
PROPERTIES
  StoppedStaysStopped
