\* meta_instruction_types missing, a condition of the rule's own, a
\* termination_domain that depends on data, and a table that misses.
SPECIFICATION Spec
CONSTANTS
  Absent = Absent
  Effects = {"plain", "front", "push", "halt", "miss"}
  Kinds = {"biz", "op"}
  MetaConfigured = FALSE
  TerminationOutcomes = {TRUE, FALSE}
  CustomCondition = TRUE
  RequestedSteps <- MCSteps
  DefaultSteps = 2
  StepCap = 6
  WordSize = 64
  MaxIssued = 6
  MaxBatch = 2
PROPERTIES
  Returns
