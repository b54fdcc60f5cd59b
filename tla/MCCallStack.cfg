\* Acyclic dispatch_cases, both limits within reach.
SPECIFICATION Spec
CONSTANTS
  exec = exec
  data = data
  a = a
  b = b
  c = c
  Fields <- MCFields
  SystemFields <- MCSystemFields
  Exec = exec
  Aliases <- MCAliases
  Expansion <- MCExpansion
  MaxDepth = 3
  MaxInstructions = 5
  MaxChildren = 2
INVARIANTS
  TypeOK
  DepthMatchesStack
  Rollback
  Isolation
PROPERTIES
  Terminates
