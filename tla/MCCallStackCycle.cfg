\* Two aliases that stand for each other.
SPECIFICATION Spec
CONSTANTS
  exec = exec
  data = data
  a = a
  b = b
  c = c
  Fields <- MCFields
  SystemFields <- MCSystemFields
  Exec = exec
  Aliases <- MCAliases
  Expansion <- MCCyclicExpansion
  MaxDepth = 2
  MaxInstructions = 3
  MaxChildren = 1
PROPERTY Terminates
