\* Two ids, two rules of the host, two changes by inject_rule.
SPECIFICATION Spec
CONSTANTS
  RuleIds = {a, b}
  Weights <- MCWeights
  Scale = 10
  MaxPriority = 10
  IntLimit = 128
  MaxArrivals = 2
  Absent = Absent
  MaxInjects = 2
SYMMETRY MCSymmetry
INVARIANTS
  RulesInOrder
  AppliesNewest
  LoadKeepsOrder
PROPERTIES
  InjectAccounts
