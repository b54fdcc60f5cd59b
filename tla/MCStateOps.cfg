\* Integers of five bits; up to two writes from each initial state; values that
\* do not nest deeper than MaxNesting.
SPECIFICATION Spec
CONSTANTS
  Code <- MCCode
  NonFinite <- MCNonFinite
  MaxHashDepth = 4
  MaxJsonDepth = 4
  Digits <- MCDigits
  MaxPathDepth = 3
  MaxRefDepth = 6
  Initial <- MCInitial
  Attrs <- MCAttrs
  Operands <- MCOperands
  Operations <- MCOperations
  Lists <- MCLists
  Indexes <- MCIndexes
  Paths <- MCPaths
  Samples <- MCSamples
  IntLimit = 16
  MaxVersion = 2
  MaxNesting = 12
  Probes <- MCProbes
  Ticks <- MCTicks
  AuditKey <- MCAuditKey
  VersionLimit = 8
INVARIANTS
  NoWrapAround
  WritesReadBack
  SetLaws
  RefsResolved
  HashTellsApart
  StoredStateVerifies
  AlteredChainFails
PROPERTIES
  VersionTellsChange
