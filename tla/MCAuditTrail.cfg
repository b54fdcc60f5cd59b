\* Two rounds and more of the loop with a try, a parallel or a dispatch open
\* inside the dispatch of the loop, and meta instructions that change the data.
SPECIFICATION Spec
CONSTANTS
  Contents = {c1, c2}
  Absent = Absent
  Blank = Blank
  Genesis = Genesis
  HashOf <- MCHashOf
  DrainMetaTrace = TRUE
  MaxTicks = 3
  MaxExpansions = 1
  MaxFrames = 2
SYMMETRY MCSymmetry
INVARIANTS
  AuditComplete
  ChainOnlyGrows
  ChainLinked
  TicksIncrease
