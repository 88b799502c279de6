CONSTANTS
  Address = {a1, a2, a3, a4, a5, a6, a7}
  Rank = {1, 2, 3}
  MaxSize = 7
SPECIFICATION HeapSpec
SYMMETRY Symmetry
INVARIANT TreeSearchable
PROPERTY ImplementsRankedSet
