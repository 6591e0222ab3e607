\* Three keys, every hash function into five values.
CONSTANTS
  Key = {k1, k2, k3}
  Value = {v1, v2}
  NULL = NULL
  HashValues = {0, 1, 2, 3, 7}
  INITIAL_CAPACITY = 2
  MaxCapacity = 8
SYMMETRY Symmetry
SPECIFICATION Spec
INVARIANTS
  TypeOK
  ProbingEnds
  LengthIsExact
  KeysAreFound
PROPERTIES
  ImplementsMap
  IterationComplete
