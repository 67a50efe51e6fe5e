SPECIFICATION Spec
CONSTANTS
  k1 = k1
  k2 = k2
  k3 = k3
  k4 = k4
  k5 = k5
  Keys = {k1, k2, k3, k4, k5}
  Values = {1, 2}
  NULL = NULL
  HashFunctions <- MCHashFunctions
  INITIAL_CAPACITY = 5
  MaxInserts = 5
  AllowRedefinition = FALSE
INVARIANTS TableInv LatestVisible
