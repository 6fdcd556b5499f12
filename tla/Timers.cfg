SPECIFICATION TimersSpec
CONSTANTS
  Modulus = 8
  Compares = {0, 1, 3, 7}
  Starts = {0, 1, 3, 7}
  Reloads = {0, 2, 3}
  Clocks <- MCClocks
  Steps = {1, 3}
  Used = {"t16", "t8"}
  Past = 11
INVARIANTS
  T16IsExact
  T8IsExact
