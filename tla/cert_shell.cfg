SPECIFICATION Spec
CONSTANTS
  Algos <- Curves
  ChainMax <- Sizes
  KeySize = 3
  FragmentMax = 4
  Lengths = {0, 1, 2, 3, 4, 5}
INVARIANTS
  TypeOK
PROPERTIES
  GivenAsTyped
