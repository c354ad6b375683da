SPECIFICATION Spec
CONSTANTS
  Names = {1, 2}
  N = 6
  MAX_SIZE = 8
  SMALL_SIZE = 5
  SMALLER_SIZE = 2
  WORD = 2
PROPERTY ImplementsSets
