CONSTANTS
  Alphabet <- MCUtf8Alphabet
  MaxLen = 3
  MaxReads = 3
SPECIFICATION LoadSpec
INVARIANT LoadMatchesSpec
