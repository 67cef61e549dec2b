CONSTANTS
  Alphabet <- MCAsciiAlphabet
  MaxLen = 6
  MaxReads = 1
SPECIFICATION LoadSpec
INVARIANT LoadMatchesSpec
