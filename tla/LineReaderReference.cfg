CONSTANTS
  Alphabet <- MCAlphabet
  MaxLen = 5
  MaxReads = 5
SPECIFICATION Spec
INVARIANT LinesMatchReference
