\* The arrays and the search against the patterns, over every dictionary and text.
CONSTANTS
  Code = {4, 5, 6}
  MaxCode = 8
  BlockSize = 8
  Increase = 1
  MaxThrows = 2
  Dictionaries <- AllWords
  Texts <- AllTexts
SPECIFICATION FairSpec
INVARIANTS SlotsDistinct ArraysAreTheTrie SearchIsExact OrderlyBuildsEnd
PROPERTY TrieEnds
\* Undefined behaviour ends the behaviours that reach it.
CHECK_DEADLOCK FALSE
